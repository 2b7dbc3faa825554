------------------------------ MODULE MCWorker ------------------------------
(***************************************************************************)
(* Instances of Worker for TLC.                                            *)
(***************************************************************************)
EXTENDS Worker

CONSTANTS t1, t2, t3

TwoTasks   == {t1, t2}
ThreeTasks == {t1, t2, t3}

AllPackets == {"finish", "now", "malformed"}

=============================================================================
