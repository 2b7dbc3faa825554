---------------------------- MODULE MCTaskLogic ----------------------------
(***************************************************************************)
(* Instances of TaskLogic for TLC.                                         *)
(***************************************************************************)
EXTENDS TaskLogic

\* One step does not pull its image, the others do.
AllButFirst == 2 .. NSteps

=============================================================================
