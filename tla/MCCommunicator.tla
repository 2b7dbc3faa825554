--------------------------- MODULE MCCommunicator ---------------------------
(***************************************************************************)
(* The instance of Communicator for TLC: the worker's capabilities and one *)
(* that only a runner may have.                                            *)
(***************************************************************************)
EXTENDS Communicator

WorkersOwn == {"log", "error-report", "shutdown", "graceful-termination"}
AllCaps    == WorkersOwn \cup {"other"}

=============================================================================
