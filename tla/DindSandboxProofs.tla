------------------------- MODULE DindSandboxProofs -------------------------
(***************************************************************************)
(* Proofs about DindSandbox: whichever stage fails and whatever the other  *)
(* goroutine does meanwhile, the container is accounted for.               *)
(***************************************************************************)
EXTENDS DindSandbox, TLAPS

\* The stages between the creation of the container and its removal.
Polling == {"connect", "info", "certs", "final"}

(***************************************************************************)
(* Nothing is decided before the stage that decides it, only failures go   *)
(* through the cleanup, nobody can start a container before there is one,  *)
(* and one that was seen running can only exit.                            *)
(***************************************************************************)
StageInv ==
    /\ pc \in {"pull", "create", "status"} \cup Polling => result = "none"
    /\ pc = "cleanup" => result = "error"
    /\ pc \in {"pull", "create"} => container = "none" /\ runner = "unborn"
    /\ pc \in Polling => container \in {"running", "exited"}

SandboxInv == TypeOK /\ StageInv /\ NothingLeftBehind /\ SandboxUsable

\* Before the image is pulled there is no container.
LEMMA InitSandboxInv == Init => SandboxInv
BY DEF Init, SandboxInv, TypeOK, StageInv, Polling, NothingLeftBehind, SandboxUsable

\* Every step of either goroutine, and of docker, preserves the invariant.
LEMMA NextSandboxInv == SandboxInv /\ [Next]_vars => SandboxInv'
<1> SUFFICES ASSUME SandboxInv, [Next]_vars PROVE SandboxInv'
  OBVIOUS
<1> USE DEF SandboxInv, TypeOK, StageInv, Polling, NothingLeftBehind, SandboxUsable, Fails, vars
<1>1. CASE ImagePull
  BY <1>1 DEF ImagePull
<1>2. CASE ContainerCreate
  BY <1>2 DEF ContainerCreate
<1>3. CASE StatusReady \/ StatusExited \/ StatusFails
  BY <1>3 DEF StatusReady, StatusExited, StatusFails
<1>4. CASE Connect
  BY <1>4 DEF Connect
<1>5. CASE InfoAnswers \/ InfoFails
  BY <1>5 DEF InfoAnswers, InfoFails
<1>6. CASE ReadCerts
  BY <1>6 DEF ReadCerts
<1>7. CASE FinalInfo
  BY <1>7 DEF FinalInfo
<1>8. CASE Cleanup
  BY <1>8 DEF Cleanup, Remove
<1>9. CASE Close
  BY <1>9 DEF Close, Remove
<1>10. CASE RunStart
  BY <1>10 DEF RunStart
<1>11. CASE RunBreaks \/ RunEnds
  BY <1>11 DEF RunBreaks, RunEnds
<1>12. CASE ContainerExits
  BY <1>12 DEF ContainerExits
<1>13. CASE CtxExpires \/ MaxElapsedTime
  <2>1. UNCHANGED <<pc, result, container, leaked, runner>>
    BY <1>13 DEF CtxExpires, MaxElapsedTime
  <2>2. ctxDone' \in BOOLEAN /\ late' \in BOOLEAN
    BY <1>13, Zenon DEF CtxExpires, MaxElapsedTime
  <2> QED
    BY <2>1, <2>2, Zenon
<1>14. CASE Terminated \/ UNCHANGED vars
  BY <1>14 DEF Terminated
<1> QED
  BY <1>1, <1>2, <1>3, <1>4, <1>5, <1>6, <1>7, <1>8, <1>9, <1>10, <1>11, <1>12,
     <1>13, <1>14 DEF Next

\* SandboxInv holds in every reachable state.
THEOREM Invariance == Spec => []SandboxInv
BY InitSandboxInv, NextSandboxInv, PTL DEF Spec

\* A failed or closed sandbox leaves no container, unless docker failed to
\* remove it or to say that it was there.
THEOREM CleansUp == Spec => []NothingLeftBehind
<1>1. SandboxInv => NothingLeftBehind
  BY DEF SandboxInv
<1> QED
  BY <1>1, Invariance, PTL

\* Whoever is given a sandbox has a container that was started and that
\* nothing but its owner removes.
THEOREM OwnersContainer == Spec => []SandboxUsable
<1>1. SandboxInv => SandboxUsable
  BY DEF SandboxInv
<1> QED
  BY <1>1, Invariance, PTL

=============================================================================
