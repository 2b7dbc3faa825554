--------------------------- MODULE RunTaskProofs ---------------------------
(***************************************************************************)
(* Proofs about RunTask: the report, the uploaded log and the resolution   *)
(* of the run, for a log of any length.                                    *)
(***************************************************************************)
EXTENDS RunTask, TLAPS

\* Where RunTask is once its select is left, and once the log is closed.
Closed   == {"len", "upload", "link", "report", "returned"}
Deferred == Closed \cup {"lastLine", "closeLog"}

(***************************************************************************)
(* The result travels: exitErr is "never finished" until the logic's own   *)
(* result is received, which ends the select for good.                     *)
(***************************************************************************)
ResultInv ==
    /\ pc \in {"redirect", "reportEarly"} => logic = "unborn"
    /\ pc \in {"loop", "reclaim"} => logic \in {"running", "sending"}
    /\ logic \in {"sending", "ended"} => logicErr # "none"
    /\ IF logic = "ended" THEN exitErr = logicErr ELSE exitErr = "internal-error"

\* A run is resolved by the worker early, without a logic, or at the end.
RunInv ==
    /\ run \in {"completed", "failed"} => pc = "returned"
    /\ run = "exception" => pc = "returned" \/ (logic = "unborn" /\ pc \in Deferred)

\* The log is closed before its length is read, and then stays as it is.
LogInv ==
    /\ pc \in Closed => logClosed
    /\ backing # NoLog => pc \in {"link", "report", "returned"}
    /\ pc = "link" => backing # NoLog

IndInv == /\ TypeOK /\ ResultInv /\ RunInv /\ LogInv
          /\ ReportTruthful /\ LogKept /\ ResolvedAtReturn

-----------------------------------------------------------------------------
USE DEF NoLog, Exceptions, Results, Answers

\* What Reported says of each result of the logic.
LEMMA ReportedValue ==
    /\ Reported("ok") = "completed"
    /\ Reported("failed") = "failed"
    /\ \A e \in Exceptions : Reported(e) = "exception"
<1>1. "failed" # "ok" /\ "failed" \notin Exceptions /\ "ok" \notin Exceptions
  OBVIOUS
<1>2. Reported("ok") = "completed" /\ Reported("failed") = "failed"
  BY <1>1, Zenon DEF Reported
<1>3. ASSUME NEW e \in Exceptions PROVE Reported(e) = "exception"
  BY <1>1, <1>3, Zenon DEF Reported
<1> QED
  BY <1>2, <1>3

\* The initial state satisfies every part of the invariant.
LEMMA InitIndInv == Init => IndInv
<1> SUFFICES ASSUME Init PROVE IndInv
  OBVIOUS
<1>1. TypeOK
  BY DEF Init, TypeOK
<1>2. ResultInv /\ RunInv /\ LogInv
  BY DEF Init, ResultInv, RunInv, LogInv, Closed, Deferred
<1>3. ReportTruthful /\ LogKept /\ ResolvedAtReturn
  BY DEF Init, ReportTruthful, LogKept, ResolvedAtReturn
<1> QED
  BY <1>1, <1>2, <1>3 DEF IndInv

\* Every step preserves it.
LEMMA NextIndInv == IndInv /\ [Next]_vars => IndInv'
<1> SUFFICES ASSUME IndInv, [Next]_vars PROVE IndInv'
  OBVIOUS
<1> USE DEF IndInv, TypeOK, ResultInv, RunInv, LogInv, ReportTruthful, LogKept,
            ResolvedAtReturn, Closed, Deferred, logVars, queueVars
<1>1. CASE CreateRedirect
  BY <1>1 DEF CreateRedirect, Call
<1>2. CASE ReportEarly
  BY <1>2 DEF ReportEarly, Resolves, Call
<1>3. CASE RecvReclaim
  BY <1>3 DEF RecvReclaim
<1>4. CASE ReclaimTask
  BY <1>4 DEF ReclaimTask, Call
<1>5. CASE RecvDone
  BY <1>5 DEF RecvDone
<1>6. CASE CancelCtx
  BY <1>6 DEF CancelCtx
<1>7. CASE LastLine
  BY <1>7 DEF LastLine
<1>8. CASE CloseLog
  BY <1>8 DEF CloseLog
<1>9. CASE ReadLen
  BY <1>9 DEF ReadLen
<1>10. CASE UploadBacking
  BY <1>10 DEF UploadBacking, Call
<1>11. CASE CreateLink
  BY <1>11 DEF CreateLink, Call
<1>12. CASE Report
  <2>1. Reported(exitErr) = IF exitErr = "ok" THEN "completed"
                            ELSE IF exitErr = "failed" THEN "failed" ELSE "exception"
    BY ReportedValue
  <2>2. PICK a \in Answers : /\ Call(a)
                             /\ run # "running" => a = "refused"
                             /\ run' = IF a = "refused" THEN run ELSE Reported(exitErr)
    BY <1>12 DEF Report, Resolves
  <2>3. run' = "running" => refused'
    BY <2>1, <2>2 DEF Call
  <2>4. refused' \in BOOLEAN
    BY <2>2 DEF Call
  <2> QED
    BY <1>12, <2>1, <2>2, <2>3, <2>4 DEF Report
<1>13. CASE LogicWrites
  BY <1>13 DEF LogicWrites
<1>14. CASE LogicReturns
  BY <1>14 DEF LogicReturns
<1>15. CASE LeaseExpiring
  BY <1>15 DEF LeaseExpiring
<1>16. CASE LeaseExpires
  BY <1>16 DEF LeaseExpires
<1>17. CASE WorkerCancelled
  BY <1>17 DEF WorkerCancelled
<1>18. CASE Returned \/ UNCHANGED vars
  BY <1>18 DEF Returned, vars
<1> QED
  BY <1>1, <1>2, <1>3, <1>4, <1>5, <1>6, <1>7, <1>8, <1>9, <1>10, <1>11, <1>12,
     <1>13, <1>14, <1>15, <1>16, <1>17, <1>18 DEF Next

\* IndInv holds in every reachable state.
THEOREM Invariance == Spec => []IndInv
BY InitIndInv, NextIndInv, PTL DEF Spec

\* The type invariant of RunTask holds for a log of any length.
THEOREM TypeCorrect == Spec => []TypeOK
<1>1. IndInv => TypeOK
  BY DEF IndInv
<1> QED
  BY <1>1, Invariance, PTL

\* The queue is told the truth about the run: ReportTruthful, whichever call to
\* the queue fails or loses its answer, and wherever the lease runs out.
THEOREM ReportsTruth == Spec => []ReportTruthful
<1>1. IndInv => ReportTruthful
  BY DEF IndInv
<1> QED
  BY <1>1, Invariance, PTL

\* The uploaded log is the whole log and live.log never links to nothing.
THEOREM LogIsKept == Spec => []LogKept
<1>1. IndInv => LogKept
  BY DEF IndInv
<1> QED
  BY <1>1, Invariance, PTL

\* When RunTask returns, the run is resolved or a call of it has failed.
THEOREM ReturnResolves == Spec => []ResolvedAtReturn
<1>1. IndInv => ResolvedAtReturn
  BY DEF IndInv
<1> QED
  BY <1>1, Invariance, PTL

(***************************************************************************)
(* The timer goes off in the first lease. A worker that reacts to it in    *)
(* time loses its claim only after the one reclaim it ever makes: what     *)
(* HoldsClaim fails by is the timer that nobody arms again, and nothing    *)
(* else.                                                                   *)
(***************************************************************************)
TimerInv == lease # "fresh" => reclaimCh # "armed"
FirstLeaseHeld == Prompt /\ run = "claim-expired" => reclaimCh = "spent"

\* Every step preserves both.
LEMMA NextFirstLease ==
    TypeOK /\ TimerInv /\ FirstLeaseHeld /\ [Next]_vars => TimerInv' /\ FirstLeaseHeld'
<1> SUFFICES ASSUME TypeOK, TimerInv, FirstLeaseHeld, [Next]_vars
             PROVE  TimerInv' /\ FirstLeaseHeld'
  OBVIOUS
<1> USE DEF TimerInv, FirstLeaseHeld, logVars, queueVars
<1>same. ASSUME UNCHANGED reclaimCh, lease' # "fresh" => lease # "fresh",
                run' = "claim-expired" => run = "claim-expired"
         PROVE  TimerInv' /\ FirstLeaseHeld'
  BY <1>same
<1>1. CASE \/ CreateRedirect \/ RecvDone \/ CancelCtx \/ LastLine \/ CloseLog \/ ReadLen
           \/ UploadBacking \/ CreateLink \/ LogicWrites \/ LogicReturns
           \/ WorkerCancelled \/ Returned \/ UNCHANGED vars
  BY <1>1, <1>same DEF CreateRedirect, RecvDone, CancelCtx, LastLine, CloseLog, ReadLen,
     UploadBacking, CreateLink, LogicWrites, LogicReturns, WorkerCancelled, Returned, vars
<1>2. CASE ReportEarly
  BY <1>2, <1>same DEF ReportEarly, Resolves
<1>3. CASE Report
  <2>1. Reported(exitErr) # "claim-expired"
    BY ReportedValue DEF TypeOK
  <2> QED
    BY <1>3, <1>same, <2>1 DEF Report, Resolves
<1>4. CASE ReclaimTask
  BY <1>4, <1>same DEF ReclaimTask
<1>5. CASE RecvReclaim
  BY <1>5 DEF RecvReclaim
<1>6. CASE LeaseExpiring
  BY <1>6 DEF LeaseExpiring
<1>7. CASE LeaseExpires
  BY <1>7 DEF LeaseExpires, TypeOK
<1> QED
  BY <1>1, <1>2, <1>3, <1>4, <1>5, <1>6, <1>7 DEF Next

\* A worker that reacts in time keeps its claim for the whole first lease.
THEOREM HoldsFirstLease == Spec => []FirstLeaseHeld
<1>1. Init => TimerInv /\ FirstLeaseHeld
  BY DEF Init, TimerInv, FirstLeaseHeld
<1>2. Spec => [](TimerInv /\ FirstLeaseHeld)
  BY <1>1, TypeCorrect, NextFirstLease, PTL DEF Spec
<1> QED
  BY <1>2, PTL

=============================================================================
