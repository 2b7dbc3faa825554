------------------------------- MODULE RunTask -------------------------------
(***************************************************************************)
(* Worker.RunTask of internal/worker/run.go: the claim, the live log and   *)
(* the report around one run of the task logic (module TaskLogic has its   *)
(* inside; here it writes lines to the live log and returns once).         *)
(*                                                                         *)
(* Two goroutines: RunTask itself, a select over the reclaim timer and     *)
(* doneCh, and the logic, which sends its result on the unbuffered doneCh. *)
(* The queue service is external: it keeps the state of the run and the    *)
(* lease of the claim. A call to it may fail before it has any effect, or  *)
(* after: the call was carried out and its answer lost. Every call carries *)
(* the worker's context and fails at once when that is cancelled.          *)
(***************************************************************************)
EXTENDS Integers

CONSTANTS
    MaxLines,   \* bound: lines the logic writes to the live log
    Prompt      \* the worker reacts to the timer before the lease runs out

ASSUME LinesAssumption == MaxLines \in Nat
ASSUME PromptAssumption == Prompt \in BOOLEAN

VARIABLES
    pc,         \* RunTask
    exitErr,    \* exitErr; "ok" is nil
    reclaimCh,  \* the reclaim timer: "armed", "fired", "spent"
    logic,      \* the goroutine of the logic: "unborn", "running", "sending", "ended"
    logicErr,   \* what runTaskLogic returned, "none" before
    workerCtx,  \* the worker's context is done
    taskCtx,    \* cancelCtx has been called
    lines,      \* the lines in the live log
    logClosed,  \* the live log is closed
    size,       \* contents.Len() as read for the upload
    backing,    \* lines of the backing artifact, NoLog while there is none
    live,       \* the artifact live.log: "none", "redirect", "link"
    run,        \* the queue's state of the run
    lease,      \* the queue's lease of the claim: "fresh", "expiring", "expired"
    refused     \* a call to the queue or the log store has failed

NoLog == -1

logVars   == <<lines, logClosed, size, backing, live>>
queueVars == <<run, lease>>
vars == <<pc, exitErr, reclaimCh, logic, logicErr, workerCtx, taskCtx,
          logVars, queueVars, refused>>

Exceptions == {"internal-error", "malformed-payload"}
Results == Exceptions \cup {"ok", "failed"}

\* The first line is written as soon as the log is allocated.
Init ==
    /\ pc = "redirect" /\ exitErr = "internal-error" /\ reclaimCh = "armed"
    /\ logic = "unborn" /\ logicErr = "none"
    /\ workerCtx = FALSE /\ taskCtx = FALSE
    /\ lines = 1 /\ logClosed = FALSE /\ size = 0 /\ backing = NoLog /\ live = "none"
    /\ run = "running" /\ lease = "fresh" /\ refused = FALSE

\* A call to the queue succeeds, or fails without any effect, or has its
\* effect although the caller sees an error.
Answers == {"ok", "refused", "lost"}

Call(a) ==
    /\ workerCtx => a = "refused"
    /\ refused' = (refused \/ a # "ok")

-----------------------------------------------------------------------------
(* RunTask. *)

\* createRedirectArtifact; the task logic is started when it succeeds.
CreateRedirect ==
    /\ pc = "redirect"
    /\ \E a \in Answers :
         /\ Call(a)
         /\ live' = IF a = "refused" THEN live ELSE "redirect"
         /\ IF a = "ok" THEN logic' = "running" /\ pc' = "loop"
                        ELSE pc' = "reportEarly" /\ UNCHANGED logic
    /\ UNCHANGED <<exitErr, reclaimCh, logicErr, workerCtx, taskCtx, lines,
                   logClosed, size, backing, queueVars>>

\* The queue takes a report for a run that is not resolved yet.
Resolves(state) ==
    \E a \in Answers :
        /\ Call(a)
        /\ run # "running" => a = "refused"
        /\ run' = IF a = "refused" THEN run ELSE state

\* The run is reported at once, and again by the deferred function.
ReportEarly ==
    /\ pc = "reportEarly"
    /\ Resolves("exception")
    /\ pc' = "lastLine"
    /\ UNCHANGED <<exitErr, reclaimCh, logic, logicErr, workerCtx, taskCtx, logVars, lease>>

\* case <-reclaimCh: the timer fires once; nothing arms it again.
RecvReclaim ==
    /\ pc = "loop" /\ reclaimCh = "fired"
    /\ pc' = "reclaim" /\ reclaimCh' = "spent"
    /\ UNCHANGED <<exitErr, logic, logicErr, workerCtx, taskCtx, logVars, queueVars, refused>>

ReclaimTaskForever ==
    /\ pc = "reclaim"
    /\ \E a \in Answers :
         /\ Call(a)
         /\ run # "running" => a = "refused"
         /\ lease' = IF a = "refused" THEN lease ELSE "fresh"
         /\ pc' = IF a = "ok" THEN "loop" ELSE "reclaim"
    /\ UNCHANGED <<exitErr, reclaimCh, logic, logicErr, workerCtx, taskCtx, logVars, run>>

ReclaimTask ==
    /\ pc = "reclaim"
    /\ \E a \in Answers :
         /\ Call(a)
         /\ run # "running" => a = "refused"
         /\ lease' = IF a = "refused" THEN lease ELSE "fresh"
         /\ pc' = IF a = "ok" THEN "loop" ELSE "cancel"
    /\ UNCHANGED <<exitErr, reclaimCh, logic, logicErr, workerCtx, taskCtx, logVars, run>>

\* case exitErr = <-doneCh.
RecvDone ==
    /\ pc = "loop" /\ logic = "sending"
    /\ exitErr' = logicErr /\ logic' = "ended" /\ pc' = "cancel"
    /\ UNCHANGED <<reclaimCh, logicErr, workerCtx, taskCtx, logVars, queueVars, refused>>

\* The deferred calls, last in first out: cancelCtx, then the report.
CancelCtx ==
    /\ pc = "cancel"
    /\ taskCtx' = TRUE /\ pc' = "lastLine"
    /\ UNCHANGED <<exitErr, reclaimCh, logic, logicErr, workerCtx, logVars, queueVars, refused>>

\* "Task failed" or "Task completed".
LastLine ==
    /\ pc = "lastLine"
    /\ lines' = lines + 1 /\ pc' = "closeLog"
    /\ UNCHANGED <<exitErr, reclaimCh, logic, logicErr, workerCtx, taskCtx,
                   logClosed, size, backing, live, queueVars, refused>>

CloseLogForgotten ==
    /\ pc = "closeLog"
    /\ pc' = "len"
    /\ UNCHANGED <<exitErr, reclaimCh, logic, logicErr, workerCtx, taskCtx,
                   logVars, queueVars, refused>>

CloseLog ==
    /\ pc = "closeLog"
    /\ logClosed' = TRUE /\ pc' = "len"
    /\ UNCHANGED <<exitErr, reclaimCh, logic, logicErr, workerCtx, taskCtx,
                   lines, size, backing, live, queueVars, refused>>

\* uploadLog reads the length, then uploads that many bytes of the log.
ReadLen ==
    /\ pc = "len"
    /\ size' = lines /\ pc' = "upload"
    /\ UNCHANGED <<exitErr, reclaimCh, logic, logicErr, workerCtx, taskCtx,
                   lines, logClosed, backing, live, queueVars, refused>>

\* createS3Artifact; the link is made only when it succeeds.
UploadBacking ==
    /\ pc = "upload"
    /\ \E a \in Answers :
         /\ Call(a)
         /\ backing' = IF a = "refused" THEN backing ELSE size
         /\ pc' = IF a = "ok" THEN "link" ELSE "report"
    /\ UNCHANGED <<exitErr, reclaimCh, logic, logicErr, workerCtx, taskCtx,
                   lines, logClosed, size, live, queueVars>>

\* createLinkArtifact replaces the redirect.
CreateLink ==
    /\ pc = "link"
    /\ \E a \in Answers :
         Call(a) /\ live' = IF a = "refused" THEN live ELSE "link"
    /\ pc' = "report"
    /\ UNCHANGED <<exitErr, reclaimCh, logic, logicErr, workerCtx, taskCtx,
                   lines, logClosed, size, backing, queueVars>>

\* What is reported for an error.
ReportedNever(e) == IF e = "failed" THEN "failed" ELSE "completed"
Reported(e) == CASE e = "ok"          -> "completed"
                 [] e \in Exceptions  -> "exception"
                 [] OTHER             -> "failed"

ReportOnlyErrors ==
    /\ pc = "report"
    /\ IF exitErr = "ok" THEN UNCHANGED <<run, refused>> ELSE Resolves(Reported(exitErr))
    /\ pc' = "returned"
    /\ UNCHANGED <<exitErr, reclaimCh, logic, logicErr, workerCtx, taskCtx, logVars, lease>>

Report ==
    /\ pc = "report"
    /\ Resolves(Reported(exitErr))
    /\ pc' = "returned"
    /\ UNCHANGED <<exitErr, reclaimCh, logic, logicErr, workerCtx, taskCtx, logVars, lease>>

-----------------------------------------------------------------------------
(* The logic's goroutine. *)

\* A line for the live log, from the logic or a goroutine that outlives it;
\* writes to a closed log fail and are dropped.
LogicWrites ==
    /\ logic # "unborn" /\ ~logClosed /\ lines < MaxLines
    /\ lines' = lines + 1
    /\ UNCHANGED <<pc, exitErr, reclaimCh, logic, logicErr, workerCtx, taskCtx,
                   logClosed, size, backing, live, queueVars, refused>>

\* runTaskLogic returns and the goroutine blocks in doneCh <- err.
LogicReturns ==
    /\ logic = "running"
    /\ logicErr' \in Results /\ logic' = "sending"
    /\ UNCHANGED <<pc, exitErr, reclaimCh, workerCtx, taskCtx, logVars, queueVars, refused>>

-----------------------------------------------------------------------------
(* The environment. *)

\* Time passes until reclaimSafetyInterval before the end of the lease.
LeaseExpiring ==
    /\ lease = "fresh" /\ run = "running"
    /\ lease' = "expiring"
    /\ reclaimCh' = IF reclaimCh = "armed" THEN "fired" ELSE reclaimCh
    /\ UNCHANGED <<pc, exitErr, logic, logicErr, workerCtx, taskCtx, logVars, run, refused>>

\* The lease runs out and the queue resolves the run itself.
LeaseExpires ==
    /\ lease = "expiring" /\ run = "running"
    /\ Prompt => reclaimCh # "fired" /\ pc # "reclaim"
    /\ lease' = "expired" /\ run' = "claim-expired"
    /\ UNCHANGED <<pc, exitErr, reclaimCh, logic, logicErr, workerCtx, taskCtx, logVars, refused>>

WorkerCancelled ==
    /\ ~workerCtx
    /\ workerCtx' = TRUE
    /\ UNCHANGED <<pc, exitErr, reclaimCh, logic, logicErr, taskCtx, logVars, queueVars, refused>>

\* RunTask has returned; a goroutine may still be blocked in its send.
Returned == pc = "returned" /\ UNCHANGED vars

Next ==
    \/ CreateRedirect \/ ReportEarly \/ RecvReclaim \/ ReclaimTask \/ RecvDone
    \/ CancelCtx \/ LastLine \/ CloseLog \/ ReadLen \/ UploadBacking \/ CreateLink
    \/ Report \/ LogicWrites \/ LogicReturns
    \/ LeaseExpiring \/ LeaseExpires \/ WorkerCancelled \/ Returned

Spec == Init /\ [][Next]_vars

(***************************************************************************)
(* Fairness. RunTask moves whenever it can, a request to the queue ends    *)
(* one way or the other, and the logic returns (TaskLogic!LogicReturns).   *)
(* The PUT of the log takes no context and has no timeout: it may hang.    *)
(***************************************************************************)
FairSpec ==
    /\ Spec
    /\ WF_vars(\/ CreateRedirect \/ ReportEarly \/ RecvReclaim \/ ReclaimTask
               \/ RecvDone \/ CancelCtx \/ LastLine \/ CloseLog \/ ReadLen
               \/ CreateLink \/ Report)
    /\ WF_vars(LogicReturns)

-----------------------------------------------------------------------------
(* Properties. *)

\* The type invariant.
TypeOK ==
    /\ pc \in {"redirect", "reportEarly", "loop", "reclaim", "cancel", "lastLine",
               "closeLog", "len", "upload", "link", "report", "returned"}
    /\ exitErr \in Results
    /\ reclaimCh \in {"armed", "fired", "spent"}
    /\ logic \in {"unborn", "running", "sending", "ended"}
    /\ logicErr \in Results \cup {"none"}
    /\ workerCtx \in BOOLEAN /\ taskCtx \in BOOLEAN /\ logClosed \in BOOLEAN
    /\ lines \in Nat /\ size \in Nat /\ backing \in Nat \cup {NoLog}
    /\ live \in {"none", "redirect", "link"}
    /\ run \in {"running", "completed", "failed", "exception", "claim-expired"}
    /\ lease \in {"fresh", "expiring", "expired"}
    /\ refused \in BOOLEAN

(***************************************************************************)
(* The queue is told the truth: a run is completed, or failed, only if     *)
(* that is how the task logic ended, and a run whose logic ended that way  *)
(* is never reported as an exception: neither by the early report nor by   *)
(* the exitErr that "never finished" starts with.                          *)
(***************************************************************************)
ReportTruthful ==
    /\ run = "completed" => logic = "ended" /\ logicErr = "ok"
    /\ run = "failed" => logic = "ended" /\ logicErr = "failed"
    /\ run = "exception" => ~(logic = "ended" /\ logicErr \in {"ok", "failed"})

(***************************************************************************)
(* The log is kept whole: nothing is written after its length was read for *)
(* the upload, although the logic may still be running and writing when    *)
(* the reclaim failed, and live.log is never a link to a log that is not   *)
(* there, although the upload may have failed.                             *)
(***************************************************************************)
LogKept ==
    /\ backing # NoLog => backing = lines
    /\ pc \in {"upload", "link"} => size = lines
    /\ live = "link" => backing # NoLog

(***************************************************************************)
(* When RunTask returns the run is resolved, unless some call failed.      *)
(***************************************************************************)
ResolvedAtReturn == pc = "returned" => run # "running" \/ refused

(***************************************************************************)
(* RunTask returns, so the slot is freed, unless the upload of the log     *)
(* hangs.                                                                  *)
(***************************************************************************)
TaskEnds == <>[](pc \in {"returned", "upload"})

(***************************************************************************)
(* While RunTask waits for the logic it holds the claim: the queue has not *)
(* given the run up.                                                       *)
(***************************************************************************)
HoldsClaim == pc = "loop" => run # "claim-expired"

=============================================================================
