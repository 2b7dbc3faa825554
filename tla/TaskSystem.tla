----------------------------- MODULE TaskSystem -----------------------------
(***************************************************************************)
(* RunTask together with the task logic it starts (internal/worker/run.go).*)
(* The goroutine that RunTask sees as "running" is TaskLogic, with pc and  *)
(* result renamed; they meet in three places: the goroutine starts once    *)
(* the redirect exists, its last step sends the result of runTaskLogic,    *)
(* and cancelling RunTask's or the worker's context cancels the one that   *)
(* the logic derives from it.                                              *)
(***************************************************************************)
EXTENDS RunTask

CONSTANTS NSteps, NArtifacts, PullSteps

ASSUME LogicAssumption ==
    NSteps \in Nat /\ NArtifacts \in Nat /\ PullSteps \subseteq 1 .. NSteps

VARIABLES
    lpc, lresult,   \* pc and result of TaskLogic; the others as they are there
    ctxDone, sandbox, proxy, stepPc, stepErr, container, chan, artPc, artChan,
    gathered, nextCh, exitCh

L == INSTANCE TaskLogic WITH pc <- lpc, result <- lresult

logicVars == <<lpc, lresult, sandbox, proxy, stepPc, stepErr, container, chan,
               artPc, artChan, gathered, nextCh, exitCh>>
sysVars   == <<vars, logicVars, ctxDone>>

SysInit == Init /\ L!Init

\* RunTask takes a step of its own.
Own(A) == A /\ UNCHANGED <<logicVars, ctxDone>>

\* The logic takes step A; the one that ends runTaskLogic sends its result.
ReturnsNil == LogicReturns /\ logicErr' = "ok"
ReturnsResult == LogicReturns /\ logicErr' = lresult'

Logic(A) ==
    /\ logic # "unborn" /\ A
    /\ IF lpc # "done" /\ lpc' = "done" THEN ReturnsResult ELSE UNCHANGED vars

DerivedForgotten == UNCHANGED <<logicVars, ctxDone>>

\* A context that runTaskLogic's is derived from is cancelled.
Derived ==
    /\ ctxDone' = (ctxDone \/ (logic # "unborn" /\ lpc # "done"))
    /\ UNCHANGED logicVars

\* cancelCtx, deferred by RunTask.
CancelTask == CancelCtx /\ Derived

\* The worker is cancelled by a second signal.
CancelWorker == WorkerCancelled /\ Derived

\* The goroutines of the logic log while there are any.
Writes == Own(LogicWrites /\ ~L!AllEnded)

RunTaskSteps ==
    \/ CreateRedirect \/ ReportEarly \/ RecvReclaim \/ ReclaimTask \/ RecvDone
    \/ LastLine \/ CloseLog \/ ReadLen \/ CreateLink \/ Report

SysNext ==
    \/ Own(RunTaskSteps) \/ Own(UploadBacking) \/ Own(LeaseExpiring \/ LeaseExpires)
    \/ Own(Returned) \/ CancelTask \/ CancelWorker \/ Writes
    \/ Logic(L!Next)

(***************************************************************************)
(* Fairness: that of RunTask for its own steps and, in place of its        *)
(* assumption that the logic returns, that of TaskLogic.                   *)
(***************************************************************************)
SysSpec ==
    /\ SysInit /\ [][SysNext]_sysVars
    /\ WF_sysVars(Own(RunTaskSteps) \/ CancelTask)
    /\ WF_sysVars(Logic(L!CtxExpires))
    /\ WF_sysVars(Logic(ctxDone /\ (L!SandboxCreate \/ L!PullProxy \/ L!CreateProxy)))
    /\ WF_sysVars(Logic(ctxDone /\ L!ProxyExits))
    /\ WF_sysVars(Logic(\/ L!Unmarshal \/ L!RecvNext \/ L!RecvExit \/ L!RemoveProxy
                        \/ L!CloseSandbox \/ L!CtxCancel))
    /\ WF_sysVars(Logic(L!Gather))
    /\ \A i \in 1 .. NSteps :
         /\ WF_sysVars(Logic(ctxDone /\ (\/ L!StepPull(i) \/ L!StepEnv(i)
                                         \/ L!StepCreate(i) \/ L!StepRun(i))))
         /\ WF_sysVars(Logic(L!StepRecvDep(i) \/ L!StepRemove(i)))
    /\ \A k \in 1 .. NArtifacts : WF_sysVars(Logic(L!ArtRecvDep(k)))

-----------------------------------------------------------------------------
(* Properties, beside those of RunTask. *)

(***************************************************************************)
(* The composition is an implementation of RunTask, its fairness included: *)
(* the logic does return, however it is cancelled and whatever hangs.      *)
(***************************************************************************)
ImplementsRunTask == FairSpec

(***************************************************************************)
(* A run that the queue has as completed ran every step and uploaded every *)
(* artifact, or its proxy exited without an error; and nothing of it is    *)
(* left but what could not be removed.                                     *)
(***************************************************************************)
CompletedMeansDone ==
    run = "completed" =>
        /\ \/ exitCh = "nil"
           \/ /\ \A i \in 1 .. NSteps : L!StepOk(i)
              /\ \A k \in 1 .. NArtifacts : L!Uploaded(k)
        /\ sandbox # "up" /\ proxy # "up"

(***************************************************************************)
(* RunTask does not wait for the logic when its reclaim fails, but never   *)
(* returns without telling it to stop: whatever still runs then runs under *)
(* a context that is done.                                                 *)
(***************************************************************************)
LeftoversCancelled ==
    pc = "returned" /\ logic # "unborn" => ctxDone \/ lresult = "malformed-payload"

=============================================================================
