------------------------------ MODULE TaskLogic ------------------------------
(***************************************************************************)
(* One task run from its payload to its result: runTaskLogic, runStep,     *)
(* uploadArtifact and watchContainer of internal/worker/run.go.            *)
(*                                                                         *)
(* runTaskLogic creates the sandbox and the proxy container, spawns one    *)
(* goroutine per step, one per artifact, one that watches the proxy and    *)
(* one that gathers the results, and returns with the first thing that     *)
(* happens. The goroutines are chained by channels of capacity one: step i *)
(* waits for the channel of step i - 1, the first step for startCh, every  *)
(* artifact for the channel of the last step. They outlive runTaskLogic    *)
(* when it returns early, while it tears the sandbox down under them.      *)
(*                                                                         *)
(* A channel is "open" until its goroutine ends; a goroutine ends with     *)
(* ch <- err and close(ch), one step here because nobody else sends and    *)
(* the buffer is empty. A channel closed over a non-nil error is "err"     *)
(* until that error is received and "drained" after; one closed over nil   *)
(* yields nil for ever and stays "nil".                                    *)
(*                                                                         *)
(* A call that takes ctx and returns without an error is taken to have     *)
(* done so before ctx was done: nothing can tell the two orders apart.     *)
(***************************************************************************)
EXTENDS Integers

CONSTANTS
    NSteps,       \* len(payload.Steps)
    NArtifacts,   \* len(payload.Artifacts)
    PullSteps     \* the steps whose image is pulled

ASSUME SizesAssumption == NSteps \in Nat /\ NArtifacts \in Nat
ASSUME PullAssumption == PullSteps \subseteq 1 .. NSteps

Steps     == 1 .. NSteps
Artifacts == 1 .. NArtifacts

VARIABLES
    pc,         \* runTaskLogic
    result,     \* what runTaskLogic returns, "none" before it decides
    ctxDone,    \* ctx is done: timed out, cancelled by the caller or by ctxCancel
    sandbox,    \* "none", "up", "removed", or "leaked" when its removal failed
    proxy,      \* the proxy container, likewise
    stepPc,     \* the goroutine of each step
    stepErr,    \* the err of each step's goroutine is not nil
    container,  \* each step's container, likewise
    chan,       \* startCh (index 0) and the channel of each step
    artPc,      \* the goroutine of each artifact
    artChan,    \* the channel of each artifact
    gathered,   \* how many leaves the gathering goroutine has received nil from
    nextCh,     \* its channel
    exitCh      \* the channel of the goroutine that watches the proxy

mainVars   == <<pc, result, ctxDone, sandbox, proxy>>
stepVars   == <<stepPc, stepErr, container>>
artVars    == <<artPc, artChan>>
gatherVars == <<gathered, nextCh, exitCh>>
vars       == <<mainVars, stepVars, chan, artVars, gatherVars>>

Channel == {"open", "nil", "err", "drained"}
Posted(e) == IF e THEN "err" ELSE "nil"
Ready(c) == c # "open"
Received(c) == IF c = "err" THEN "drained" ELSE c

\* The channel a step waits for.
DepOfStart(i) == 0
DepOf(i) == i - 1

\* The channel the artifacts, or the gathering goroutine, wait for.
LastCh == NSteps

\* The channels the gathering goroutine receives from, in order.
NLeavesOneFewer == IF NArtifacts < 2 THEN 1 ELSE NArtifacts - 1
NLeaves == IF NArtifacts = 0 THEN 1 ELSE NArtifacts
LeafStart(k) == chan[0]
Leaf(k) == IF NArtifacts = 0 THEN chan[LastCh] ELSE artChan[k]

\* The docker daemon the steps talk to runs in the sandbox's container.
DaemonUp == sandbox \in {"up", "leaked"}
CallSucceeds == DaemonUp /\ ~ctxDone

Init ==
    /\ pc = "unmarshal" /\ result = "none" /\ ctxDone = FALSE
    /\ sandbox = "none" /\ proxy = "none"
    /\ stepPc = [i \in Steps |-> "unborn"]
    /\ stepErr = [i \in Steps |-> FALSE]
    /\ container = [i \in Steps |-> "none"]
    /\ chan = [i \in 0 .. NSteps |-> "open"]
    /\ artPc = [k \in Artifacts |-> "unborn"]
    /\ artChan = [k \in Artifacts |-> "open"]
    /\ gathered = 0 /\ nextCh = "open" /\ exitCh = "open"

-----------------------------------------------------------------------------
(* runTaskLogic. *)

\* The payload is parsed; nothing is deferred yet.
Unmarshal ==
    /\ pc = "unmarshal"
    /\ \/ pc' = "sandbox" /\ UNCHANGED result
       \/ pc' = "done" /\ result' = "malformed-payload"
    /\ UNCHANGED <<ctxDone, sandbox, proxy, stepVars, chan, artVars, gatherVars>>

\* The sandbox is created, or only ctxCancel is left to run.
SandboxCreate ==
    /\ pc = "sandbox"
    /\ \/ ~ctxDone /\ sandbox' = "up" /\ pc' = "pull" /\ UNCHANGED result
       \/ result' = "internal-error" /\ pc' = "cancel" /\ UNCHANGED sandbox
    /\ UNCHANGED <<ctxDone, proxy, stepVars, chan, artVars, gatherVars>>

PullProxyNoClose ==
    /\ pc = "pull"
    /\ \/ CallSucceeds /\ pc' = "create" /\ UNCHANGED result
       \/ result' = "internal-error" /\ pc' = "cancel"
    /\ UNCHANGED <<ctxDone, sandbox, proxy, stepVars, chan, artVars, gatherVars>>

PullProxy ==
    /\ pc = "pull"
    /\ \/ CallSucceeds /\ pc' = "create" /\ UNCHANGED result
       \/ result' = "internal-error" /\ pc' = "close"
    /\ UNCHANGED <<ctxDone, sandbox, proxy, stepVars, chan, artVars, gatherVars>>

\* The proxy is created, every goroutine is spawned and startCh is closed:
\* the spawning itself waits for nothing.
CreateProxy ==
    /\ pc = "create"
    /\ \/ /\ CallSucceeds
          /\ proxy' = "up" /\ pc' = "wait"
          /\ stepPc' = [i \in Steps |-> IF i \in PullSteps THEN "pull" ELSE "deps"]
          /\ artPc' = [k \in Artifacts |-> "deps"]
          /\ chan' = [chan EXCEPT ![0] = "nil"]
          /\ UNCHANGED result
       \/ /\ result' = "internal-error" /\ pc' = "close"
          /\ UNCHANGED <<proxy, stepPc, artPc, chan>>
    /\ UNCHANGED <<ctxDone, sandbox, stepErr, container, artChan, gatherVars>>

\* The final select.
RecvNext ==
    /\ pc = "wait" /\ Ready(nextCh)
    /\ result' = IF nextCh = "err" THEN "failed" ELSE "ok"
    /\ nextCh' = Received(nextCh)
    /\ pc' = "remove"
    /\ UNCHANGED <<ctxDone, sandbox, proxy, stepVars, chan, artVars, gathered, exitCh>>

RecvExitNever == FALSE /\ UNCHANGED vars

RecvExit ==
    /\ pc = "wait" /\ Ready(exitCh)
    /\ result' = IF exitCh = "err" THEN "failed" ELSE "ok"
    /\ pc' = "remove"
    /\ UNCHANGED <<ctxDone, sandbox, proxy, stepVars, chan, artVars, gatherVars>>

\* The deferred calls, last in first out: the proxy, the sandbox, ctx. The
\* first two use a context of their own, and a failure is only logged.
RemoveProxy ==
    /\ pc = "remove"
    /\ proxy' \in {"removed", "leaked"}
    /\ pc' = "close"
    /\ UNCHANGED <<result, ctxDone, sandbox, stepVars, chan, artVars, gatherVars>>

CloseSandbox ==
    /\ pc = "close"
    /\ sandbox' \in {"removed", "leaked"}
    /\ pc' = "cancel"
    /\ UNCHANGED <<result, ctxDone, proxy, stepVars, chan, artVars, gatherVars>>

CtxCancel ==
    /\ pc = "cancel"
    /\ ctxDone' = TRUE
    /\ pc' = "done"
    /\ UNCHANGED <<result, sandbox, proxy, stepVars, chan, artVars, gatherVars>>

\* maxRunTime passes, or RunTask or the worker cancels its context.
CtxExpires ==
    /\ pc # "done" /\ ~ctxDone
    /\ ctxDone' = TRUE
    /\ UNCHANGED <<pc, result, sandbox, proxy, stepVars, chan, artVars, gatherVars>>

-----------------------------------------------------------------------------
(* runStep(i). *)

\* The deferred ch <- err; close(ch).
StepEnds(i, e) ==
    /\ stepPc' = [stepPc EXCEPT ![i] = "done"]
    /\ stepErr' = [stepErr EXCEPT ![i] = e]
    /\ chan' = [chan EXCEPT ![i] = Posted(e)]

StepGoesTo(i, l) ==
    /\ stepPc' = [stepPc EXCEPT ![i] = l]
    /\ UNCHANGED <<stepErr, chan>>

StepPullSilent(i) ==
    /\ stepPc[i] = "pull"
    /\ \/ CallSucceeds /\ StepGoesTo(i, "deps")
       \/ StepGoesTo(i, "done")
    /\ UNCHANGED <<mainVars, container, artVars, gatherVars>>

StepPull(i) ==
    /\ stepPc[i] = "pull"
    /\ \/ CallSucceeds /\ StepGoesTo(i, "deps")
       \/ StepEnds(i, TRUE)
    /\ UNCHANGED <<mainVars, container, artVars, gatherVars>>

\* err = <-ch: a step whose predecessor failed ends with that error.
StepRecvDep(i) ==
    /\ stepPc[i] = "deps" /\ Ready(chan[DepOf(i)])
    /\ IF chan[DepOf(i)] = "err"
         THEN /\ stepPc' = [stepPc EXCEPT ![i] = "done"]
              /\ stepErr' = [stepErr EXCEPT ![i] = TRUE]
              /\ chan' = [chan EXCEPT ![DepOf(i)] = "drained", ![i] = "err"]
         ELSE StepGoesTo(i, "env")
    /\ UNCHANGED <<mainVars, container, artVars, gatherVars>>

\* A value from a secret needs the secrets service; only that can fail.
ResolveValueFrom(i) == StepGoesTo(i, "create") \/ StepEnds(i, TRUE)

\* The environment is resolved, value by value, up to the first failure.
StepEnv(i) ==
    /\ stepPc[i] = "env"
    /\ ResolveValueFrom(i)
    /\ UNCHANGED <<mainVars, container, artVars, gatherVars>>

StepCreate(i) ==
    /\ stepPc[i] = "create"
    /\ \/ /\ CallSucceeds
          /\ container' = [container EXCEPT ![i] = "up"]
          /\ StepGoesTo(i, "run")
       \/ StepEnds(i, TRUE) /\ UNCHANGED container
    /\ UNCHANGED <<mainVars, artVars, gatherVars>>

\* container.Run returns: exit code zero, or an error or another exit code.
StepRun(i) ==
    /\ stepPc[i] = "run"
    /\ stepPc' = [stepPc EXCEPT ![i] = "remove"]
    /\ \/ CallSucceeds /\ UNCHANGED stepErr
       \/ stepErr' = [stepErr EXCEPT ![i] = TRUE]
    /\ UNCHANGED <<mainVars, container, chan, artVars, gatherVars>>

\* The deferred calls: cleanupContainer, then the result.
StepRemoveForgotten(i) ==
    /\ stepPc[i] = "remove"
    /\ StepEnds(i, stepErr[i])
    /\ UNCHANGED <<mainVars, container, artVars, gatherVars>>

StepRemove(i) ==
    /\ stepPc[i] = "remove"
    /\ \/ DaemonUp /\ container' = [container EXCEPT ![i] = "removed"]
       \/ container' = [container EXCEPT ![i] = "leaked"]
    /\ StepEnds(i, stepErr[i])
    /\ UNCHANGED <<mainVars, artVars, gatherVars>>

-----------------------------------------------------------------------------
(* uploadArtifact(k), the gathering goroutine and watchContainer. *)

ArtEnds(k, e) ==
    /\ artPc' = [artPc EXCEPT ![k] = "done"]
    /\ artChan' = [artChan EXCEPT ![k] = Posted(e)]

\* Every artifact receives from the channel of the last step: the one that
\* takes its error ends with it, the others find the channel closed.
ArtRecvDep(k) ==
    /\ artPc[k] = "deps" /\ Ready(chan[LastCh])
    /\ chan' = [chan EXCEPT ![LastCh] = Received(chan[LastCh])]
    /\ IF chan[LastCh] = "err"
         THEN ArtEnds(k, TRUE)
         ELSE artPc' = [artPc EXCEPT ![k] = "upload"] /\ UNCHANGED artChan
    /\ UNCHANGED <<mainVars, stepVars, gatherVars>>

\* uploadArtifactImpl: the file is read through the proxy container.
ArtUpload(k) ==
    /\ artPc[k] = "upload"
    /\ \/ CallSucceeds /\ proxy # "removed" /\ ArtEnds(k, FALSE)
       \/ ArtEnds(k, TRUE)
    /\ UNCHANGED <<mainVars, stepVars, chan, gatherVars>>

\* One iteration over the leaves, which close(nextCh) follows at the end or
\* at the first error.
Gather ==
    /\ proxy # "none" /\ nextCh = "open" /\ Ready(Leaf(gathered + 1))
    /\ IF Leaf(gathered + 1) = "err"
         THEN nextCh' = "err" /\ UNCHANGED gathered
         ELSE /\ gathered' = gathered + 1
              /\ nextCh' = IF gathered' = NLeaves THEN "nil" ELSE "open"
    /\ IF NArtifacts = 0
         THEN /\ chan' = [chan EXCEPT ![LastCh] = Received(chan[LastCh])]
              /\ UNCHANGED artChan
         ELSE /\ artChan' = [artChan EXCEPT ![gathered + 1] = Received(artChan[gathered + 1])]
              /\ UNCHANGED chan
    /\ UNCHANGED <<mainVars, stepVars, artPc, exitCh>>

\* container.Run of the proxy returns; its exit code is logged and dropped.
ProxyExits ==
    /\ proxy # "none" /\ exitCh = "open"
    /\ exitCh' \in {"nil", "err"}
    /\ exitCh' = "nil" => CallSucceeds
    /\ UNCHANGED <<mainVars, stepVars, chan, artVars, gathered, nextCh>>

-----------------------------------------------------------------------------
Step(i) ==
    \/ StepPull(i) \/ StepRecvDep(i) \/ StepEnv(i) \/ StepCreate(i)
    \/ StepRun(i) \/ StepRemove(i)

Artifact(k) == ArtRecvDep(k) \/ ArtUpload(k)

\* Every goroutine has ended.
AllEnded ==
    /\ pc = "done"
    /\ proxy # "none" =>
          /\ \A i \in Steps : stepPc[i] = "done"
          /\ \A k \in Artifacts : artPc[k] = "done"
          /\ nextCh # "open" /\ exitCh # "open"

Terminated == AllEnded /\ UNCHANGED vars

Next ==
    \/ Unmarshal \/ SandboxCreate \/ PullProxy \/ CreateProxy
    \/ RecvNext \/ RecvExit \/ RemoveProxy \/ CloseSandbox \/ CtxCancel \/ CtxExpires
    \/ \E i \in Steps : Step(i)
    \/ \E k \in Artifacts : Artifact(k)
    \/ Gather \/ ProxyExits \/ Terminated

Spec == Init /\ [][Next]_vars

(***************************************************************************)
(* Fairness. A goroutine that can move does. A call that takes ctx may     *)
(* last for ever (a step may be an endless loop) until ctx is done, and    *)
(* then returns; the timer of context.WithTimeout fires. The docker daemon *)
(* answers a removal. The PUT of an upload takes no context and may hang.  *)
(***************************************************************************)
CallFairness ==
    /\ WF_vars(ctxDone /\ (SandboxCreate \/ PullProxy \/ CreateProxy))
    /\ WF_vars(ctxDone /\ ProxyExits)
    /\ \A i \in Steps :
         WF_vars(ctxDone /\ (StepPull(i) \/ StepEnv(i) \/ StepCreate(i) \/ StepRun(i)))

Fairness ==
    /\ WF_vars(CtxExpires) /\ CallFairness
    /\ WF_vars(Unmarshal \/ RecvNext \/ RecvExit \/ RemoveProxy \/ CloseSandbox \/ CtxCancel)
    /\ \A i \in Steps : WF_vars(StepRecvDep(i) \/ StepRemove(i))
    /\ \A k \in Artifacts : WF_vars(ArtRecvDep(k))
    /\ WF_vars(Gather)

FairSpec == Spec /\ Fairness

-----------------------------------------------------------------------------
(* Properties. *)

MainTypeOK ==
    /\ pc \in {"unmarshal", "sandbox", "pull", "create", "wait", "remove",
               "close", "cancel", "done"}
    /\ result \in {"none", "ok", "failed", "internal-error", "malformed-payload"}
    /\ ctxDone \in BOOLEAN
    /\ sandbox \in {"none", "up", "removed", "leaked"}
    /\ proxy \in {"none", "up", "removed", "leaked"}

StepTypeOK ==
    /\ stepPc \in [Steps -> {"unborn", "pull", "deps", "env", "create", "run",
                             "remove", "done"}]
    /\ stepErr \in [Steps -> BOOLEAN]
    /\ container \in [Steps -> {"none", "up", "removed", "leaked"}]
    /\ chan \in [0 .. NSteps -> Channel]

ArtTypeOK ==
    /\ artPc \in [Artifacts -> {"unborn", "deps", "upload", "done"}]
    /\ artChan \in [Artifacts -> Channel]
    /\ gathered \in 0 .. NLeaves
    /\ nextCh \in Channel /\ exitCh \in {"open", "nil", "err"}

\* The type invariant.
TypeOK == MainTypeOK /\ StepTypeOK /\ ArtTypeOK

StepOk(i) == stepPc[i] = "done" /\ ~stepErr[i]
Working(i) == stepPc[i] \in {"env", "create", "run", "remove"}
Uploaded(k) == artPc[k] = "done" /\ artChan[k] = "nil"

(***************************************************************************)
(* Steps run strictly one after the other: a step resolves its environment *)
(* and gets its container only after every step before it has succeeded,   *)
(* whatever the order in which the images arrive.                          *)
(***************************************************************************)
StepsInOrder ==
    \A i \in Steps : Working(i) \/ StepOk(i) => \A j \in 1 .. i - 1 : StepOk(j)

(***************************************************************************)
(* The containers of two steps never exist at the same time: a step's      *)
(* result is only sent after its container is removed (or its removal has  *)
(* failed), so the next step never shares the pod with it.                 *)
(***************************************************************************)
OneStepContainer ==
    \A i, j \in Steps : container[i] = "up" /\ container[j] = "up" => i = j

(***************************************************************************)
(* nextCh is closed without an error only when every step has succeeded    *)
(* and every artifact is uploaded, although only one of the artifacts sees *)
(* the error of the last step and the gathering stops at the first error.  *)
(***************************************************************************)
GatherSound ==
    nextCh = "nil" => /\ \A i \in Steps : StepOk(i)
                      /\ \A k \in Artifacts : Uploaded(k)

(***************************************************************************)
(* Whichever way runTaskLogic is left, the sandbox and the proxy have been *)
(* removed (or their removal has failed and was logged), and ctx is done   *)
(* unless it was never created.                                            *)
(***************************************************************************)
TornDown ==
    pc = "done" =>
        /\ sandbox # "up" /\ proxy # "up"
        /\ result # "malformed-payload" => ctxDone

(***************************************************************************)
(* The inductive invariant behind StepsInOrder, OneStepContainer and       *)
(* GatherSound. A channel tells how its goroutine ended; an error that has *)
(* been received has ended its receiver, so nobody goes on after finding a *)
(* channel drained, except an artifact whose sibling took the error.       *)
(***************************************************************************)
BirthInv ==
    pc \in {"unmarshal", "sandbox", "pull", "create"} =>
        /\ \A i \in Steps : stepPc[i] = "unborn"
        /\ \A k \in Artifacts : artPc[k] = "unborn"

ChannelInv ==
    /\ chan[0] \in {"open", "nil"}
    /\ \A i \in Steps :
         /\ chan[i] # "open" <=> stepPc[i] = "done"
         /\ chan[i] \in {"err", "drained"} => stepErr[i]
         /\ chan[i] = "nil" => ~stepErr[i]
         /\ stepErr[i] => stepPc[i] \in {"remove", "done"}
         /\ container[i] = "up" => stepPc[i] \in {"run", "remove"}
         /\ chan[i] = "drained" /\ i < NSteps => stepPc[i + 1] = "done" /\ stepErr[i + 1]

LeafFailed(k) == artPc[k] = "done" /\ artChan[k] \in {"err", "drained"}

ArtifactInv ==
    /\ \A k \in Artifacts :
         /\ artChan[k] # "open" <=> artPc[k] = "done"
         /\ artPc[k] = "upload" \/ Uploaded(k) => chan[LastCh] \in {"nil", "drained"}
         /\ artChan[k] = "drained" => nextCh \in {"err", "drained"}
    /\ chan[LastCh] = "drained" =>
          IF NArtifacts = 0 THEN nextCh \in {"err", "drained"}
                            ELSE \E k \in Artifacts : LeafFailed(k)

GatherInv ==
    /\ nextCh = "open" => gathered < NLeaves
    /\ nextCh = "nil" => gathered = NLeaves
    /\ IF NArtifacts = 0 THEN gathered = 1 => chan[LastCh] = "nil"
                         ELSE \A k \in 1 .. gathered : artChan[k] = "nil"

IndInv == TypeOK /\ BirthInv /\ StepsInOrder /\ ChannelInv /\ ArtifactInv /\ GatherInv

(***************************************************************************)
(* runTaskLogic returns, however long a step runs and whatever hangs.      *)
(***************************************************************************)
LogicReturns == <>(pc = "done")

(***************************************************************************)
(* No goroutine of the run is left waiting for a channel: the only thing   *)
(* that can outlive the run is an upload that hangs.                       *)
(***************************************************************************)
GoroutinesEnd == <>[](AllEnded \/ \E k \in Artifacts : artPc[k] = "upload")

(***************************************************************************)
(* A run that returns without an error has run every step and uploaded     *)
(* every artifact.                                                         *)
(***************************************************************************)
RunsToCompletion ==
    result = "ok" => /\ \A i \in Steps : StepOk(i)
                     /\ \A k \in Artifacts : Uploaded(k)

(***************************************************************************)
(* An artifact is uploaded only after every step it depends on succeeded.  *)
(***************************************************************************)
UploadsWaitForSteps ==
    \A k \in Artifacts :
        artPc[k] = "upload" \/ Uploaded(k) => \A i \in Steps : StepOk(i)

=============================================================================
