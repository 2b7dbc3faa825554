-------------------------- MODULE TaskSystemProofs --------------------------
(***************************************************************************)
(* Proofs about TaskSystem: the composition implements RunTask, and its    *)
(* logic is a run of TaskLogic, so what is proved of either one holds of   *)
(* it. What the two promise together is then drawn from the place where    *)
(* they meet, the send of the logic's result.                              *)
(***************************************************************************)
EXTENDS TaskSystem, RunTaskProofs

\* The logic, with the theorems about it.
LP == INSTANCE TaskLogicProofs WITH pc <- lpc, result <- lresult

(***************************************************************************)
(* L and LP are instances of the same module.                              *)
(***************************************************************************)

\* The initial states of L and LP are the same.
LEMMA SameInit == L!Init <=> LP!Init
BY DEF L!Init, LP!Init, L!Steps, LP!Steps, L!Artifacts, LP!Artifacts

\* The goroutines of L and LP take the same steps.
LEMMA SameGoroutines ==
    /\ \A i : L!Step(i) <=> LP!Step(i)
    /\ \A k : L!Artifact(k) <=> LP!Artifact(k)
    /\ L!Gather <=> LP!Gather
    /\ L!ProxyExits <=> LP!ProxyExits
    /\ L!Terminated <=> LP!Terminated
<1> USE DEF L!mainVars, LP!mainVars, L!stepVars, LP!stepVars, L!artVars, LP!artVars,
            L!gatherVars, LP!gatherVars, L!Steps, LP!Steps, L!Artifacts, LP!Artifacts,
            L!DaemonUp, LP!DaemonUp, L!CallSucceeds, LP!CallSucceeds, L!Ready, LP!Ready,
            L!Received, LP!Received, L!Posted, LP!Posted, L!LastCh, LP!LastCh,
            L!StepEnds, LP!StepEnds, L!StepGoesTo, LP!StepGoesTo, L!ArtEnds, LP!ArtEnds
<1>1. ASSUME NEW i PROVE L!Step(i) <=> LP!Step(i)
  <2>1. (L!StepPull(i) <=> LP!StepPull(i)) /\ (L!StepRecvDep(i) <=> LP!StepRecvDep(i))
    BY DEF L!StepPull, LP!StepPull, L!StepRecvDep, LP!StepRecvDep, L!DepOf, LP!DepOf
  <2>2. (L!StepEnv(i) <=> LP!StepEnv(i)) /\ (L!StepCreate(i) <=> LP!StepCreate(i))
    BY DEF L!StepEnv, LP!StepEnv, L!StepCreate, LP!StepCreate, L!ResolveValueFrom,
           LP!ResolveValueFrom
  <2>3. (L!StepRun(i) <=> LP!StepRun(i)) /\ (L!StepRemove(i) <=> LP!StepRemove(i))
    BY DEF L!StepRun, LP!StepRun, L!StepRemove, LP!StepRemove
  <2> QED
    BY <2>1, <2>2, <2>3 DEF L!Step, LP!Step
<1>2. ASSUME NEW k PROVE L!Artifact(k) <=> LP!Artifact(k)
  BY DEF L!Artifact, LP!Artifact, L!ArtRecvDep, LP!ArtRecvDep, L!ArtUpload, LP!ArtUpload
<1>3. L!Gather <=> LP!Gather
  BY DEF L!Gather, LP!Gather, L!Leaf, LP!Leaf, L!NLeaves, LP!NLeaves
<1>4. L!ProxyExits <=> LP!ProxyExits
  BY DEF L!ProxyExits, LP!ProxyExits
<1>5. L!Terminated <=> LP!Terminated
  BY DEF L!Terminated, LP!Terminated, L!AllEnded, LP!AllEnded, L!vars, LP!vars
<1> QED
  BY <1>1, <1>2, <1>3, <1>4, <1>5

\* The next-state relations of L and LP are the same.
LEMMA SameNext == L!Next <=> LP!Next
<1> USE DEF L!mainVars, LP!mainVars, L!stepVars, LP!stepVars, L!artVars, LP!artVars,
            L!gatherVars, LP!gatherVars, L!Steps, LP!Steps, L!Artifacts, LP!Artifacts,
            L!DaemonUp, LP!DaemonUp, L!CallSucceeds, LP!CallSucceeds, L!Ready, LP!Ready,
            L!Received, LP!Received
<1>1. /\ L!Unmarshal <=> LP!Unmarshal
      /\ L!SandboxCreate <=> LP!SandboxCreate
      /\ L!PullProxy <=> LP!PullProxy
  BY DEF L!Unmarshal, LP!Unmarshal, L!SandboxCreate, LP!SandboxCreate, L!PullProxy, LP!PullProxy
<1>2. /\ L!CreateProxy <=> LP!CreateProxy
      /\ L!RecvNext <=> LP!RecvNext
      /\ L!RecvExit <=> LP!RecvExit
  BY DEF L!CreateProxy, LP!CreateProxy, L!RecvNext, LP!RecvNext, L!RecvExit, LP!RecvExit
<1>3. /\ L!RemoveProxy <=> LP!RemoveProxy
      /\ L!CloseSandbox <=> LP!CloseSandbox
      /\ L!CtxCancel <=> LP!CtxCancel
      /\ L!CtxExpires <=> LP!CtxExpires
  BY DEF L!RemoveProxy, LP!RemoveProxy, L!CloseSandbox, LP!CloseSandbox, L!CtxCancel,
         LP!CtxCancel, L!CtxExpires, LP!CtxExpires
<1> QED
  BY <1>1, <1>2, <1>3, SameGoroutines DEF L!Next, LP!Next

-----------------------------------------------------------------------------
(***************************************************************************)
(* Refinement: every step of the composition is a step of RunTask, or one  *)
(* that RunTask does not see.                                              *)
(***************************************************************************)

\* A step of the composition, as RunTask sees it.
LEMMA SysStepOfRunTask == [SysNext]_sysVars => [Next]_vars
<1> SUFFICES ASSUME [SysNext]_sysVars PROVE [Next]_vars
  OBVIOUS
<1>1. CASE Own(RunTaskSteps) \/ Own(UploadBacking) \/ Own(LeaseExpiring \/ LeaseExpires)
  BY <1>1 DEF Own, RunTaskSteps, Next
<1>2. CASE Own(Returned) \/ Writes
  BY <1>2 DEF Own, Writes, Next
<1>3. CASE CancelTask \/ CancelWorker
  BY <1>3 DEF CancelTask, CancelWorker, Next
<1>4. CASE Logic(L!Next)
  BY <1>4 DEF Logic, ReturnsResult, Next
<1>5. CASE UNCHANGED sysVars
  BY <1>5 DEF sysVars
<1> QED
  BY <1>1, <1>2, <1>3, <1>4, <1>5 DEF SysNext

\* The composition with the real task logic implements RunTask with the logic
\* left open: nothing the logic does is outside what RunTask allows for.
THEOREM SystemImplementsRunTask == SysSpec => Spec
BY SysStepOfRunTask, PTL DEF SysSpec, SysInit, Spec

\* The run reported to the queue is what the real logic made of it.
THEOREM SystemReportsTruth == SysSpec => []ReportTruthful
BY SystemImplementsRunTask, ReportsTruth, PTL

\* The log is kept whole while the goroutines of the logic write to it.
THEOREM SystemKeepsLog == SysSpec => []LogKept
BY SystemImplementsRunTask, LogIsKept, PTL

\* The run is resolved when RunTask returns, or a call of it has failed.
THEOREM SystemResolves == SysSpec => []ResolvedAtReturn
BY SystemImplementsRunTask, ReturnResolves, PTL

(***************************************************************************)
(* Every step of the composition is a step of TaskLogic, or one that it    *)
(* does not see: cancelling a context that ctx is derived from is for the  *)
(* logic what its own CtxExpires is.                                       *)
(***************************************************************************)

\* A step of the composition, as the logic sees it.
LEMMA SysStepOfLogic == LP!TypeOK /\ [SysNext]_sysVars => [LP!Next]_(LP!vars)
<1> SUFFICES ASSUME LP!TypeOK, [SysNext]_sysVars PROVE [LP!Next]_(LP!vars)
  OBVIOUS
<1> USE DEF LP!vars, LP!mainVars, LP!stepVars, LP!artVars, LP!gatherVars, logicVars
<1>1. CASE UNCHANGED <<logicVars, ctxDone>>
  BY <1>1
<1>2. CASE Own(RunTaskSteps) \/ Own(UploadBacking) \/ Own(LeaseExpiring \/ LeaseExpires)
           \/ Own(Returned) \/ Writes
  BY <1>1, <1>2 DEF Own, Writes
<1>3. CASE CancelTask \/ CancelWorker
  <2>1. Derived
    BY <1>3 DEF CancelTask, CancelWorker
  <2>2. ctxDone \in BOOLEAN
    BY DEF LP!TypeOK, LP!MainTypeOK
  <2>3. CASE ctxDone \/ ~(logic # "unborn" /\ lpc # "done")
    <3>1. ctxDone' = ctxDone
      BY <2>1, <2>2, <2>3 DEF Derived
    <3> QED
      BY <1>1, <2>1, <3>1 DEF Derived
  <2>4. CASE ~ctxDone /\ logic # "unborn" /\ lpc # "done"
    <3>1. ctxDone' = TRUE
      BY <2>1, <2>4 DEF Derived
    <3>2. LP!CtxExpires
      BY <2>1, <2>4, <3>1 DEF Derived, LP!CtxExpires
    <3> QED
      BY <3>2 DEF LP!Next
  <2> QED
    BY <2>3, <2>4
<1>4. CASE Logic(L!Next)
  BY <1>4, SameNext DEF Logic
<1>5. CASE UNCHANGED sysVars
  BY <1>1, <1>5 DEF sysVars
<1> QED
  BY <1>2, <1>3, <1>4, <1>5 DEF SysNext

\* The invariants of the logic hold inside the composition.
THEOREM SystemKeepsLogic == SysSpec => [](LP!IndInv /\ LP!WayOutInv)
<1>1. SysInit => LP!IndInv /\ LP!WayOutInv
  BY SameInit, LP!InitIndInv, LP!InitWayOut, LogicAssumption DEF SysInit
<1>2. LP!IndInv /\ LP!WayOutInv /\ [SysNext]_sysVars => LP!IndInv' /\ LP!WayOutInv'
  <2>1. LP!IndInv => LP!TypeOK
    BY DEF LP!IndInv
  <2> QED
    BY <2>1, SysStepOfLogic, LP!NextIndInv, LP!NextWayOut, LogicAssumption
<1> QED
  BY <1>1, <1>2, PTL DEF SysSpec

\* What the logic does inside the composition is a run of TaskLogic: what is
\* proved of TaskLogic alone, StepsInOrder for one, holds of it too.
THEOREM SystemImplementsLogic == SysSpec => L!Spec
<1>1. SysInit => L!Init
  BY DEF SysInit
<1>2. LP!IndInv /\ [SysNext]_sysVars => [L!Next]_(L!vars)
  <2>1. UNCHANGED LP!vars => UNCHANGED L!vars
    BY DEF L!vars, LP!vars, L!mainVars, LP!mainVars, L!stepVars, LP!stepVars,
           L!artVars, LP!artVars, L!gatherVars, LP!gatherVars
  <2> QED
    BY <2>1, SysStepOfLogic, SameNext DEF LP!IndInv
<1> QED
  BY <1>1, <1>2, SystemKeepsLogic, PTL DEF SysSpec, L!Spec

\* Inside the composition too, where RunTask or the worker may cancel the logic
\* at any point, the channels of the logic's goroutines never close a circle.
THEOREM SystemNoCircularWait == SysSpec => []LP!NobodyWaitsInVain
<1>1. SysInit => LP!IndInv /\ LP!SpawnInv
  <2>1. LP!Init => LP!SpawnInv
    BY DEF LP!Init, LP!SpawnInv
  <2> QED
    BY <2>1, SameInit, LP!InitIndInv, LogicAssumption DEF SysInit
<1>2. LP!IndInv /\ LP!SpawnInv /\ [SysNext]_sysVars => LP!IndInv' /\ LP!SpawnInv'
  <2>1. LP!IndInv => LP!TypeOK
    BY DEF LP!IndInv
  <2> QED
    BY <2>1, SysStepOfLogic, LP!NextIndInv, LP!NextSpawnInv, LogicAssumption
<1>3. LP!IndInv /\ LP!SpawnInv => LP!NobodyWaitsInVain
  BY LP!WaitsEnd, LogicAssumption
<1> QED
  BY <1>1, <1>2, <1>3, PTL DEF SysSpec

-----------------------------------------------------------------------------
(***************************************************************************)
(* Where the two meet: the goroutine is at doneCh exactly when the logic   *)
(* has returned, with its result in hand; and once RunTask has left its    *)
(* select, a logic that goes on does so under a context that is done.      *)
(***************************************************************************)
MeetInv ==
    /\ logic = "unborn" => lpc = "unmarshal"
    /\ logic = "running" => lpc # "done"
    /\ logic \in {"sending", "ended"} => lpc = "done" /\ logicErr = lresult
    /\ pc \in Deferred /\ logic # "unborn" => ctxDone \/ lpc = "done"

\* Once runTaskLogic has returned its result stands, and ctx stays done.
LEMMA LogicDecided ==
    ASSUME LP!Next
    PROVE  /\ lpc = "done" => lpc' = "done" /\ lresult' = lresult
           /\ ctxDone => ctxDone'
<1> USE DEF LP!mainVars
<1>1. CASE LP!Unmarshal \/ LP!SandboxCreate \/ LP!PullProxy \/ LP!CreateProxy
  BY <1>1 DEF LP!Unmarshal, LP!SandboxCreate, LP!PullProxy, LP!CreateProxy
<1>2. CASE LP!RecvNext \/ LP!RecvExit \/ LP!RemoveProxy \/ LP!CloseSandbox
           \/ LP!CtxCancel \/ LP!CtxExpires
  BY <1>2 DEF LP!RecvNext, LP!RecvExit, LP!RemoveProxy, LP!CloseSandbox, LP!CtxCancel,
              LP!CtxExpires
<1>3. ASSUME NEW i, LP!Step(i) PROVE UNCHANGED LP!mainVars
  BY <1>3 DEF LP!Step, LP!StepPull, LP!StepRecvDep, LP!StepEnv, LP!StepCreate, LP!StepRun,
              LP!StepRemove
<1>4. ASSUME NEW k, LP!Artifact(k) PROVE UNCHANGED LP!mainVars
  BY <1>4 DEF LP!Artifact, LP!ArtRecvDep, LP!ArtUpload
<1>5. CASE LP!Gather \/ LP!ProxyExits \/ LP!Terminated
  BY <1>5 DEF LP!Gather, LP!ProxyExits, LP!Terminated, LP!vars
<1> QED
  BY <1>1, <1>2, <1>3, <1>4, <1>5 DEF LP!Next

\* Every step of the composition preserves MeetInv.
LEMMA NextMeets == IndInv /\ MeetInv /\ [SysNext]_sysVars => MeetInv'
<1> SUFFICES ASSUME IndInv, MeetInv, [SysNext]_sysVars PROVE MeetInv'
  OBVIOUS
<1>typ. TypeOK /\ ResultInv
  BY DEF IndInv
<1> USE DEF MeetInv, Closed, Deferred
<1>same. ASSUME UNCHANGED <<pc, logic, logicErr, lpc, lresult, ctxDone>> PROVE MeetInv'
  BY <1>same
<1>1. CASE Own(RunTaskSteps)
  <2> USE DEF Own, RunTaskSteps, logicVars, TypeOK, ResultInv
  <2>1. CASE CreateRedirect
    BY <1>1, <1>typ, <2>1 DEF CreateRedirect
  <2>2. CASE ReportEarly
    BY <1>1, <1>typ, <2>2 DEF ReportEarly
  <2>3. CASE RecvReclaim \/ ReclaimTask
    BY <1>1, <2>3 DEF RecvReclaim, ReclaimTask
  <2>4. CASE RecvDone
    BY <1>1, <2>4 DEF RecvDone
  <2>5. CASE LastLine \/ CloseLog \/ ReadLen \/ CreateLink \/ Report
    BY <1>1, <2>5 DEF LastLine, CloseLog, ReadLen, CreateLink, Report
  <2> QED
    BY <1>1, <2>1, <2>2, <2>3, <2>4, <2>5
<1>2. CASE Own(UploadBacking)
  BY <1>2 DEF Own, UploadBacking, logicVars
<1>3. CASE Own(LeaseExpiring \/ LeaseExpires) \/ Own(Returned) \/ Writes
  BY <1>3, <1>same DEF Own, Writes, LeaseExpiring, LeaseExpires, Returned, LogicWrites,
                       logicVars, vars
<1>4. CASE CancelTask
  BY <1>4 DEF CancelTask, CancelCtx, Derived, logicVars
<1>5. CASE CancelWorker
  BY <1>5 DEF CancelWorker, WorkerCancelled, Derived, logicVars
<1>6. CASE Logic(L!Next)
  <2>1. /\ lpc = "done" => lpc' = "done" /\ lresult' = lresult
        /\ ctxDone => ctxDone'
    BY <1>6, SameNext, LogicDecided DEF Logic
  <2>2. CASE lpc # "done" /\ lpc' = "done"
    BY <1>6, <2>1, <2>2 DEF Logic, ReturnsResult, LogicReturns
  <2>3. CASE ~(lpc # "done" /\ lpc' = "done")
    <3>1. logic # "unborn" /\ UNCHANGED <<pc, logic, logicErr>>
      BY <1>6, <2>3 DEF Logic, vars
    <3> QED
      BY <1>typ, <2>1, <2>3, <3>1 DEF TypeOK
  <2> QED
    BY <2>2, <2>3
<1>7. CASE UNCHANGED sysVars
  BY <1>7, <1>same DEF sysVars, vars, logicVars
<1> QED
  BY <1>1, <1>2, <1>3, <1>4, <1>5, <1>6, <1>7 DEF SysNext

\* RunTask and its logic agree in every reachable state.
THEOREM SystemMeets == SysSpec => [](IndInv /\ MeetInv)
<1>1. SysInit => IndInv /\ MeetInv
  BY InitIndInv DEF SysInit, Init, L!Init, MeetInv, Deferred, Closed
<1>2. IndInv /\ MeetInv /\ [SysNext]_sysVars => IndInv' /\ MeetInv'
  BY NextIndInv, SysStepOfRunTask, NextMeets
<1> QED
  BY <1>1, <1>2, PTL DEF SysSpec

\* RunTask never returns without telling the logic it leaves behind to stop.
THEOREM SystemCancelsLeftovers == SysSpec => []LeftoversCancelled
<1>1. MeetInv /\ LP!WayOutInv => LeftoversCancelled
  BY DEF MeetInv, LP!WayOutInv, LP!TeardownInv, LeftoversCancelled, Deferred, Closed
<1> QED
  BY <1>1, SystemMeets, SystemKeepsLogic, PTL

\* A run that the queue has as completed did all its work, or lost its proxy
\* without an error, and was taken down.
THEOREM SystemCompletes == SysSpec => []CompletedMeansDone
<1>1. IndInv /\ MeetInv /\ LP!IndInv /\ LP!WayOutInv => CompletedMeansDone
  <2> SUFFICES ASSUME IndInv, MeetInv, LP!IndInv, LP!WayOutInv, run = "completed"
               PROVE  /\ \/ exitCh = "nil"
                         \/ /\ \A i \in 1 .. NSteps : L!StepOk(i)
                            /\ \A k \in 1 .. NArtifacts : L!Uploaded(k)
                      /\ sandbox # "up" /\ proxy # "up"
    BY DEF CompletedMeansDone
  <2>1. lpc = "done" /\ lresult = "ok"
    BY DEF IndInv, ReportTruthful, MeetInv
  <2>2. sandbox # "up" /\ proxy # "up"
    BY <2>1 DEF LP!WayOutInv, LP!TeardownInv
  <2>3. LP!GatherSound
    BY LP!GatheredAll, LogicAssumption
  <2>4. CASE nextCh = "nil"
    BY <2>2, <2>3, <2>4
    DEF LP!GatherSound, LP!StepOk, LP!Uploaded, LP!Steps, LP!Artifacts, L!StepOk, L!Uploaded
  <2> QED
    BY <2>1, <2>2, <2>4 DEF LP!WayOutInv, LP!OutcomeInv
<1> QED
  BY <1>1, SystemMeets, SystemKeepsLogic, PTL

=============================================================================
