-------------------------- MODULE TaskLogicProofs --------------------------
(***************************************************************************)
(* Proofs about TaskLogic, for every number of steps and of artifacts.     *)
(***************************************************************************)
EXTENDS TaskLogic, WellFoundedInduction, TLAPS

\* The facts about the sizes that the arithmetic needs.
LEMMA Sizes ==
    /\ NSteps \in Nat /\ NArtifacts \in Nat /\ NLeaves \in Nat /\ NLeaves > 0
    /\ NArtifacts > 0 => NLeaves = NArtifacts
    /\ NArtifacts = 0 => NLeaves = 1
BY SizesAssumption DEF NLeaves

\* Before anything is spawned there is nothing to violate the invariant.
LEMMA InitIndInv == Init => IndInv
<1> SUFFICES ASSUME Init PROVE IndInv
  OBVIOUS
<1>1. TypeOK
  <2>1. MainTypeOK
    BY DEF Init, MainTypeOK
  <2>2. StepTypeOK
    BY DEF Init, StepTypeOK, Channel
  <2>3. ArtTypeOK
    BY Sizes DEF Init, ArtTypeOK, Channel
  <2> QED
    BY <2>1, <2>2, <2>3 DEF TypeOK
<1>2. BirthInv /\ StepsInOrder /\ ChannelInv
  BY Sizes DEF Init, BirthInv, StepsInOrder, ChannelInv, Working, StepOk, Steps
<1>3. ArtifactInv /\ GatherInv
  BY Sizes DEF Init, ArtifactInv, GatherInv, LastCh, Uploaded, LeafFailed
<1> QED
  BY <1>1, <1>2, <1>3 DEF IndInv

(***************************************************************************)
(* runTaskLogic moves on: nothing the goroutines see changes.              *)
(***************************************************************************)

\* The first labels of runTaskLogic, before the goroutines are spawned.
Early == {"unmarshal", "sandbox", "pull", "create"}

\* A step of runTaskLogic that neither spawns nor receives from nextCh.
LEMMA MainMoves ==
    ASSUME IndInv, MainTypeOK', pc' \in Early => pc \in Early,
           UNCHANGED <<stepVars, chan, artVars, gatherVars>>
    PROVE  IndInv'
<1> USE DEF stepVars, artVars, gatherVars
<1>1. TypeOK'
  <2>1. StepTypeOK'
    BY Zenon DEF IndInv, TypeOK, StepTypeOK
  <2>2. ArtTypeOK'
    BY Zenon DEF IndInv, TypeOK, ArtTypeOK
  <2> QED
    BY <2>1, <2>2 DEF TypeOK
<1>2. BirthInv'
  BY Zenon DEF IndInv, BirthInv, Early
<1>3. StepsInOrder' /\ ChannelInv'
  BY DEF IndInv, StepsInOrder, ChannelInv, Working, StepOk
<1>4. ArtifactInv' /\ GatherInv'
  BY DEF IndInv, ArtifactInv, GatherInv, LastCh, Uploaded, LeafFailed
<1> QED
  BY <1>1, <1>2, <1>3, <1>4 DEF IndInv

(***************************************************************************)
(* The steps' goroutines: a step moves to another label, ends by itself,   *)
(* or ends with the error of the step before it.                           *)
(***************************************************************************)

\* What a step must satisfy to leave the invariants of artifacts alone.
LEMMA ArtifactsSeeLast ==
    ASSUME IndInv, UNCHANGED <<artVars, gatherVars>>,
           \/ chan'[LastCh] = chan[LastCh]
           \/ chan[LastCh] = "open" /\ chan'[LastCh] \in {"nil", "err"}
    PROVE  ArtifactInv' /\ GatherInv'
<1> USE DEF artVars, gatherVars
<1>1. ArtifactInv'
  BY DEF IndInv, ArtifactInv, Uploaded, LeafFailed, LastCh
<1>2. GatherInv'
  BY DEF IndInv, GatherInv, LastCh
<1> QED
  BY <1>1, <1>2

\* A step goes from one label to another.
LEMMA StepMoves ==
    ASSUME IndInv, NEW i \in Steps, stepPc[i] \notin {"unborn", "done"},
           NEW l \in {"deps", "env", "create", "run", "remove"}, NEW e \in BOOLEAN,
           stepPc' = [stepPc EXCEPT ![i] = l],
           stepErr' = [stepErr EXCEPT ![i] = e], e => l = "remove",
           container' \in [Steps -> {"none", "up", "removed", "leaked"}],
           \A j \in Steps : j # i => container'[j] = container[j],
           container'[i] = "up" => l \in {"run", "remove"},
           l # "deps" => Working(i) \/ i = 1 \/ (i - 1 \in Steps /\ chan[i - 1] = "nil"),
           UNCHANGED <<mainVars, chan, artVars, gatherVars>>
    PROVE  IndInv'
<1>typ. stepPc \in [Steps -> {"unborn", "pull", "deps", "env", "create", "run",
                              "remove", "done"}] /\ stepErr \in [Steps -> BOOLEAN]
  BY DEF IndInv, TypeOK, StepTypeOK
<1>1. TypeOK'
  <2>1. MainTypeOK'
    BY Zenon DEF IndInv, TypeOK, MainTypeOK, mainVars
  <2>2. StepTypeOK'
    <3>1. stepPc' \in [Steps -> {"unborn", "pull", "deps", "env", "create", "run",
                                 "remove", "done"}] /\ stepErr' \in [Steps -> BOOLEAN]
      BY <1>typ
    <3> QED
      BY <3>1, Zenon DEF IndInv, TypeOK, StepTypeOK
  <2>3. ArtTypeOK'
    BY Zenon DEF IndInv, TypeOK, ArtTypeOK, artVars, gatherVars
  <2> QED
    BY <2>1, <2>2, <2>3 DEF TypeOK
<1>2. BirthInv'
  BY <1>typ DEF IndInv, BirthInv, mainVars, artVars
<1>3. StepsInOrder'
  <2>1. \A j \in 1 .. i - 1 : l # "deps" => StepOk(j)
    <3> SUFFICES ASSUME l # "deps", NEW j \in 1 .. i - 1 PROVE StepOk(j)
      OBVIOUS
    <3>1. CASE Working(i)
      BY <3>1 DEF IndInv, StepsInOrder
    <3>2. CASE i = 1
      BY <3>2
    <3>3. CASE i - 1 \in Steps /\ chan[i - 1] = "nil"
      <4>1. StepOk(i - 1)
        BY <3>3 DEF IndInv, ChannelInv, StepOk
      <4>2. j = i - 1 \/ j \in 1 .. (i - 1) - 1
        BY Sizes DEF Steps
      <4> QED
        BY <3>3, <4>1, <4>2 DEF IndInv, StepsInOrder
    <3> QED
      BY <3>1, <3>2, <3>3
  <2>2. ASSUME NEW j \in Steps PROVE StepOk(j)' <=> StepOk(j) /\ j # i
    BY <1>typ DEF StepOk
  <2>3. ASSUME NEW j \in Steps, j # i PROVE Working(j)' <=> Working(j)
    BY <1>typ, <2>3 DEF Working
  <2>4. Working(i)' => l # "deps"
    BY <1>typ DEF Working
  <2>5. ASSUME NEW j \in Steps, Working(j) \/ StepOk(j), i < j PROVE FALSE
    BY <2>5, Sizes DEF IndInv, StepsInOrder, StepOk, Steps
  <2>6. \A j \in Steps : 1 .. j - 1 \subseteq Steps /\ (i \in 1 .. j - 1 <=> i < j)
    BY Sizes DEF Steps
  <2> QED
    BY <2>1, <2>2, <2>3, <2>4, <2>5, <2>6 DEF IndInv, StepsInOrder
<1>4. ChannelInv'
  BY <1>typ, Sizes DEF IndInv, ChannelInv, Steps
<1>5. ArtifactInv' /\ GatherInv'
  BY ArtifactsSeeLast
<1> QED
  BY <1>1, <1>2, <1>3, <1>4, <1>5 DEF IndInv

\* A step ends: its channel is closed over its error or over nil.
LEMMA StepFinishes ==
    ASSUME IndInv, NEW i \in Steps, stepPc[i] \notin {"unborn", "done"},
           NEW e \in BOOLEAN, e \/ stepPc[i] = "remove", StepEnds(i, e),
           container' \in [Steps -> {"none", "up", "removed", "leaked"}],
           \A j \in Steps : j # i => container'[j] = container[j],
           container'[i] # "up",
           UNCHANGED <<mainVars, artVars, gatherVars>>
    PROVE  IndInv'
<1>typ. /\ stepPc \in [Steps -> {"unborn", "pull", "deps", "env", "create", "run",
                                 "remove", "done"}]
        /\ stepErr \in [Steps -> BOOLEAN] /\ chan \in [0 .. NSteps -> Channel]
        /\ i \in 0 .. NSteps /\ i # 0 /\ Steps \subseteq 0 .. NSteps
  BY Sizes DEF IndInv, TypeOK, StepTypeOK, Steps
<1>new. /\ stepPc' = [stepPc EXCEPT ![i] = "done"]
        /\ stepErr' = [stepErr EXCEPT ![i] = e]
        /\ chan' = [chan EXCEPT ![i] = Posted(e)]
        /\ Posted(e) \in {"nil", "err"} /\ (Posted(e) = "err" <=> e)
  BY DEF StepEnds, Posted
<1>1. TypeOK'
  <2>1. MainTypeOK'
    BY Zenon DEF IndInv, TypeOK, MainTypeOK, mainVars
  <2>2. StepTypeOK'
    BY <1>typ, <1>new DEF StepTypeOK, Channel
  <2>3. ArtTypeOK'
    BY Zenon DEF IndInv, TypeOK, ArtTypeOK, artVars, gatherVars
  <2> QED
    BY <2>1, <2>2, <2>3 DEF TypeOK
<1>2. BirthInv'
  BY <1>typ, <1>new DEF IndInv, BirthInv, mainVars, artVars
<1>3. StepsInOrder'
  <2>1. ~e => Working(i)
    BY DEF Working
  <2>2. ASSUME NEW j \in Steps, j # i
        PROVE  (StepOk(j)' <=> StepOk(j)) /\ (Working(j)' <=> Working(j))
    BY <1>typ, <1>new, <2>2 DEF StepOk, Working
  <2>3. ~Working(i)' /\ (StepOk(i)' <=> ~e) /\ ~StepOk(i)
    BY <1>typ, <1>new DEF StepOk, Working
  <2>4. \A j \in Steps : 1 .. j - 1 \subseteq Steps /\ i \notin 1 .. i - 1
    BY Sizes DEF Steps
  <2> QED
    BY <2>1, <2>2, <2>3, <2>4 DEF IndInv, StepsInOrder
<1>4. ChannelInv'
  <2>1. chan'[0] = chan[0]
    BY <1>typ, <1>new
  <2>2. ASSUME NEW j \in Steps
        PROVE  /\ chan'[j] # "open" <=> stepPc'[j] = "done"
               /\ chan'[j] \in {"err", "drained"} => stepErr'[j]
               /\ chan'[j] = "nil" => ~stepErr'[j]
               /\ stepErr'[j] => stepPc'[j] \in {"remove", "done"}
               /\ container'[j] = "up" => stepPc'[j] \in {"run", "remove"}
    BY <1>typ, <1>new DEF IndInv, ChannelInv
  <2>3. ASSUME NEW j \in Steps, chan'[j] = "drained", j < NSteps
        PROVE  stepPc'[j + 1] = "done" /\ stepErr'[j + 1]
    <3>1. j + 1 \in Steps
      BY <2>3, Sizes DEF Steps
    <3>2. j # i /\ chan[j] = "drained"
      BY <1>typ, <1>new, <2>3
    <3>3. stepPc[j + 1] = "done" /\ stepErr[j + 1]
      BY <2>3, <3>2 DEF IndInv, ChannelInv
    <3> QED
      BY <1>typ, <1>new, <3>1, <3>3
  <2> QED
    BY <2>1, <2>2, <2>3 DEF IndInv, ChannelInv
<1>5. ArtifactInv' /\ GatherInv'
  <2>1. chan[i] = "open" /\ LastCh \in 0 .. NSteps
    BY Sizes DEF IndInv, ChannelInv, LastCh
  <2>2. \/ chan'[LastCh] = chan[LastCh]
        \/ chan[LastCh] = "open" /\ chan'[LastCh] \in {"nil", "err"}
    BY <1>typ, <1>new, <2>1
  <2> QED
    BY <2>2, ArtifactsSeeLast
<1> QED
  BY <1>1, <1>2, <1>3, <1>4, <1>5 DEF IndInv

\* A step that is waiting finds the channel before it open, closed over nil,
\* or closed over an error nobody has taken.
LEMMA DepNotDrained ==
    ASSUME IndInv, NEW i \in Steps, stepPc[i] = "deps"
    PROVE  /\ DepOf(i) \in 0 .. NSteps /\ DepOf(i) < i
           /\ chan[DepOf(i)] \in {"open", "nil", "err"}
           /\ DepOf(i) = 0 => chan[DepOf(i)] # "err"
<1>1. DepOf(i) \in 0 .. NSteps /\ DepOf(i) < i /\ (DepOf(i) = 0 \/ DepOf(i) \in Steps)
  BY Sizes DEF DepOf, Steps
<1>2. CASE DepOf(i) = 0
  BY <1>1, <1>2 DEF IndInv, ChannelInv
<1>3. CASE DepOf(i) \in Steps
  <2>1. DepOf(i) + 1 = i /\ DepOf(i) < NSteps /\ DepOf(i) # 0
    BY <1>3, Sizes DEF DepOf, Steps
  <2>2. chan[DepOf(i)] # "drained"
    BY <1>3, <2>1 DEF IndInv, ChannelInv
  <2>3. chan[DepOf(i)] \in Channel
    BY <1>1 DEF IndInv, TypeOK, StepTypeOK
  <2> QED
    BY <1>1, <2>1, <2>2, <2>3 DEF Channel
<1> QED
  BY <1>1, <1>2, <1>3

\* A step takes the error of the step before it and ends with it.
LEMMA StepInherits ==
    ASSUME IndInv, NEW i \in Steps, stepPc[i] = "deps", chan[DepOf(i)] = "err",
           stepPc' = [stepPc EXCEPT ![i] = "done"],
           stepErr' = [stepErr EXCEPT ![i] = TRUE],
           chan' = [chan EXCEPT ![DepOf(i)] = "drained", ![i] = "err"],
           UNCHANGED <<mainVars, container, artVars, gatherVars>>
    PROVE  IndInv'
<1> DEFINE d == DepOf(i)
<1>typ. /\ stepPc \in [Steps -> {"unborn", "pull", "deps", "env", "create", "run",
                                 "remove", "done"}]
        /\ stepErr \in [Steps -> BOOLEAN] /\ chan \in [0 .. NSteps -> Channel]
        /\ container \in [Steps -> {"none", "up", "removed", "leaked"}]
        /\ i \in 0 .. NSteps /\ i # 0 /\ Steps \subseteq 0 .. NSteps
  BY Sizes DEF IndInv, TypeOK, StepTypeOK, Steps
<1>dep. d \in Steps /\ d # 0 /\ d + 1 = i /\ d # i
  BY DepNotDrained, Sizes DEF DepOf, Steps
<1>new. /\ chan'[d] = "drained" /\ chan'[i] = "err"
        /\ \A j \in 0 .. NSteps : j # d /\ j # i => chan'[j] = chan[j]
        /\ chan' \in [0 .. NSteps -> Channel]
  BY <1>typ, <1>dep DEF Channel
<1> HIDE DEF d
<1>1. TypeOK'
  <2>1. MainTypeOK'
    BY Zenon DEF IndInv, TypeOK, MainTypeOK, mainVars
  <2>2. StepTypeOK'
    BY <1>typ, <1>new DEF StepTypeOK
  <2>3. ArtTypeOK'
    BY Zenon DEF IndInv, TypeOK, ArtTypeOK, artVars, gatherVars
  <2> QED
    BY <2>1, <2>2, <2>3 DEF TypeOK
<1>2. BirthInv'
  BY <1>typ DEF IndInv, BirthInv, mainVars, artVars
<1>3. StepsInOrder'
  <2>1. ASSUME NEW j \in Steps, j # i
        PROVE  (StepOk(j)' <=> StepOk(j)) /\ (Working(j)' <=> Working(j))
    BY <1>typ, <2>1 DEF StepOk, Working
  <2>2. ~Working(i)' /\ ~StepOk(i)' /\ ~StepOk(i)
    BY <1>typ DEF StepOk, Working
  <2>3. \A j \in Steps : 1 .. j - 1 \subseteq Steps
    BY Sizes DEF Steps
  <2> QED
    BY <2>1, <2>2, <2>3 DEF IndInv, StepsInOrder
<1>4. ChannelInv'
  <2>1. chan'[0] = chan[0]
    BY <1>typ, <1>new, <1>dep, Sizes
  <2>2. ASSUME NEW j \in Steps
        PROVE  /\ chan'[j] # "open" <=> stepPc'[j] = "done"
               /\ chan'[j] \in {"err", "drained"} => stepErr'[j]
               /\ chan'[j] = "nil" => ~stepErr'[j]
               /\ stepErr'[j] => stepPc'[j] \in {"remove", "done"}
               /\ container'[j] = "up" => stepPc'[j] \in {"run", "remove"}
    <3>1. chan[d] = "err"
      BY DEF d
    <3>2. CASE j = i
      BY <1>typ, <1>new, <1>dep, <3>2 DEF IndInv, ChannelInv
    <3>3. CASE j = d
      BY <1>typ, <1>new, <1>dep, <3>1, <3>3 DEF IndInv, ChannelInv
    <3>4. CASE j # i /\ j # d
      BY <1>typ, <1>new, <3>4 DEF IndInv, ChannelInv
    <3> QED
      BY <3>2, <3>3, <3>4
  <2>3. ASSUME NEW j \in Steps, chan'[j] = "drained", j < NSteps
        PROVE  stepPc'[j + 1] = "done" /\ stepErr'[j + 1]
    <3>1. j + 1 \in Steps /\ j \in 0 .. NSteps
      BY <2>3, Sizes DEF Steps
    <3>2. CASE j = d
      BY <1>typ, <1>dep, <3>2
    <3>3. CASE j # d
      <4>1. j # i /\ chan[j] = "drained"
        BY <1>new, <2>3, <3>1, <3>3
      <4>2. stepPc[j + 1] = "done" /\ stepErr[j + 1]
        BY <2>3, <4>1 DEF IndInv, ChannelInv
      <4> QED
        BY <1>typ, <3>1, <4>2
    <3> QED
      BY <3>2, <3>3
  <2> QED
    BY <2>1, <2>2, <2>3 DEF IndInv, ChannelInv
<1>5. ArtifactInv' /\ GatherInv'
  <2>1. chan[i] = "open" /\ LastCh \in 0 .. NSteps /\ LastCh # d
    BY <1>dep, Sizes DEF IndInv, ChannelInv, LastCh, Steps
  <2>2. \/ chan'[LastCh] = chan[LastCh]
        \/ chan[LastCh] = "open" /\ chan'[LastCh] \in {"nil", "err"}
    BY <1>new, <2>1
  <2> QED
    BY <2>2, ArtifactsSeeLast
<1> QED
  BY <1>1, <1>2, <1>3, <1>4, <1>5 DEF IndInv

(***************************************************************************)
(* Each step of a step's goroutine is of one of the three kinds.           *)
(***************************************************************************)

\* No action of a step's goroutine breaks the invariant.
LEMMA StepIndInv == ASSUME IndInv, NEW i \in Steps, Step(i) PROVE IndInv'
<1>typ. /\ stepErr \in [Steps -> BOOLEAN] /\ chan \in [0 .. NSteps -> Channel]
        /\ container \in [Steps -> {"none", "up", "removed", "leaked"}]
        /\ stepErr[i] \in BOOLEAN
  BY DEF IndInv, TypeOK, StepTypeOK
<1>ok. /\ stepPc[i] \notin {"remove", "done"} => stepErr[i] = FALSE
       /\ container[i] = "up" => stepPc[i] \in {"run", "remove"}
  BY <1>typ DEF IndInv, ChannelInv
<1>same. stepErr = [stepErr EXCEPT ![i] = stepErr[i]]
  BY <1>typ
<1>1. CASE StepPull(i)
  <2>1. CASE StepGoesTo(i, "deps")
    BY <1>1, <1>typ, <1>ok, <1>same, <2>1, StepMoves DEF StepPull, StepGoesTo
  <2>2. CASE StepEnds(i, TRUE)
    BY <1>1, <1>typ, <1>ok, <2>2, StepFinishes DEF StepPull
  <2> QED
    BY <1>1, <2>1, <2>2 DEF StepPull
<1>2. CASE StepRecvDep(i)
  <2>1. stepPc[i] = "deps" /\ chan[DepOf(i)] # "open"
        /\ UNCHANGED <<mainVars, container, artVars, gatherVars>>
    BY <1>2 DEF StepRecvDep, Ready
  <2>2. CASE chan[DepOf(i)] = "err"
    BY <1>2, <2>1, <2>2, StepInherits DEF StepRecvDep
  <2>3. CASE chan[DepOf(i)] # "err"
    <3>1. chan[DepOf(i)] = "nil"
      BY <2>1, <2>3, DepNotDrained
    <3>2. i = 1 \/ (i - 1 \in Steps /\ chan[i - 1] = "nil")
      BY <3>1, Sizes DEF DepOf, Steps
    <3>3. StepGoesTo(i, "env")
      BY <1>2, <2>3 DEF StepRecvDep
    <3> QED
      BY <1>typ, <1>ok, <1>same, <2>1, <3>2, <3>3, StepMoves DEF StepGoesTo
  <2> QED
    BY <2>2, <2>3
<1>3. CASE StepEnv(i)
  <2>1. stepPc[i] = "env" /\ Working(i)
        /\ UNCHANGED <<mainVars, container, artVars, gatherVars>>
    BY <1>3 DEF StepEnv, ResolveValueFrom, Working
  <2>2. CASE StepGoesTo(i, "create")
    BY <1>typ, <1>ok, <1>same, <2>1, <2>2, StepMoves DEF StepGoesTo
  <2>3. CASE StepEnds(i, TRUE)
    BY <1>typ, <1>ok, <2>1, <2>3, StepFinishes
  <2> QED
    BY <1>3, <2>2, <2>3 DEF StepEnv, ResolveValueFrom
<1>4. CASE StepCreate(i)
  <2>1. stepPc[i] = "create" /\ Working(i) /\ UNCHANGED <<mainVars, artVars, gatherVars>>
    BY <1>4 DEF StepCreate, Working
  <2>2. CASE container' = [container EXCEPT ![i] = "up"] /\ StepGoesTo(i, "run")
    <3>1. /\ container' \in [Steps -> {"none", "up", "removed", "leaked"}]
          /\ \A j \in Steps : j # i => container'[j] = container[j]
      BY <1>typ, <2>2
    <3> QED
      BY <1>ok, <1>same, <2>1, <2>2, <3>1, StepMoves DEF StepGoesTo
  <2>3. CASE StepEnds(i, TRUE) /\ UNCHANGED container
    BY <1>typ, <1>ok, <2>1, <2>3, StepFinishes
  <2> QED
    BY <1>4, <2>2, <2>3 DEF StepCreate
<1>5. CASE StepRun(i)
  <2>1. /\ stepPc[i] = "run" /\ Working(i)
        /\ stepPc' = [stepPc EXCEPT ![i] = "remove"]
        /\ UNCHANGED <<mainVars, container, chan, artVars, gatherVars>>
    BY <1>5 DEF StepRun, Working
  <2>2. CASE stepErr' = stepErr
    BY <1>typ, <1>same, <2>1, <2>2, StepMoves
  <2>3. CASE stepErr' = [stepErr EXCEPT ![i] = TRUE]
    BY <1>typ, <2>1, <2>3, StepMoves
  <2> QED
    BY <1>5, <2>2, <2>3 DEF StepRun
<1>6. CASE StepRemove(i)
  <2>1. /\ stepPc[i] = "remove" /\ StepEnds(i, stepErr[i])
        /\ UNCHANGED <<mainVars, artVars, gatherVars>>
    BY <1>6 DEF StepRemove
  <2>2. /\ container' \in [Steps -> {"none", "up", "removed", "leaked"}]
        /\ \A j \in Steps : j # i => container'[j] = container[j]
        /\ container'[i] # "up"
    BY <1>6, <1>typ DEF StepRemove
  <2> QED
    BY <1>typ, <2>1, <2>2, StepFinishes
<1> QED
  BY <1>1, <1>2, <1>3, <1>4, <1>5, <1>6 DEF Step

(***************************************************************************)
(* The artifacts and the gathering goroutine leave the steps alone, but    *)
(* they may take the error out of the last step's channel.                 *)
(***************************************************************************)

\* Receiving from the last step's channel keeps the chain of steps intact.
LEMMA ChainSurvivesReceive ==
    ASSUME IndInv, UNCHANGED stepVars,
           chan' = chan \/ chan' = [chan EXCEPT ![LastCh] = Received(chan[LastCh])]
    PROVE  StepTypeOK' /\ StepsInOrder' /\ ChannelInv'
<1> USE DEF stepVars
<1>typ. /\ chan \in [0 .. NSteps -> Channel] /\ LastCh \in 0 .. NSteps
        /\ Steps \subseteq 0 .. NSteps /\ 0 \in 0 .. NSteps
        /\ \A i \in Steps : i # 0 /\ (i < NSteps => i # LastCh)
  BY Sizes DEF IndInv, TypeOK, StepTypeOK, Steps, LastCh
<1>new. /\ chan' \in [0 .. NSteps -> Channel]
        /\ \A i \in 0 .. NSteps : i # LastCh => chan'[i] = chan[i]
        /\ \/ chan'[LastCh] = chan[LastCh]
           \/ chan[LastCh] = "err" /\ chan'[LastCh] = "drained"
  BY <1>typ DEF Received, Channel
<1>1. StepTypeOK'
  BY <1>new, Zenon DEF IndInv, TypeOK, StepTypeOK
<1>2. StepsInOrder'
  BY DEF IndInv, StepsInOrder, Working, StepOk
<1>3. ChannelInv'
  <2>1. chan'[0] \in {"open", "nil"}
    BY <1>typ, <1>new DEF IndInv, ChannelInv
  <2> QED
    BY <1>typ, <1>new, <2>1 DEF IndInv, ChannelInv
<1> QED
  BY <1>1, <1>2, <1>3

\* No action of an artifact's goroutine breaks the invariant.
LEMMA ArtifactIndInv == ASSUME IndInv, NEW k \in Artifacts, Artifact(k) PROVE IndInv'
<1>typ. /\ artPc \in [Artifacts -> {"unborn", "deps", "upload", "done"}]
        /\ artChan \in [Artifacts -> Channel]
        /\ chan \in [0 .. NSteps -> Channel] /\ LastCh \in 0 .. NSteps
        /\ NArtifacts # 0 /\ gathered \in 0 .. NLeaves /\ NLeaves = NArtifacts
        /\ 1 .. gathered \subseteq Artifacts
  BY Sizes DEF IndInv, TypeOK, StepTypeOK, ArtTypeOK, LastCh, Artifacts
<1>new. /\ UNCHANGED <<mainVars, stepVars, gatherVars>>
        /\ chan' = chan \/ chan' = [chan EXCEPT ![LastCh] = Received(chan[LastCh])]
        /\ artPc[k] \in {"deps", "upload"}
        /\ artChan[k] = "open"
  BY <1>typ DEF Artifact, ArtRecvDep, ArtUpload, IndInv, ArtifactInv
<1>art. /\ artPc' \in [Artifacts -> {"unborn", "deps", "upload", "done"}]
        /\ artChan' \in [Artifacts -> Channel]
        /\ \A j \in Artifacts : j # k => artPc'[j] = artPc[j] /\ artChan'[j] = artChan[j]
        /\ \/ artPc'[k] = "upload" /\ artChan'[k] = "open"
           \/ artPc'[k] = "done" /\ artChan'[k] \in {"nil", "err"}
  BY <1>typ, <1>new DEF Artifact, ArtRecvDep, ArtUpload, ArtEnds, Posted, Channel
<1>last. /\ artPc'[k] = "upload" \/ artChan'[k] = "nil" => chan'[LastCh] \in {"nil", "drained"}
         /\ \/ chan'[LastCh] = chan[LastCh]
            \/ /\ chan[LastCh] = "err" /\ chan'[LastCh] = "drained"
               /\ artPc'[k] = "done" /\ artChan'[k] = "err"
  <2>1. CASE ArtRecvDep(k)
    BY <1>typ, <2>1 DEF ArtRecvDep, ArtEnds, Posted, Received, Ready, Channel
  <2>2. CASE ArtUpload(k)
    <3>1. chan[LastCh] \in {"nil", "drained"}
      BY <2>2 DEF ArtUpload, IndInv, ArtifactInv
    <3>2. chan' = chan
      BY <2>2 DEF ArtUpload
    <3> QED
      BY <3>1, <3>2
  <2> QED
    BY <2>1, <2>2 DEF Artifact
<1>1. StepTypeOK' /\ StepsInOrder' /\ ChannelInv'
  BY <1>new, ChainSurvivesReceive
<1>2. MainTypeOK' /\ ArtTypeOK'
  <2>1. MainTypeOK'
    BY <1>new, Zenon DEF IndInv, TypeOK, MainTypeOK, mainVars
  <2>2. ArtTypeOK'
    BY <1>new, <1>art, Zenon DEF IndInv, TypeOK, ArtTypeOK, gatherVars
  <2> QED
    BY <2>1, <2>2
<1>3. BirthInv'
  BY <1>new DEF IndInv, BirthInv, mainVars
<1>4. ArtifactInv'
  <2>1. nextCh' = nextCh
    BY <1>new DEF gatherVars
  <2>2. ASSUME NEW j \in Artifacts
        PROVE  /\ artChan'[j] # "open" <=> artPc'[j] = "done"
               /\ artPc'[j] = "upload" \/ Uploaded(j)' => chan'[LastCh] \in {"nil", "drained"}
               /\ artChan'[j] = "drained" => nextCh' \in {"err", "drained"}
    <3>1. CASE j = k
      BY <1>art, <1>last, <3>1 DEF Uploaded
    <3>2. CASE j # k
      BY <1>art, <1>last, <2>1, <3>2 DEF Uploaded, IndInv, ArtifactInv
    <3> QED
      BY <3>1, <3>2
  <2>3. ASSUME chan'[LastCh] = "drained" PROVE \E j \in Artifacts : LeafFailed(j)'
    <3>1. CASE chan[LastCh] = "drained"
      <4>1. PICK j \in Artifacts : LeafFailed(j)
        BY <1>typ, <3>1 DEF IndInv, ArtifactInv
      <4>2. j # k
        BY <1>new, <4>1 DEF LeafFailed
      <4> QED
        BY <1>art, <4>1, <4>2 DEF LeafFailed
    <3>2. CASE chan[LastCh] # "drained"
      <4>1. LeafFailed(k)'
        BY <1>last, <2>3, <3>2 DEF LeafFailed
      <4> QED
        BY <4>1
    <3> QED
      BY <3>1, <3>2
  <2> QED
    BY <1>typ, <2>2, <2>3 DEF ArtifactInv, LastCh
<1>5. GatherInv'
  BY <1>typ, <1>new, <1>art DEF IndInv, GatherInv, gatherVars
<1> QED
  BY <1>1, <1>2, <1>3, <1>4, <1>5 DEF IndInv, TypeOK

\* The gathering goroutine, when there are artifacts: it receives from the
\* next artifact's channel.
LEMMA GatherArtifacts == ASSUME IndInv, Gather, NArtifacts # 0 PROVE IndInv'
<1> DEFINE n == gathered + 1
<1>typ. /\ artChan \in [Artifacts -> Channel] /\ gathered \in 0 .. NLeaves
        /\ nextCh \in Channel /\ NLeaves = NArtifacts
  BY Sizes DEF IndInv, TypeOK, ArtTypeOK
<1>n. n \in Artifacts /\ 1 .. n \subseteq Artifacts
      /\ \A j \in 1 .. n : j \in 1 .. gathered \/ j = n
  BY <1>typ, Sizes DEF Gather, IndInv, GatherInv, Artifacts
<1>new. /\ UNCHANGED <<mainVars, stepVars, chan, artPc, exitCh>>
        /\ artChan' = [artChan EXCEPT ![n] = Received(artChan[n])]
        /\ nextCh = "open" /\ artChan[n] # "open"
  BY DEF Gather, Ready, Leaf
<1>nd. artChan[n] \in {"nil", "err"}
  BY <1>n, <1>new, <1>typ DEF IndInv, ArtifactInv, Channel
<1>cases. \/ /\ artChan[n] = "err" /\ artChan'[n] = "drained"
             /\ nextCh' = "err" /\ gathered' = gathered
          \/ /\ artChan[n] = "nil" /\ artChan' = artChan
             /\ gathered' = n /\ nextCh' = IF n = NLeaves THEN "nil" ELSE "open"
  <2>1. CASE artChan[n] = "err"
    BY <1>typ, <1>n, <1>new, <2>1 DEF Gather, Leaf, Received
  <2>2. CASE artChan[n] = "nil"
    BY <1>typ, <1>n, <1>new, <2>2 DEF Gather, Leaf, Received
  <2> QED
    BY <1>nd, <2>1, <2>2
<1>art. \A j \in Artifacts : artChan'[j] = artChan[j] \/ (j = n /\ artChan[j] = "err" /\ artChan'[j] = "drained")
  BY <1>typ, <1>new, <1>cases
<1> HIDE DEF n
<1>1. TypeOK'
  <2>1. MainTypeOK'
    BY <1>new, Zenon DEF IndInv, TypeOK, MainTypeOK, mainVars
  <2>2. StepTypeOK'
    BY <1>new, Zenon DEF IndInv, TypeOK, StepTypeOK, stepVars
  <2>3. artChan' \in [Artifacts -> Channel]
    BY <1>typ, <1>new DEF Received, Channel
  <2>4. gathered' \in 0 .. NLeaves /\ nextCh' \in Channel
    BY <1>typ, <1>n, <1>cases, Sizes DEF Channel, Artifacts
  <2>5. ArtTypeOK'
    BY <1>new, <2>3, <2>4, Zenon DEF IndInv, TypeOK, ArtTypeOK
  <2> QED
    BY <2>1, <2>2, <2>5 DEF TypeOK
<1>2. BirthInv' /\ StepsInOrder' /\ ChannelInv'
  <2>1. StepsInOrder' /\ ChannelInv'
    BY <1>new, ChainSurvivesReceive
  <2>2. BirthInv'
    BY <1>new, Zenon DEF IndInv, BirthInv, mainVars, stepVars
  <2> QED
    BY <2>1, <2>2
<1>3. ArtifactInv'
  <2>1. ASSUME NEW j \in Artifacts
        PROVE  /\ artChan'[j] # "open" <=> artPc'[j] = "done"
               /\ artPc'[j] = "upload" \/ Uploaded(j)' => chan'[LastCh] \in {"nil", "drained"}
               /\ artChan'[j] = "drained" => nextCh' \in {"err", "drained"}
               /\ LeafFailed(j) => LeafFailed(j)'
    BY <1>new, <1>art, <1>cases DEF IndInv, ArtifactInv, Uploaded, LeafFailed, LastCh
  <2> QED
    BY <1>new, <2>1 DEF IndInv, ArtifactInv, LastCh
<1>4. GatherInv'
  <2>1. CASE artChan[n] = "err"
    <3>1. ~(n \in 1 .. gathered)
      BY <1>typ DEF n
    <3>2. \A j \in 1 .. gathered : j \in Artifacts /\ artChan'[j] = artChan[j]
      BY <1>typ, <1>art, <3>1, Sizes DEF Artifacts
    <3> QED
      BY <1>cases, <2>1, <3>2 DEF IndInv, GatherInv
  <2>2. CASE artChan[n] = "nil"
    <3>1. \A j \in 1 .. gathered' : artChan'[j] = "nil"
      BY <1>n, <1>cases, <2>2 DEF IndInv, GatherInv
    <3>2. nextCh' = "open" => gathered' < NLeaves
      BY <1>n, <1>cases, <1>typ, <2>2, Sizes DEF Artifacts
    <3> QED
      BY <1>cases, <2>2, <3>1, <3>2 DEF GatherInv
  <2> QED
    BY <1>nd, <2>1, <2>2
<1> QED
  BY <1>1, <1>2, <1>3, <1>4 DEF IndInv

\* The gathering goroutine without artifacts: it receives from the channel of
\* the last step, or from startCh when there is no step.
LEMMA GatherLastStep == ASSUME IndInv, Gather, NArtifacts = 0 PROVE IndInv'
<1>typ. /\ chan \in [0 .. NSteps -> Channel] /\ LastCh \in 0 .. NSteps
        /\ gathered \in 0 .. NLeaves /\ NLeaves = 1 /\ Artifacts = {}
  BY Sizes DEF IndInv, TypeOK, StepTypeOK, ArtTypeOK, LastCh, Artifacts
<1>new. /\ UNCHANGED <<mainVars, stepVars, artVars, exitCh>>
        /\ chan' = [chan EXCEPT ![LastCh] = Received(chan[LastCh])]
        /\ nextCh = "open" /\ chan[LastCh] # "open" /\ gathered = 0
  BY <1>typ DEF Gather, Ready, Leaf, artVars, IndInv, GatherInv
<1>nd. chan[LastCh] \in {"nil", "err"}
  BY <1>typ, <1>new DEF IndInv, ArtifactInv, Channel
<1>cases. \/ /\ chan[LastCh] = "err" /\ chan'[LastCh] = "drained"
             /\ nextCh' = "err" /\ gathered' = 0
          \/ /\ chan[LastCh] = "nil" /\ chan'[LastCh] = "nil"
             /\ gathered' = 1 /\ nextCh' = "nil"
  <2>1. CASE chan[LastCh] = "err"
    BY <1>typ, <1>new, <2>1 DEF Gather, Leaf, Received
  <2>2. CASE chan[LastCh] = "nil"
    BY <1>typ, <1>new, <2>2 DEF Gather, Leaf, Received
  <2> QED
    BY <1>nd, <2>1, <2>2
<1>1. StepTypeOK' /\ StepsInOrder' /\ ChannelInv'
  BY <1>new, ChainSurvivesReceive
<1>2. MainTypeOK' /\ ArtTypeOK'
  <2>1. MainTypeOK'
    BY <1>new, Zenon DEF IndInv, TypeOK, MainTypeOK, mainVars
  <2>2. gathered' \in 0 .. NLeaves /\ nextCh' \in Channel
    BY <1>typ, <1>cases DEF Channel
  <2>3. ArtTypeOK'
    BY <1>new, <2>2, Zenon DEF IndInv, TypeOK, ArtTypeOK, artVars
  <2> QED
    BY <2>1, <2>3
<1>3. BirthInv'
  BY <1>new, Zenon DEF IndInv, BirthInv, mainVars, stepVars, artVars
<1>4. ArtifactInv' /\ GatherInv'
  BY <1>typ, <1>cases DEF ArtifactInv, GatherInv, LastCh
<1> QED
  BY <1>1, <1>2, <1>3, <1>4 DEF IndInv, TypeOK

\* The goroutines are spawned and startCh is closed.
LEMMA CreateProxyIndInv == ASSUME IndInv, CreateProxy PROVE IndInv'
<1>1. CASE UNCHANGED <<proxy, stepPc, artPc, chan>>
  <2>1. MainTypeOK' /\ (pc' \in Early => pc \in Early)
    BY <1>1 DEF CreateProxy, IndInv, TypeOK, MainTypeOK, Early
  <2> QED
    BY <1>1, <2>1, MainMoves DEF CreateProxy, stepVars, artVars
<1>2. CASE ~UNCHANGED <<proxy, stepPc, artPc, chan>>
  <2>new. /\ pc = "create" /\ pc' = "wait" /\ proxy' = "up" /\ result' = result
          /\ stepPc' = [i \in Steps |-> IF i \in PullSteps THEN "pull" ELSE "deps"]
          /\ artPc' = [k \in Artifacts |-> "deps"]
          /\ chan' = [chan EXCEPT ![0] = "nil"]
          /\ UNCHANGED <<ctxDone, sandbox, stepErr, container, artChan, gatherVars>>
    BY <1>2 DEF CreateProxy
  <2>typ. /\ chan \in [0 .. NSteps -> Channel] /\ 0 \in 0 .. NSteps
          /\ Steps \subseteq 0 .. NSteps /\ 0 \notin Steps
          /\ LastCh \in 0 .. NSteps
    BY Sizes DEF IndInv, TypeOK, StepTypeOK, Steps, LastCh
  <2>born. /\ \A i \in Steps : stepPc[i] = "unborn"
           /\ \A k \in Artifacts : artPc[k] = "unborn"
    BY <2>new DEF IndInv, BirthInv
  <2>1. TypeOK'
    <3>1. MainTypeOK'
      BY <2>new, Zenon DEF IndInv, TypeOK, MainTypeOK
    <3>2. /\ stepPc' \in [Steps -> {"unborn", "pull", "deps", "env", "create", "run",
                                    "remove", "done"}]
          /\ chan' \in [0 .. NSteps -> Channel]
          /\ artPc' \in [Artifacts -> {"unborn", "deps", "upload", "done"}]
      BY <2>new, <2>typ DEF Channel
    <3>3. StepTypeOK'
      BY <2>new, <3>2, Zenon DEF IndInv, TypeOK, StepTypeOK
    <3>4. ArtTypeOK'
      BY <2>new, <3>2, Zenon DEF IndInv, TypeOK, ArtTypeOK, gatherVars
    <3> QED
      BY <3>1, <3>3, <3>4 DEF TypeOK
  <2>2. BirthInv'
    BY <2>new DEF BirthInv
  <2>3. StepsInOrder'
    BY <2>new DEF StepsInOrder, Working, StepOk
  <2>4. ChannelInv'
    <3>1. \A i \in Steps : /\ chan'[i] = "open" /\ ~stepErr'[i]
                           /\ container'[i] # "up" /\ stepPc'[i] # "done"
      BY <2>new, <2>typ, <2>born DEF IndInv, ChannelInv
    <3>2. chan'[0] = "nil"
      BY <2>new, <2>typ
    <3> QED
      BY <3>1, <3>2 DEF ChannelInv
  <2>5. \/ chan'[LastCh] = chan[LastCh]
        \/ LastCh = 0 /\ chan'[LastCh] = "nil" /\ chan[LastCh] \in {"open", "nil"}
    BY <2>new, <2>typ DEF IndInv, ChannelInv
  <2>6. ArtifactInv'
    <3>1. \A k \in Artifacts : artChan[k] = "open" /\ artChan'[k] = "open" /\ artPc'[k] = "deps"
      BY <2>new, <2>born DEF IndInv, ArtifactInv
    <3>2. chan'[LastCh] = "drained" => NArtifacts = 0 /\ nextCh' \in {"err", "drained"}
      <4>1. ~\E k \in Artifacts : LeafFailed(k)
        BY <2>born DEF LeafFailed
      <4> QED
        BY <2>new, <2>5, <4>1 DEF IndInv, ArtifactInv, gatherVars
    <3> QED
      BY <3>1, <3>2 DEF ArtifactInv, Uploaded, LastCh
  <2>7. GatherInv'
    BY <2>new, <2>5 DEF IndInv, GatherInv, LastCh, gatherVars
  <2> QED
    BY <2>1, <2>2, <2>3, <2>4, <2>6, <2>7 DEF IndInv
<1> QED
  BY <1>1, <1>2

(***************************************************************************)
(* The inductive step and the theorems.                                    *)
(***************************************************************************)

\* Every step of the run preserves IndInv.
LEMMA NextIndInv == IndInv /\ [Next]_vars => IndInv'
<1> SUFFICES ASSUME IndInv, [Next]_vars PROVE IndInv'
  OBVIOUS
<1>typ. MainTypeOK
  BY DEF IndInv, TypeOK
<1>1. CASE Unmarshal \/ SandboxCreate \/ PullProxy
  <2>1. MainTypeOK' /\ (pc' \in Early => pc \in Early)
    BY <1>typ, <1>1 DEF Unmarshal, SandboxCreate, PullProxy, MainTypeOK, Early
  <2> QED
    BY <1>1, <2>1, MainMoves DEF Unmarshal, SandboxCreate, PullProxy
<1>2. CASE CreateProxy
  BY <1>2, CreateProxyIndInv
<1>3. CASE RecvExit \/ RemoveProxy \/ CloseSandbox \/ CtxCancel \/ CtxExpires
  <2>1. MainTypeOK' /\ (pc' \in Early => pc \in Early)
    BY <1>typ, <1>3
    DEF RecvExit, RemoveProxy, CloseSandbox, CtxCancel, CtxExpires, MainTypeOK, Early
  <2> QED
    BY <1>3, <2>1, MainMoves DEF RecvExit, RemoveProxy, CloseSandbox, CtxCancel, CtxExpires
<1>4. CASE RecvNext
  <2>new. /\ pc = "wait" /\ pc' = "remove" /\ result' \in {"ok", "failed"}
          /\ UNCHANGED <<ctxDone, sandbox, proxy, stepVars, chan, artVars, gathered, exitCh>>
          /\ nextCh # "open" /\ nextCh' = Received(nextCh)
    BY <1>4 DEF RecvNext, Ready
  <2>ch. nextCh' = nextCh \/ (nextCh = "err" /\ nextCh' = "drained")
    BY <2>new DEF Received
  <2>1. TypeOK'
    <3>1. MainTypeOK'
      BY <1>typ, <2>new DEF MainTypeOK
    <3>2. StepTypeOK'
      BY <2>new, Zenon DEF IndInv, TypeOK, StepTypeOK, stepVars
    <3>3. nextCh' \in Channel
      BY <2>ch DEF IndInv, TypeOK, ArtTypeOK, Channel
    <3>4. ArtTypeOK'
      BY <2>new, <3>3, Zenon DEF IndInv, TypeOK, ArtTypeOK, artVars
    <3> QED
      BY <3>1, <3>2, <3>4 DEF TypeOK
  <2>2. BirthInv'
    BY <2>new DEF BirthInv
  <2>3. StepsInOrder' /\ ChannelInv'
    BY <2>new, ChainSurvivesReceive
  <2>4. ArtifactInv'
    BY <2>new, <2>ch DEF IndInv, ArtifactInv, Uploaded, LeafFailed, LastCh, artVars
  <2>5. GatherInv'
    BY <2>new, <2>ch DEF IndInv, GatherInv, LastCh, artVars
  <2> QED
    BY <2>1, <2>2, <2>3, <2>4, <2>5 DEF IndInv
<1>5. ASSUME NEW i \in Steps, Step(i) PROVE IndInv'
  BY <1>5, StepIndInv
<1>6. ASSUME NEW k \in Artifacts, Artifact(k) PROVE IndInv'
  BY <1>6, ArtifactIndInv
<1>7. CASE Gather
  BY <1>7, GatherArtifacts, GatherLastStep
<1>8. CASE ProxyExits
  <2>new. /\ UNCHANGED <<mainVars, stepVars, chan, artVars, gathered, nextCh>>
          /\ exitCh' \in {"nil", "err"}
    BY <1>8 DEF ProxyExits
  <2>1. TypeOK'
    <3>1. MainTypeOK' /\ StepTypeOK'
      BY <2>new, Zenon DEF IndInv, TypeOK, MainTypeOK, StepTypeOK, mainVars, stepVars
    <3>2. exitCh' \in {"open", "nil", "err"}
      BY <2>new
    <3>3. ArtTypeOK'
      BY <2>new, <3>2, Zenon DEF IndInv, TypeOK, ArtTypeOK, artVars
    <3> QED
      BY <3>1, <3>3 DEF TypeOK
  <2>2. BirthInv'
    BY <2>new, Zenon DEF IndInv, BirthInv, mainVars, stepVars, artVars
  <2>3. StepsInOrder' /\ ChannelInv'
    BY <2>new, ChainSurvivesReceive
  <2>4. ArtifactInv' /\ GatherInv'
    BY <2>new DEF IndInv, ArtifactInv, GatherInv, Uploaded, LeafFailed, LastCh, artVars
  <2> QED
    BY <2>1, <2>2, <2>3, <2>4 DEF IndInv
<1>9. CASE Terminated \/ UNCHANGED vars
  <2>1. MainTypeOK' /\ (pc' \in Early => pc \in Early)
    BY <1>typ, <1>9, Zenon DEF Terminated, vars, mainVars, MainTypeOK
  <2> QED
    BY <1>9, <2>1, MainMoves DEF Terminated, vars
<1> QED
  BY <1>1, <1>2, <1>3, <1>4, <1>5, <1>6, <1>7, <1>8, <1>9 DEF Next

\* IndInv holds in every reachable state.
THEOREM Invariance == Spec => []IndInv
<1> QED
  BY InitIndInv, NextIndInv, PTL DEF Spec

\* Every variable of a run keeps its type.
THEOREM TypeCorrect == Spec => []TypeOK
<1>1. IndInv => TypeOK
  BY DEF IndInv
<1> QED
  BY <1>1, Invariance, PTL

\* A step starts only after every step before it has succeeded.
THEOREM OrderedSteps == Spec => []StepsInOrder
<1>1. IndInv => StepsInOrder
  BY DEF IndInv
<1> QED
  BY <1>1, Invariance, PTL

\* Two steps never have a container at the same time.
THEOREM ContainersExclusive == Spec => []OneStepContainer
<1>1. IndInv => OneStepContainer
  <2> SUFFICES ASSUME IndInv, NEW i \in Steps, NEW j \in Steps,
                      container[i] = "up", container[j] = "up", i < j
               PROVE  FALSE
    BY Sizes DEF OneStepContainer, Steps
  <2>1. stepPc[i] \in {"run", "remove"} /\ stepPc[j] \in {"run", "remove"}
    BY DEF IndInv, ChannelInv
  <2>2. i \in 1 .. j - 1
    BY Sizes DEF Steps
  <2>3. StepOk(i)
    BY <2>1, <2>2 DEF IndInv, StepsInOrder, Working
  <2> QED
    BY <2>1, <2>3 DEF StepOk
<1> QED
  BY <1>1, Invariance, PTL

\* Every leaf has yielded nil, so the last step has succeeded, and with it all.
LEMMA GatheredAll == IndInv => GatherSound
<1> SUFFICES ASSUME IndInv, nextCh = "nil"
             PROVE  /\ \A i \in Steps : StepOk(i)
                    /\ \A k \in Artifacts : Uploaded(k)
  BY DEF GatherSound
<1>1. gathered = NLeaves
  BY DEF IndInv, GatherInv
<1>2. \A k \in Artifacts : Uploaded(k)
  BY <1>1, Sizes DEF IndInv, GatherInv, ArtifactInv, Uploaded, Artifacts
<1>3. chan[LastCh] = "nil"
  <2>1. CASE NArtifacts = 0
    BY <1>1, <2>1, Sizes DEF IndInv, GatherInv
  <2>2. CASE NArtifacts # 0
    <3>1. 1 \in Artifacts
      BY <2>2, Sizes DEF Artifacts
    <3>2. chan[LastCh] \in {"nil", "drained"}
      BY <1>2, <3>1 DEF IndInv, ArtifactInv
    <3>3. chan[LastCh] # "drained"
      BY <1>2, <2>2 DEF IndInv, ArtifactInv, LeafFailed, Uploaded
    <3> QED
      BY <3>2, <3>3
  <2> QED
    BY <2>1, <2>2
<1>4. ASSUME NEW i \in Steps PROVE StepOk(i)
  <2>1. NSteps \in Steps /\ (i = NSteps \/ i \in 1 .. NSteps - 1)
    BY Sizes DEF Steps
  <2>2. StepOk(NSteps)
    BY <1>3, <2>1 DEF IndInv, ChannelInv, StepOk, LastCh
  <2> QED
    BY <2>1, <2>2 DEF IndInv, StepsInOrder
<1> QED
  BY <1>2, <1>4

\* A nil on nextCh means that every step and every artifact succeeded.
THEOREM GatherCorrect == Spec => []GatherSound
BY GatheredAll, Invariance, PTL

(***************************************************************************)
(* The way out of runTaskLogic: what is up is up only where its deferred   *)
(* removal is still ahead, and ctx is done at the end unless the payload   *)
(* was rejected before ctx was made.                                       *)
(***************************************************************************)
TeardownInv ==
    /\ sandbox = "up" => pc \in {"pull", "create", "wait", "remove", "close"}
    /\ proxy = "up" => pc \in {"wait", "remove"}
    /\ pc = "done" => ctxDone \/ result = "malformed-payload"

(***************************************************************************)
(* The result is decided once, by the select; until then nobody has        *)
(* received from nextCh, so a nil it yields is not that of a channel whose *)
(* error is gone.                                                          *)
(***************************************************************************)
OutcomeInv ==
    /\ pc \in Early \cup {"wait"} => result = "none" /\ nextCh # "drained"
    /\ result = "ok" => nextCh = "nil" \/ exitCh = "nil"

WayOutInv == TeardownInv /\ OutcomeInv

\* Nothing is up and nothing is decided at the start.
LEMMA InitWayOut == Init => WayOutInv
BY DEF Init, WayOutInv, TeardownInv, OutcomeInv, Early

\* Every step preserves the way out.
LEMMA NextWayOut == TypeOK /\ WayOutInv /\ [Next]_vars => WayOutInv'
<1> SUFFICES ASSUME TypeOK, WayOutInv, [Next]_vars PROVE WayOutInv'
  OBVIOUS
<1>typ. MainTypeOK /\ nextCh \in Channel
  BY DEF TypeOK, ArtTypeOK
<1> USE DEF WayOutInv, TeardownInv, OutcomeInv, Early, MainTypeOK, Channel
<1>same. ASSUME UNCHANGED <<mainVars, nextCh>>, exitCh = "nil" => exitCh' = "nil"
         PROVE  WayOutInv'
  BY <1>same DEF mainVars
<1>1. CASE Unmarshal
  BY <1>1, <1>typ DEF Unmarshal, gatherVars
<1>2. CASE SandboxCreate
  BY <1>2, <1>typ DEF SandboxCreate, gatherVars
<1>3. CASE PullProxy
  BY <1>3, <1>typ DEF PullProxy, gatherVars
<1>4. CASE CreateProxy
  BY <1>4, <1>typ DEF CreateProxy, gatherVars
<1>5. CASE RecvNext
  BY <1>5, <1>typ DEF RecvNext, Ready, Received
<1>6. CASE RecvExit
  <2>1. exitCh \in {"nil", "err"}
    BY <1>6 DEF RecvExit, Ready, TypeOK, ArtTypeOK
  <2> QED
    BY <1>6, <1>typ, <2>1 DEF RecvExit, gatherVars
<1>7. CASE RemoveProxy
  BY <1>7, <1>typ DEF RemoveProxy, gatherVars
<1>8. CASE CloseSandbox
  BY <1>8, <1>typ DEF CloseSandbox, gatherVars
<1>9. CASE CtxCancel
  BY <1>9, <1>typ DEF CtxCancel, gatherVars
<1>10. CASE CtxExpires
  BY <1>10, <1>typ DEF CtxExpires, gatherVars
<1>11. ASSUME NEW i \in Steps, Step(i) PROVE WayOutInv'
  <2>1. UNCHANGED <<mainVars, gatherVars>>
    BY <1>11 DEF Step, StepPull, StepRecvDep, StepEnv, StepCreate, StepRun, StepRemove
  <2> QED
    BY <1>same, <2>1 DEF gatherVars
<1>12. ASSUME NEW k \in Artifacts, Artifact(k) PROVE WayOutInv'
  <2>1. UNCHANGED <<mainVars, gatherVars>>
    BY <1>12 DEF Artifact, ArtRecvDep, ArtUpload
  <2> QED
    BY <1>same, <2>1 DEF gatherVars
<1>13. CASE Gather
  <2>1. UNCHANGED <<mainVars, exitCh>> /\ nextCh = "open"
        /\ nextCh' \in {"open", "nil", "err"}
    BY <1>13 DEF Gather
  <2> QED
    BY <1>typ, <2>1 DEF mainVars
<1>14. CASE ProxyExits
  BY <1>14, <1>same DEF ProxyExits
<1>15. CASE Terminated \/ UNCHANGED vars
  BY <1>15, <1>same DEF Terminated, vars, gatherVars
<1> QED
  BY <1>1, <1>2, <1>3, <1>4, <1>5, <1>6, <1>7, <1>8, <1>9, <1>10, <1>11, <1>12,
     <1>13, <1>14, <1>15 DEF Next

\* IndInv and WayOutInv hold in every reachable state.
THEOREM WayOut == Spec => [](IndInv /\ WayOutInv)
<1>1. IndInv => TypeOK
  BY DEF IndInv
<1> QED
  BY <1>1, InitIndInv, NextIndInv, InitWayOut, NextWayOut, PTL DEF Spec

\* Whichever way runTaskLogic is left, the sandbox and the proxy have been
\* taken down (or their removal has failed), and ctx is done.
THEOREM TearsDown == Spec => []TornDown
<1>1. WayOutInv => TornDown
  BY DEF WayOutInv, TeardownInv, TornDown
<1> QED
  BY <1>1, WayOut, PTL

(***************************************************************************)
(* A run that returns without an error has run every step and uploaded     *)
(* every artifact, unless its proxy exited first, without an error.        *)
(***************************************************************************)
OkMeansDone ==
    result = "ok" => \/ exitCh = "nil"
                     \/ /\ \A i \in Steps : StepOk(i)
                        /\ \A k \in Artifacts : Uploaded(k)

\* runTaskLogic returns nil only for a complete run or an exited proxy: the
\* exit of the proxy is the one way to "ok" past a step that never ran.
THEOREM OkIsEarned == Spec => []OkMeansDone
<1>1. WayOutInv /\ GatherSound => OkMeansDone
  BY DEF WayOutInv, OutcomeInv, GatherSound, OkMeansDone
<1> QED
  BY <1>1, WayOut, GatherCorrect, PTL

(***************************************************************************)
(* Who waits, waits for somebody. The goroutines are all spawned together, *)
(* startCh is closed by then, and runTaskLogic waits only after that.      *)
(***************************************************************************)
SpawnInv ==
    IF proxy = "none"
      THEN pc # "wait" /\ pc # "remove"
      ELSE /\ chan[0] = "nil"
           /\ \A i \in Steps : stepPc[i] # "unborn"
           /\ \A k \in Artifacts : artPc[k] # "unborn"

\* A goroutine blocked on a channel that is not closed yet.
StepWaits(i) == stepPc[i] = "deps" /\ ~Ready(chan[DepOf(i)])
ArtWaits(k) == artPc[k] = "deps" /\ ~Ready(chan[LastCh])
GatherWaits == nextCh = "open" /\ ~Ready(Leaf(gathered + 1))
SomebodyWaits ==
    \/ \E i \in Steps : StepWaits(i)
    \/ \E k \in Artifacts : ArtWaits(k)
    \/ GatherWaits

\* One that is spawned, has not ended and is blocked on none.
StepActive(i) == stepPc[i] \notin {"unborn", "done"} /\ ~StepWaits(i)
ArtActive(k) == artPc[k] \notin {"unborn", "done"} /\ ~ArtWaits(k)
SomebodyActive == (\E i \in Steps : StepActive(i)) \/ (\E k \in Artifacts : ArtActive(k))

(***************************************************************************)
(* The channels never close a circle: runTaskLogic waits only for          *)
(* goroutines it has spawned, and while a step, an artifact or the         *)
(* gathering goroutine waits for a channel, some goroutine of the run is   *)
(* at work and waits for none.                                             *)
(***************************************************************************)
NobodyWaitsInVain ==
    /\ pc = "wait" => proxy # "none"
    /\ proxy # "none" /\ SomebodyWaits => SomebodyActive

\* What a step that neither spawns nor moves runTaskLogic to its select has
\* to leave alone.
LEMMA SpawnStays ==
    ASSUME SpawnInv, proxy' = "none" <=> proxy = "none",
           pc' \in {"wait", "remove"} => pc \in {"wait", "remove"},
           chan[0] = "nil" => chan'[0] = "nil",
           \A i \in Steps : stepPc'[i] = "unborn" => stepPc[i] = "unborn",
           \A k \in Artifacts : artPc'[k] = "unborn" => artPc[k] = "unborn"
    PROVE  SpawnInv'
BY DEF SpawnInv

\* Every step of the run preserves SpawnInv.
LEMMA NextSpawnInv == IndInv /\ SpawnInv /\ [Next]_vars => SpawnInv'
<1> SUFFICES ASSUME IndInv, SpawnInv, [Next]_vars PROVE SpawnInv'
  OBVIOUS
<1>typ. /\ stepPc \in [Steps -> {"unborn", "pull", "deps", "env", "create", "run",
                                 "remove", "done"}]
        /\ chan \in [0 .. NSteps -> Channel]
        /\ artPc \in [Artifacts -> {"unborn", "deps", "upload", "done"}]
        /\ Steps = 1 .. NSteps /\ NSteps \in Nat /\ 0 \in 0 .. NSteps
  BY Sizes DEF IndInv, TypeOK, StepTypeOK, ArtTypeOK, Steps
<1>same. ASSUME UNCHANGED <<stepPc, chan, artPc>>, proxy' = "none" <=> proxy = "none",
                pc' \in {"wait", "remove"} => pc \in {"wait", "remove"}
         PROVE  SpawnInv'
  BY <1>same, SpawnStays
<1>1. CASE Unmarshal \/ SandboxCreate \/ PullProxy \/ CtxCancel \/ CtxExpires \/ CloseSandbox
  BY <1>1, <1>same DEF Unmarshal, SandboxCreate, PullProxy, CtxCancel, CtxExpires,
     CloseSandbox, stepVars, artVars
<1>2. CASE RecvNext \/ RecvExit
  BY <1>2, <1>same DEF RecvNext, RecvExit, stepVars, artVars
<1>3. CASE RemoveProxy
  <2>1. proxy # "none" /\ proxy' # "none"
    BY <1>3 DEF RemoveProxy, SpawnInv
  <2> QED
    BY <1>3, <2>1, <1>same DEF RemoveProxy, stepVars, artVars
<1>4. CASE CreateProxy
  <2>1. CASE UNCHANGED <<proxy, stepPc, artPc, chan>> /\ pc' = "close"
    BY <2>1, <1>same
  <2>2. CASE /\ proxy' = "up"
             /\ stepPc' = [i \in Steps |-> IF i \in PullSteps THEN "pull" ELSE "deps"]
             /\ artPc' = [k \in Artifacts |-> "deps"]
             /\ chan' = [chan EXCEPT ![0] = "nil"]
    BY <2>2, <1>typ DEF SpawnInv
  <2> QED
    BY <1>4, <2>1, <2>2 DEF CreateProxy
<1>5. ASSUME NEW i \in Steps, Step(i) PROVE SpawnInv'
  <2>1. PICK l \in {"deps", "env", "create", "run", "remove", "done"} :
           stepPc' = [stepPc EXCEPT ![i] = l]
    BY <1>5 DEF Step, StepPull, StepRecvDep, StepEnv, StepCreate, StepRun, StepRemove,
       StepEnds, StepGoesTo, ResolveValueFrom
  <2>2. UNCHANGED <<proxy, pc, artPc>>
    BY <1>5 DEF Step, StepPull, StepRecvDep, StepEnv, StepCreate, StepRun, StepRemove,
       mainVars, artVars
  <2>3. chan[0] = "nil" => chan'[0] = "nil"
    <3>1. \/ UNCHANGED chan
          \/ \E e \in BOOLEAN : chan' = [chan EXCEPT ![i] = Posted(e)]
          \/ /\ chan[DepOf(i)] = "err"
             /\ chan' = [chan EXCEPT ![DepOf(i)] = "drained", ![i] = "err"]
      <4>1. stepErr[i] \in BOOLEAN
        BY DEF IndInv, TypeOK, StepTypeOK
      <4> QED
        BY <1>5, <4>1 DEF Step, StepPull, StepRecvDep, StepEnv, StepCreate, StepRun,
           StepRemove, StepEnds, StepGoesTo, ResolveValueFrom
    <3>2. i # 0 /\ DepOf(i) \in 0 .. NSteps
      BY <1>typ DEF DepOf
    <3> QED
      BY <1>typ, <3>1, <3>2
  <2> QED
    BY <1>typ, <2>1, <2>2, <2>3, SpawnStays
<1>6. ASSUME NEW k \in Artifacts, Artifact(k) PROVE SpawnInv'
  <2>1. PICK l \in {"upload", "done"} : artPc' = [artPc EXCEPT ![k] = l]
    BY <1>6 DEF Artifact, ArtRecvDep, ArtUpload, ArtEnds
  <2>2. UNCHANGED <<proxy, pc, stepPc>>
    BY <1>6 DEF Artifact, ArtRecvDep, ArtUpload, mainVars, stepVars
  <2>3. UNCHANGED chan \/ chan' = [chan EXCEPT ![LastCh] = Received(chan[LastCh])]
    BY <1>6 DEF Artifact, ArtRecvDep, ArtUpload
  <2> QED
    BY <1>typ, <2>1, <2>2, <2>3, SpawnStays DEF Received
<1>7. CASE Gather
  <2>1. UNCHANGED <<proxy, pc, stepPc, artPc>>
    BY <1>7 DEF Gather, mainVars, stepVars
  <2>2. UNCHANGED chan \/ chan' = [chan EXCEPT ![LastCh] = Received(chan[LastCh])]
    BY <1>7 DEF Gather
  <2> QED
    BY <1>typ, <2>1, <2>2, SpawnStays DEF Received
<1>8. CASE ProxyExits \/ Terminated \/ UNCHANGED vars
  BY <1>8, <1>same DEF ProxyExits, Terminated, vars, mainVars, stepVars, artVars
<1> QED
  BY <1>1, <1>2, <1>3, <1>4, <1>5, <1>6, <1>7, <1>8 DEF Next

\* Among the steps that have not ended there is a first one.
LEMMA FirstUnfinished ==
    ASSUME \E i \in Steps : stepPc[i] # "done"
    PROVE  \E i \in Steps : /\ stepPc[i] # "done"
                            /\ \A j \in Steps : j < i => stepPc[j] = "done"
<1> DEFINE I == {i \in Steps : stepPc[i] # "done"}
           R == OpToRel(<, Nat)
<1>1. I \in SUBSET Nat /\ I # {}
  BY Sizes DEF Steps
<1>2. IsWellFoundedOn(R, Nat)
  BY NatLessThanWellFounded
<1>3. \A x, y \in Nat : <<y, x>> \in R <=> y < x
  BY DEF OpToRel
<1> HIDE DEF R
<1>4. PICK i \in I : \A j \in I : <<j, i>> \notin R
  BY <1>1, <1>2, WFMin
<1>5. \A j \in I : ~(j < i)
  BY <1>1, <1>3, <1>4, Zenon
<1> QED
  BY <1>4, <1>5

(***************************************************************************)
(* The first step that has not ended is never blocked: the step before it  *)
(* has closed its channel, and startCh is closed. When every step has      *)
(* ended no artifact is blocked either, and an artifact the gathering      *)
(* goroutine waits for is one that has not ended.                          *)
(***************************************************************************)
LEMMA WaitsEnd == IndInv /\ SpawnInv => NobodyWaitsInVain
<1> SUFFICES ASSUME IndInv, SpawnInv, proxy # "none", SomebodyWaits PROVE SomebodyActive
  BY DEF NobodyWaitsInVain, SpawnInv
<1>typ. Steps = 1 .. NSteps /\ NSteps \in Nat /\ LastCh = NSteps
  BY Sizes DEF Steps, LastCh
<1>up. chan[0] = "nil" /\ (\A i \in Steps : stepPc[i] # "unborn")
       /\ \A k \in Artifacts : artPc[k] # "unborn"
  BY DEF SpawnInv
<1>ch. \A i \in Steps : chan[i] # "open" <=> stepPc[i] = "done"
  BY DEF IndInv, ChannelInv
<1>1. CASE \E i \in Steps : stepPc[i] # "done"
  <2>1. PICK i \in Steps : /\ stepPc[i] # "done"
                           /\ \A j \in Steps : j < i => stepPc[j] = "done"
    BY <1>1, FirstUnfinished
  <2>2. i = 1 \/ (i - 1 \in Steps /\ i - 1 < i)
    BY <1>typ
  <2>3. Ready(chan[DepOf(i)])
    BY <1>up, <1>ch, <2>1, <2>2 DEF Ready, DepOf
  <2> QED
    BY <1>up, <2>1, <2>3 DEF SomebodyActive, StepActive, StepWaits
<1>2. CASE \A i \in Steps : stepPc[i] = "done"
  <2>1. Ready(chan[LastCh])
    <3>1. NSteps = 0 \/ NSteps \in Steps
      BY <1>typ
    <3> QED
      BY <3>1, <1>typ, <1>up, <1>ch, <1>2 DEF Ready
  <2>2. GatherWaits
    BY <1>2, <2>1 DEF SomebodyWaits, StepWaits, ArtWaits
  <2>3. NArtifacts # 0 /\ artChan[gathered + 1] = "open"
    BY <2>1, <2>2 DEF GatherWaits, Leaf, Ready
  <2>4. gathered + 1 \in Artifacts
    <3>1. gathered \in 0 .. NLeaves /\ gathered < NLeaves
      BY <2>2 DEF GatherWaits, IndInv, TypeOK, ArtTypeOK, GatherInv
    <3> QED
      BY <3>1, <2>3, Sizes DEF Artifacts
  <2>5. artPc[gathered + 1] # "done"
    BY <2>3, <2>4 DEF IndInv, ArtifactInv
  <2> QED
    BY <1>up, <2>1, <2>4, <2>5 DEF SomebodyActive, ArtActive, ArtWaits
<1> QED
  BY <1>1, <1>2

\* Nobody waits in vain, for any number of steps and artifacts: what can keep
\* a run from its end is a call that does not return, never the channels.
THEOREM NoCircularWait == Spec => []NobodyWaitsInVain
<1>1. Init => SpawnInv
  BY DEF Init, SpawnInv
<1>2. Spec => [](IndInv /\ SpawnInv)
  BY <1>1, InitIndInv, NextIndInv, NextSpawnInv, PTL DEF Spec
<1> QED
  BY <1>2, WaitsEnd, PTL

=============================================================================
