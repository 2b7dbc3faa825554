---------------------------- MODULE WorkerProofs ----------------------------
(***************************************************************************)
(* Proofs about Worker, for every set of tasks and every ConcurrentTasks.  *)
(***************************************************************************)
EXTENDS Worker, SequenceTheorems, FiniteSetTheorems, TLAPS

(***************************************************************************)
(* Sequences without repetitions: the stack freeSlots loses its last       *)
(* element, the channel completedTasks its first, and both gain elements   *)
(* they do not contain.                                                    *)
(***************************************************************************)

\* Popping the last element of a stack of distinct elements.
LEMMA PopLast ==
    ASSUME NEW S, NEW s \in Seq(S), Len(s) > 0, Distinct(s)
    PROVE  LET f == SubSeq(s, 1, Len(s) - 1)
               e == s[Len(s)]
           IN  /\ f \in Seq(S) /\ Len(f) = Len(s) - 1 /\ Distinct(f)
               /\ e \in S /\ e \in Elements(s)
               /\ Elements(f) = Elements(s) \ {e}
<1> DEFINE f == SubSeq(s, 1, Len(s) - 1)
           n == Len(s)
<1>1. n \in Nat /\ s \in [1 .. n -> S]
  BY LenProperties
<1>2. /\ f \in Seq(S) /\ Len(f) = n - 1
      /\ \A i \in 1 .. n - 1 : f[i] = s[i]
  <2>1. \A i \in 1 .. n - 1 : s[i] \in S
    BY <1>1
  <2> QED
    BY <1>1, <2>1, SubSeqProperties
<1>3. Distinct(f)
  BY <1>1, <1>2 DEF Distinct
<1>4. s[n] \in S /\ s[n] \in Elements(s)
  BY <1>1 DEF Elements
<1>5. Elements(f) = Elements(s) \ {s[n]}
  <2>1. ASSUME NEW x \in Elements(s) \ {s[n]}
        PROVE  x \in Elements(f)
    <3>1. PICK i \in 1 .. n : x = s[i]
      BY DEF Elements
    <3>2. i \in 1 .. n - 1 /\ f[i] = x
      BY <1>1, <1>2, <3>1
    <3> QED
      BY <1>2, <3>2 DEF Elements
  <2>2. ASSUME NEW x \in Elements(f)
        PROVE  x \in Elements(s) \ {s[n]}
    <3>1. PICK i \in 1 .. n - 1 : x = s[i]
      BY <1>2 DEF Elements
    <3> HIDE DEF f
    <3> QED
      BY <1>1, <3>1 DEF Elements, Distinct
  <2> QED
    BY <2>1, <2>2
<1> QED
  BY <1>2, <1>3, <1>4, <1>5

\* Receiving the first element of a channel of distinct elements.
LEMMA PopFirst ==
    ASSUME NEW S, NEW s \in Seq(S), s # << >>, Distinct(s)
    PROVE  /\ Tail(s) \in Seq(S) /\ Len(s) \in Nat /\ Len(s) > 0
           /\ Len(Tail(s)) = Len(s) - 1
           /\ Distinct(Tail(s))
           /\ Head(s) \in S /\ Head(s) \in Elements(s)
           /\ Elements(Tail(s)) = Elements(s) \ {Head(s)}
<1>1. /\ Len(s) \in Nat \ {0} /\ Head(s) = s[1]
      /\ s \in [1 .. Len(s) -> S]
  BY EmptySeq, LenProperties
<1>2. /\ Tail(s) \in Seq(S) /\ Len(Tail(s)) = Len(s) - 1
      /\ \A i \in 1 .. Len(s) - 1 : Tail(s)[i] = s[i + 1]
  BY HeadTailProperties
<1>3. Distinct(Tail(s))
  BY <1>1, <1>2 DEF Distinct
<1>4. Head(s) \in S /\ Head(s) \in Elements(s)
  BY <1>1 DEF Elements
<1>5. Elements(Tail(s)) = Elements(s) \ {Head(s)}
  <2>1. ASSUME NEW x \in Elements(s) \ {Head(s)}
        PROVE  x \in Elements(Tail(s))
    <3>1. PICK i \in 1 .. Len(s) : x = s[i]
      BY DEF Elements
    <3>2. i - 1 \in 1 .. Len(s) - 1 /\ Tail(s)[i - 1] = x
      BY <1>1, <1>2, <3>1
    <3> QED
      BY <1>2, <3>2 DEF Elements
  <2>2. ASSUME NEW x \in Elements(Tail(s))
        PROVE  x \in Elements(s) \ {Head(s)}
    <3>1. PICK i \in 1 .. Len(s) - 1 : x = s[i + 1]
      BY <1>2 DEF Elements
    <3> QED
      BY <1>1, <3>1 DEF Elements, Distinct
  <2> QED
    BY <2>1, <2>2
<1> QED
  BY <1>1, <1>2, <1>3, <1>4, <1>5

\* Adding an element that is not there yet.
LEMMA AddNew ==
    ASSUME NEW S, NEW s \in Seq(S), Distinct(s), NEW e \in S, e \notin Elements(s)
    PROVE  /\ Append(s, e) \in Seq(S) /\ Len(Append(s, e)) = Len(s) + 1
           /\ Len(s) \in Nat
           /\ Distinct(Append(s, e))
           /\ Elements(Append(s, e)) = Elements(s) \cup {e}
<1>1. /\ Append(s, e) \in Seq(S) /\ Len(Append(s, e)) = Len(s) + 1
      /\ \A i \in 1 .. Len(s) : Append(s, e)[i] = s[i]
      /\ Append(s, e)[Len(s) + 1] = e
      /\ Len(s) \in Nat
  BY AppendProperties, LenProperties
<1>2. \A i \in 1 .. Len(s) + 1 : i \in 1 .. Len(s) \/ i = Len(s) + 1
  BY <1>1
<1>3. Distinct(Append(s, e))
  BY <1>1, <1>2 DEF Distinct, Elements
<1>4. Elements(Append(s, e)) = Elements(s) \cup {e}
  <2>1. Len(s) + 1 \in 1 .. Len(s) + 1 /\ 1 .. Len(s) \subseteq 1 .. Len(s) + 1
    BY <1>1
  <2> QED
    BY <1>1, <1>2, <2>1 DEF Elements
<1> QED
  BY <1>1, <1>3, <1>4

(***************************************************************************)
(* Counting: the slots that run a task are finitely many, one more when a  *)
(* task starts on a slot, one fewer when it returns.                       *)
(***************************************************************************)

\* The number of slots is a natural number.
LEMMA SlotsFinite == IsFiniteSet(Slots) /\ Cardinality(Slots) = ConcurrentTasks
<1>1. 0 \in Int /\ ConcurrentTasks - 1 \in Int /\ 0 <= ConcurrentTasks - 1
  BY ConcurrencyAssumption
<1> QED
  BY <1>1, FS_Interval, ConcurrencyAssumption DEF Slots

\* The busy slots are finitely many.
LEMMA BusyFinite == IsFiniteSet(Busy) /\ Cardinality(Busy) \in Nat
<1>1. Busy \subseteq Slots
  BY DEF Busy
<1> QED
  BY <1>1, SlotsFinite, FS_Subset, FS_CardinalityType

\* A set of tasks is finite.
LEMMA TasksFinite ==
    ASSUME NEW S \in SUBSET Tasks
    PROVE  IsFiniteSet(S) /\ Cardinality(S) \in Nat
BY TasksAssumption, FS_Subset, FS_CardinalityType

(***************************************************************************)
(* The initial state.                                                      *)
(***************************************************************************)

\* Before the first request every slot is free, in order.
LEMMA InitIndInv == Init => IndInv
<1> SUFFICES ASSUME Init PROVE IndInv
  OBVIOUS
<1> USE ConcurrencyAssumption
<1>1. /\ freeSlots \in Seq(Slots) /\ Len(freeSlots) = ConcurrentTasks
      /\ \A i \in 1 .. ConcurrentTasks : freeSlots[i] = i - 1
  BY DEF Init, Slots
<1>2. completedTasks \in Seq(Slots) /\ Len(completedTasks) = 0
  BY DEF Init
<1>3. Busy = {}
  BY DEF Init, Busy
<1>4. TypeOK
  <2>1. running \in [Slots -> Tasks \cup {NoTask}]
    BY DEF Init
  <2>2. fate \in [Tasks -> {"queued", "claimed", "running", "finished", "dropped"}]
    BY DEF Init
  <2>3. /\ toSend \in 0 .. ConcurrentTasks /\ req \in 0 .. ConcurrentTasks
        /\ signals \in 0 .. 2 /\ pend \in SUBSET Tasks /\ resp \in SUBSET Tasks
        /\ asked \in SUBSET Packets
    BY DEF Init
  <2>4. stopBuf \in {<< >>, <<TRUE>>, <<FALSE>>}
    BY DEF Init
  <2> QED
    BY <1>1, <1>2, <2>1, <2>2, <2>3, <2>4, Zenon
    DEF Init, TypeOK, LoopTypeOK, ClaimTypeOK, TaskTypeOK, StopTypeOK
<1>5. Elements(completedTasks) = {} /\ Distinct(completedTasks)
  BY <1>2 DEF Elements, Distinct
<1>6. Elements(freeSlots) = Slots
  <2>1. ASSUME NEW s \in Slots PROVE s \in Elements(freeSlots)
    <3>1. s + 1 \in 1 .. ConcurrentTasks /\ freeSlots[s + 1] = s
      BY <1>1 DEF Slots
    <3> QED
      BY <1>1, <3>1 DEF Elements
  <2>2. ASSUME NEW s \in Elements(freeSlots) PROVE s \in Slots
    BY <1>1 DEF Elements, Slots
  <2> QED
    BY <2>1, <2>2
<1>7. Distinct(freeSlots)
  BY <1>1 DEF Distinct
<1>8. SlotsAccounted
  BY <1>3, <1>5, <1>6, <1>7 DEF SlotsAccounted
<1>9. CountInv
  BY <1>1, <1>2, <1>3, FS_EmptySet DEF CountInv
<1>10. HandshakeInv
  BY <1>1, FS_EmptySet DEF Init, HandshakeInv, Live
<1>11. IdleInv
  BY <1>1 DEF Init, IdleInv, Idle
<1> QED
  BY <1>4, <1>8, <1>9, <1>10, <1>11 DEF IndInv

(***************************************************************************)
(* The steps that move slots.                                              *)
(***************************************************************************)

\* Steps that move no slot.
LEMMA NoSlotMoves ==
    ASSUME SlotsAccounted, CountInv, UNCHANGED <<freeSlots, completedTasks, running>>
    PROVE  SlotsAccounted' /\ CountInv'
<1>1. Busy' = Busy
  BY DEF Busy
<1>2. SlotsAccounted'
  <2>1. /\ Elements(freeSlots)' = Elements(freeSlots)
        /\ Elements(completedTasks)' = Elements(completedTasks)
    BY DEF Elements
  <2>2. /\ Distinct(freeSlots)' <=> Distinct(freeSlots)
        /\ Distinct(completedTasks)' <=> Distinct(completedTasks)
    BY DEF Distinct
  <2> QED
    BY <1>1, <2>1, <2>2, Zenon DEF SlotsAccounted
<1>3. CountInv'
  BY <1>1 DEF CountInv
<1> QED
  BY <1>2, <1>3

\* The main loop takes a slot back from completedTasks.
LEMMA SlotComesBack ==
    ASSUME TypeOK, SlotsAccounted, CountInv, RecvCompleted
    PROVE  /\ freeSlots' \in Seq(Slots) /\ completedTasks' \in Seq(Slots)
           /\ Len(freeSlots') = Len(freeSlots) + 1
           /\ SlotsAccounted' /\ CountInv'
<1> DEFINE idx == Head(completedTasks)
<1>1. completedTasks # << >> /\ completedTasks' = Tail(completedTasks)
      /\ freeSlots' = Append(freeSlots, idx) /\ running' = running
  BY DEF RecvCompleted
<1>2. freeSlots \in Seq(Slots) /\ completedTasks \in Seq(Slots)
  BY DEF TypeOK, LoopTypeOK, TaskTypeOK
<1>3. /\ completedTasks' \in Seq(Slots) /\ Len(completedTasks) \in Nat
      /\ Len(completedTasks') = Len(completedTasks) - 1
      /\ Distinct(completedTasks')
      /\ idx \in Slots /\ idx \in Elements(completedTasks)
      /\ Elements(completedTasks') = Elements(completedTasks) \ {idx}
  BY <1>1, <1>2, PopFirst DEF SlotsAccounted
<1>4. idx \notin Elements(freeSlots)
  BY <1>3 DEF SlotsAccounted
<1>5. /\ freeSlots' \in Seq(Slots) /\ Len(freeSlots') = Len(freeSlots) + 1
      /\ Len(freeSlots) \in Nat
      /\ Distinct(freeSlots')
      /\ Elements(freeSlots') = Elements(freeSlots) \cup {idx}
  BY <1>1, <1>2, <1>3, <1>4, AddNew DEF SlotsAccounted
<1>6. Busy' = Busy
  BY <1>1 DEF Busy
<1>7. SlotsAccounted'
  <2> HIDE DEF idx
  <2> QED
    BY <1>3, <1>5, <1>6 DEF SlotsAccounted
<1>8. CountInv'
  BY <1>3, <1>5, <1>6, BusyFinite DEF CountInv
<1> QED
  BY <1>3, <1>5, <1>7, <1>8

\* The main loop starts a task on the last free slot.
LEMMA SlotStarts ==
    ASSUME TypeOK, SlotsAccounted, CountInv, Len(freeSlots) > 0,
           NEW t \in Tasks, StartTask(t)
    PROVE  /\ freeSlots' \in Seq(Slots) /\ Len(freeSlots') = Len(freeSlots) - 1
           /\ NextSlot \in Slots /\ running[NextSlot] = NoTask
           /\ running' \in [Slots -> Tasks \cup {NoTask}]
           /\ SlotsAccounted' /\ CountInv'
<1>1. /\ freeSlots' = SubSeq(freeSlots, 1, Len(freeSlots) - 1)
      /\ running' = [running EXCEPT ![NextSlot] = t]
      /\ completedTasks' = completedTasks
  BY DEF StartTask
<1>2. freeSlots \in Seq(Slots) /\ running \in [Slots -> Tasks \cup {NoTask}]
  BY DEF TypeOK, LoopTypeOK, TaskTypeOK
<1>3. /\ freeSlots' \in Seq(Slots) /\ Len(freeSlots') = Len(freeSlots) - 1
      /\ Distinct(freeSlots')
      /\ NextSlot \in Slots /\ NextSlot \in Elements(freeSlots)
      /\ Elements(freeSlots') = Elements(freeSlots) \ {NextSlot}
  BY <1>1, <1>2, PopLast DEF SlotsAccounted, NextSlot
<1>4. NextSlot \notin Busy /\ running[NextSlot] = NoTask
  BY <1>3 DEF SlotsAccounted, Busy
<1>5. running' \in [Slots -> Tasks \cup {NoTask}] /\ Busy' = Busy \cup {NextSlot}
  BY <1>1, <1>2, <1>3, TasksAssumption DEF Busy
<1>6. SlotsAccounted'
  <2>1. Distinct(completedTasks') /\ Elements(completedTasks') = Elements(completedTasks)
    BY <1>1 DEF SlotsAccounted, Distinct, Elements
  <2> QED
    BY <1>3, <1>5, <2>1 DEF SlotsAccounted
<1>7. Cardinality(Busy') = Cardinality(Busy) + 1
  BY <1>4, <1>5, BusyFinite, FS_AddElement
<1>8. Len(freeSlots) \in Nat /\ Len(completedTasks) \in Nat
  BY LenProperties DEF TypeOK, LoopTypeOK, TaskTypeOK
<1>9. CountInv'
  <2>1. Len(completedTasks') = Len(completedTasks)
    BY <1>1
  <2>2. Len(freeSlots') = Len(freeSlots) - 1
    BY <1>3
  <2> QED
    BY <1>7, <1>8, <2>1, <2>2, BusyFinite DEF CountInv
<1> QED
  BY <1>3, <1>4, <1>5, <1>6, <1>9

\* A task goroutine hands its slot to completedTasks.
LEMMA SlotReturns ==
    ASSUME TypeOK, SlotsAccounted, CountInv, NEW s \in Slots, TaskReturns(s)
    PROVE  /\ completedTasks' \in Seq(Slots)
           /\ running' \in [Slots -> Tasks \cup {NoTask}]
           /\ SlotsAccounted' /\ CountInv'
<1>1. /\ completedTasks' = Append(completedTasks, s)
      /\ running' = [running EXCEPT ![s] = NoTask]
      /\ freeSlots' = freeSlots /\ running[s] # NoTask
  BY DEF TaskReturns, loopVars
<1>2. completedTasks \in Seq(Slots) /\ running \in [Slots -> Tasks \cup {NoTask}]
  BY DEF TypeOK, LoopTypeOK, TaskTypeOK
<1>3. s \in Busy
  BY <1>1 DEF Busy
<1>4. /\ completedTasks' \in Seq(Slots)
      /\ Len(completedTasks') = Len(completedTasks) + 1
      /\ Len(completedTasks) \in Nat
      /\ Distinct(completedTasks')
      /\ Elements(completedTasks') = Elements(completedTasks) \cup {s}
  <2>1. s \notin Elements(completedTasks)
    BY <1>3 DEF SlotsAccounted
  <2> QED
    BY <1>1, <1>2, <2>1, AddNew DEF SlotsAccounted
<1>5. running' \in [Slots -> Tasks \cup {NoTask}] /\ Busy' = Busy \ {s}
  BY <1>1, <1>2 DEF Busy
<1>6. SlotsAccounted'
  <2>1. Distinct(freeSlots') /\ Elements(freeSlots') = Elements(freeSlots)
    BY <1>1 DEF SlotsAccounted, Distinct, Elements
  <2> QED
    BY <1>3, <1>4, <1>5, <2>1 DEF SlotsAccounted
<1>7. Cardinality(Busy') = Cardinality(Busy) - 1
  BY <1>3, <1>5, BusyFinite, FS_RemoveElement
<1>8. Len(freeSlots) \in Nat
  BY LenProperties DEF TypeOK, LoopTypeOK, TaskTypeOK
<1>9. CountInv'
  BY <1>1, <1>4, <1>7, <1>8, BusyFinite DEF CountInv
<1> QED
  BY <1>4, <1>5, <1>6, <1>9

(***************************************************************************)
(* The inductive step, one case per action. A group of variables that a    *)
(* step leaves alone keeps its types.                                      *)
(***************************************************************************)

\* An unchanged group of variables keeps its types.
LEMMA GroupsUnchanged ==
    /\ LoopTypeOK /\ UNCHANGED loopVars => LoopTypeOK'
    /\ ClaimTypeOK /\ UNCHANGED claimVars => ClaimTypeOK'
    /\ TaskTypeOK /\ UNCHANGED taskVars => TaskTypeOK'
    /\ StopTypeOK /\ UNCHANGED stopVars => StopTypeOK'
<1>1. LoopTypeOK /\ UNCHANGED loopVars => LoopTypeOK'
  BY Zenon DEF LoopTypeOK, loopVars
<1>2. ClaimTypeOK /\ UNCHANGED claimVars => ClaimTypeOK'
  BY Zenon DEF ClaimTypeOK, claimVars
<1>3. TaskTypeOK /\ UNCHANGED taskVars => TaskTypeOK'
  BY Zenon DEF TaskTypeOK, taskVars
<1>4. StopTypeOK /\ UNCHANGED stopVars => StopTypeOK'
  BY Zenon DEF StopTypeOK, stopVars
<1> QED
  BY <1>1, <1>2, <1>3, <1>4

\* Every step of the program preserves IndInv.
LEMMA NextIndInv == IndInv /\ [Next]_vars => IndInv'
<1> SUFFICES ASSUME IndInv, [Next]_vars PROVE IndInv'
  OBVIOUS
<1>inv. TypeOK /\ SlotsAccounted /\ CountInv /\ HandshakeInv /\ IdleInv
  BY DEF IndInv
<1>len. /\ Len(freeSlots) \in Nat /\ Len(completedTasks) \in Nat
        /\ Len(freeSlots) + Len(completedTasks) <= ConcurrentTasks
  <2>1. Len(freeSlots) \in Nat /\ Len(completedTasks) \in Nat
    BY <1>inv, LenProperties DEF TypeOK, LoopTypeOK, TaskTypeOK
  <2> QED
    BY <1>inv, <2>1, BusyFinite DEF CountInv
<1>typ. LoopTypeOK /\ ClaimTypeOK /\ TaskTypeOK /\ StopTypeOK
  BY <1>inv DEF TypeOK
<1> USE ConcurrencyAssumption DEF Live
<1>1. CASE SendRequest
  <2>1. UNCHANGED <<freeSlots, completedTasks, running>>
    BY <1>1 DEF SendRequest, loopVars, taskVars, vars
  <2>2. SlotsAccounted' /\ CountInv'
    BY <1>inv, <2>1, NoSlotMoves
  <2>3. TypeOK'
    <3>1. TaskTypeOK' /\ StopTypeOK'
      BY <1>typ, <1>1, GroupsUnchanged DEF SendRequest, vars
    <3>2. LoopTypeOK'
      BY <1>typ, <1>1 DEF SendRequest, LoopTypeOK
    <3>3. ClaimTypeOK'
      BY <1>typ, <1>1 DEF SendRequest, ClaimTypeOK, LoopTypeOK
    <3> QED
      BY <3>1, <3>2, <3>3 DEF TypeOK
  <2>4. HandshakeInv'
    BY <1>inv, <1>len, <1>typ, <1>1
    DEF SendRequest, HandshakeInv, Wanted, LoopTypeOK, ClaimTypeOK, vars, loopVars, claimVars
  <2>5. IdleInv'
    BY <1>inv, <1>1 DEF SendRequest, IdleInv, Idle, vars, loopVars
  <2> QED
    BY <2>2, <2>3, <2>4, <2>5 DEF IndInv
<1>2. CASE RecvCtxDone
  <2>1. UNCHANGED <<freeSlots, completedTasks, running>>
    BY <1>2 DEF RecvCtxDone, loopVars, taskVars, vars
  <2>2. SlotsAccounted' /\ CountInv'
    BY <1>inv, <2>1, NoSlotMoves
  <2>3. TypeOK'
    <3>1. ClaimTypeOK' /\ TaskTypeOK' /\ StopTypeOK'
      BY <1>typ, <1>2, GroupsUnchanged DEF RecvCtxDone, vars
    <3>2. LoopTypeOK'
      BY <1>typ, <1>2 DEF RecvCtxDone, LoopTypeOK
    <3> QED
      BY <3>1, <3>2 DEF TypeOK
  <2>4. HandshakeInv'
    BY <1>inv, <1>len, <1>typ, <1>2
    DEF RecvCtxDone, HandshakeInv, Wanted, LoopTypeOK, ClaimTypeOK, vars, loopVars, claimVars
  <2>5. IdleInv'
    BY <1>inv, <1>2 DEF RecvCtxDone, IdleInv, Idle, vars, loopVars
  <2> QED
    BY <2>2, <2>3, <2>4, <2>5 DEF IndInv
<1>3. CASE RecvStop
  <2>1. UNCHANGED <<freeSlots, completedTasks, running>>
    BY <1>3 DEF RecvStop, loopVars, taskVars, vars
  <2>2. SlotsAccounted' /\ CountInv'
    BY <1>inv, <2>1, NoSlotMoves
  <2>3. TypeOK'
    <3>1. ClaimTypeOK' /\ TaskTypeOK'
      BY <1>typ, <1>3, GroupsUnchanged DEF RecvStop, vars
    <3>2. LoopTypeOK'
      BY <1>typ, <1>3 DEF RecvStop, LoopTypeOK
    <3>3. StopTypeOK'
      BY <1>typ, <1>3 DEF RecvStop, StopTypeOK
    <3> QED
      BY <3>1, <3>2, <3>3 DEF TypeOK
  <2>4. HandshakeInv'
    BY <1>inv, <1>len, <1>typ, <1>3
    DEF RecvStop, HandshakeInv, Wanted, LoopTypeOK, ClaimTypeOK, vars, loopVars, claimVars
  <2>5. IdleInv'
    BY <1>inv, <1>3 DEF RecvStop, IdleInv, Idle, vars, loopVars
  <2> QED
    BY <2>2, <2>3, <2>4, <2>5 DEF IndInv
<1>4. CASE RecvClosed
  <2>1. UNCHANGED <<freeSlots, completedTasks, running>>
    BY <1>4 DEF RecvClosed, loopVars, taskVars, vars
  <2>2. SlotsAccounted' /\ CountInv'
    BY <1>inv, <2>1, NoSlotMoves
  <2>3. TypeOK'
    <3>1. ClaimTypeOK' /\ TaskTypeOK' /\ StopTypeOK'
      BY <1>typ, <1>4, GroupsUnchanged DEF RecvClosed, vars
    <3>2. LoopTypeOK'
      BY <1>typ, <1>4 DEF RecvClosed, LoopTypeOK
    <3> QED
      BY <3>1, <3>2 DEF TypeOK
  <2>4. HandshakeInv'
    BY <1>inv, <1>len, <1>typ, <1>4
    DEF RecvClosed, HandshakeInv, Wanted, LoopTypeOK, ClaimTypeOK, vars, loopVars, claimVars
  <2>5. IdleInv'
    BY <1>inv, <1>4 DEF RecvClosed, IdleInv, Idle, vars, loopVars
  <2> QED
    BY <2>2, <2>3, <2>4, <2>5 DEF IndInv
<1>5. CASE AskForMore
  <2>1. UNCHANGED <<freeSlots, completedTasks, running>>
    BY <1>5 DEF AskForMore, loopVars, taskVars, vars
  <2>2. SlotsAccounted' /\ CountInv'
    BY <1>inv, <2>1, NoSlotMoves
  <2>3. TypeOK'
    <3>1. ClaimTypeOK' /\ TaskTypeOK' /\ StopTypeOK'
      BY <1>typ, <1>5, GroupsUnchanged DEF AskForMore, vars
    <3>2. toSend' \in 0 .. ConcurrentTasks
      BY <1>typ, <1>len, <1>5 DEF AskForMore, LoopTypeOK, Wanted
    <3>3. LoopTypeOK'
      BY <1>typ, <1>5, <3>2, Zenon DEF AskForMore, LoopTypeOK
    <3> QED
      BY <3>1, <3>2, <3>3 DEF TypeOK
  <2>4. HandshakeInv'
    BY <1>inv, <1>len, <1>typ, <1>5
    DEF AskForMore, HandshakeInv, Wanted, LoopTypeOK, ClaimTypeOK, vars, loopVars, claimVars
  <2>5. IdleInv'
    BY <1>inv, <1>5 DEF AskForMore, IdleInv, Idle, vars, loopVars
  <2> QED
    BY <2>2, <2>3, <2>4, <2>5 DEF IndInv
<1>6. CASE IdleTimePasses
  <2>1. UNCHANGED <<freeSlots, completedTasks, running>>
    BY <1>6 DEF IdleTimePasses, loopVars, taskVars, vars
  <2>2. SlotsAccounted' /\ CountInv'
    BY <1>inv, <2>1, NoSlotMoves
  <2>3. TypeOK'
    <3>1. ClaimTypeOK' /\ TaskTypeOK' /\ StopTypeOK'
      BY <1>typ, <1>6, GroupsUnchanged DEF IdleTimePasses, vars
    <3>2. LoopTypeOK'
      BY <1>typ, <1>6 DEF IdleTimePasses, LoopTypeOK
    <3> QED
      BY <3>1, <3>2 DEF TypeOK
  <2>4. HandshakeInv'
    BY <1>inv, <1>len, <1>typ, <1>6
    DEF IdleTimePasses, HandshakeInv, Wanted, LoopTypeOK, ClaimTypeOK, vars, loopVars, claimVars
  <2>5. IdleInv'
    BY <1>inv, <1>6 DEF IdleTimePasses, IdleInv, Idle, vars, loopVars
  <2> QED
    BY <2>2, <2>3, <2>4, <2>5 DEF IndInv
<1>7. CASE ClaimFails
  <2>1. UNCHANGED <<freeSlots, completedTasks, running>>
    BY <1>7 DEF ClaimFails, loopVars, taskVars, vars
  <2>2. SlotsAccounted' /\ CountInv'
    BY <1>inv, <2>1, NoSlotMoves
  <2>3. TypeOK'
    <3>1. LoopTypeOK' /\ TaskTypeOK' /\ StopTypeOK'
      BY <1>typ, <1>7, GroupsUnchanged DEF ClaimFails, vars
    <3>2. ClaimTypeOK'
      BY <1>typ, <1>7 DEF ClaimFails, ClaimTypeOK
    <3> QED
      BY <3>1, <3>2 DEF TypeOK
  <2>4. HandshakeInv'
    BY <1>inv, <1>len, <1>typ, <1>7
    DEF ClaimFails, HandshakeInv, Wanted, LoopTypeOK, ClaimTypeOK, vars, loopVars, claimVars
  <2>5. IdleInv'
    BY <1>inv, <1>7 DEF ClaimFails, IdleInv, Idle, vars, loopVars
  <2> QED
    BY <2>2, <2>3, <2>4, <2>5 DEF IndInv
<1>8. CASE BackoffExpires
  <2>1. UNCHANGED <<freeSlots, completedTasks, running>>
    BY <1>8 DEF BackoffExpires, loopVars, taskVars, vars
  <2>2. SlotsAccounted' /\ CountInv'
    BY <1>inv, <2>1, NoSlotMoves
  <2>3. TypeOK'
    <3>1. LoopTypeOK' /\ TaskTypeOK' /\ StopTypeOK'
      BY <1>typ, <1>8, GroupsUnchanged DEF BackoffExpires, vars
    <3>2. ClaimTypeOK'
      BY <1>typ, <1>8 DEF BackoffExpires, ClaimTypeOK
    <3> QED
      BY <3>1, <3>2 DEF TypeOK
  <2>4. HandshakeInv'
    BY <1>inv, <1>len, <1>typ, <1>8
    DEF BackoffExpires, HandshakeInv, Wanted, LoopTypeOK, ClaimTypeOK, vars, loopVars, claimVars
  <2>5. IdleInv'
    BY <1>inv, <1>8 DEF BackoffExpires, IdleInv, Idle, vars, loopVars
  <2> QED
    BY <2>2, <2>3, <2>4, <2>5 DEF IndInv
<1>9. CASE BackoffCancelled
  <2>1. UNCHANGED <<freeSlots, completedTasks, running>>
    BY <1>9 DEF BackoffCancelled, loopVars, taskVars, vars
  <2>2. SlotsAccounted' /\ CountInv'
    BY <1>inv, <2>1, NoSlotMoves
  <2>3. TypeOK'
    <3>1. LoopTypeOK' /\ TaskTypeOK' /\ StopTypeOK'
      BY <1>typ, <1>9, GroupsUnchanged DEF BackoffCancelled, vars
    <3>2. ClaimTypeOK'
      BY <1>typ, <1>9 DEF BackoffCancelled, ClaimTypeOK
    <3> QED
      BY <3>1, <3>2 DEF TypeOK
  <2>4. HandshakeInv'
    BY <1>inv, <1>len, <1>typ, <1>9
    DEF BackoffCancelled, HandshakeInv, Wanted, LoopTypeOK, ClaimTypeOK, vars, loopVars, claimVars
  <2>5. IdleInv'
    BY <1>inv, <1>9 DEF BackoffCancelled, IdleInv, Idle, vars, loopVars
  <2> QED
    BY <2>2, <2>3, <2>4, <2>5 DEF IndInv
<1>10. CASE Signal
  <2>1. UNCHANGED <<freeSlots, completedTasks, running>>
    BY <1>10 DEF Signal, loopVars, taskVars, vars
  <2>2. SlotsAccounted' /\ CountInv'
    BY <1>inv, <2>1, NoSlotMoves
  <2>3. TypeOK'
    <3>1. LoopTypeOK' /\ ClaimTypeOK' /\ TaskTypeOK'
      BY <1>typ, <1>10, GroupsUnchanged DEF Signal, vars
    <3>2. signals' \in 0 .. 2
      BY <1>typ, <1>10 DEF Signal, StopTypeOK
    <3>3. StopTypeOK'
      BY <1>typ, <1>10, <3>2, Zenon DEF Signal, StopTypeOK
    <3> QED
      BY <3>1, <3>2, <3>3 DEF TypeOK
  <2>4. HandshakeInv'
    BY <1>inv, <1>len, <1>typ, <1>10
    DEF Signal, HandshakeInv, Wanted, LoopTypeOK, ClaimTypeOK, vars, loopVars, claimVars
  <2>5. IdleInv'
    BY <1>inv, <1>10 DEF Signal, IdleInv, Idle, vars, loopVars
  <2> QED
    BY <2>2, <2>3, <2>4, <2>5 DEF IndInv
<1>11. CASE SafeCancel
  <2>1. UNCHANGED <<freeSlots, completedTasks, running>>
    BY <1>11 DEF SafeCancel, loopVars, taskVars, vars
  <2>2. SlotsAccounted' /\ CountInv'
    BY <1>inv, <2>1, NoSlotMoves
  <2>3. TypeOK'
    <3>1. LoopTypeOK' /\ ClaimTypeOK' /\ TaskTypeOK'
      BY <1>typ, <1>11, GroupsUnchanged DEF SafeCancel, vars
    <3>2. StopTypeOK'
      BY <1>typ, <1>11 DEF SafeCancel, StopTypeOK
    <3> QED
      BY <3>1, <3>2 DEF TypeOK
  <2>4. HandshakeInv'
    BY <1>inv, <1>len, <1>typ, <1>11
    DEF SafeCancel, HandshakeInv, Wanted, LoopTypeOK, ClaimTypeOK, vars, loopVars, claimVars
  <2>5. IdleInv'
    BY <1>inv, <1>11 DEF SafeCancel, IdleInv, Idle, vars, loopVars
  <2> QED
    BY <2>2, <2>3, <2>4, <2>5 DEF IndInv
<1>12. CASE CloseStopCh
  <2>1. UNCHANGED <<freeSlots, completedTasks, running>>
    BY <1>12 DEF CloseStopCh, loopVars, taskVars, vars
  <2>2. SlotsAccounted' /\ CountInv'
    BY <1>inv, <2>1, NoSlotMoves
  <2>3. TypeOK'
    <3>1. LoopTypeOK' /\ ClaimTypeOK' /\ TaskTypeOK'
      BY <1>typ, <1>12, GroupsUnchanged DEF CloseStopCh, vars
    <3>2. StopTypeOK'
      BY <1>typ, <1>12 DEF CloseStopCh, StopTypeOK
    <3> QED
      BY <3>1, <3>2 DEF TypeOK
  <2>4. HandshakeInv'
    BY <1>inv, <1>len, <1>typ, <1>12
    DEF CloseStopCh, HandshakeInv, Wanted, LoopTypeOK, ClaimTypeOK, vars, loopVars, claimVars
  <2>5. IdleInv'
    BY <1>inv, <1>12 DEF CloseStopCh, IdleInv, Idle, vars, loopVars
  <2> QED
    BY <2>2, <2>3, <2>4, <2>5 DEF IndInv
<1>13. CASE Terminated
  <2>1. UNCHANGED <<freeSlots, completedTasks, running>>
    BY <1>13 DEF Terminated, loopVars, taskVars, vars
  <2>2. SlotsAccounted' /\ CountInv'
    BY <1>inv, <2>1, NoSlotMoves
  <2>3. TypeOK'
    <3>1. LoopTypeOK' /\ ClaimTypeOK' /\ TaskTypeOK' /\ StopTypeOK'
      BY <1>typ, <1>13, GroupsUnchanged DEF Terminated, vars
    <3> QED
      BY <3>1 DEF TypeOK
  <2>4. HandshakeInv'
    BY <1>inv, <1>len, <1>typ, <1>13
    DEF Terminated, HandshakeInv, Wanted, LoopTypeOK, ClaimTypeOK, vars, loopVars, claimVars
  <2>5. IdleInv'
    BY <1>inv, <1>13 DEF Terminated, IdleInv, Idle, vars, loopVars
  <2> QED
    BY <2>2, <2>3, <2>4, <2>5 DEF IndInv
<1>14. CASE RecvCompleted
  <2>1. /\ freeSlots' \in Seq(Slots) /\ completedTasks' \in Seq(Slots)
        /\ Len(freeSlots') = Len(freeSlots) + 1
        /\ SlotsAccounted' /\ CountInv'
    BY <1>inv, <1>14, SlotComesBack
  <2>2. TypeOK'
    <3>1. ClaimTypeOK' /\ StopTypeOK'
      BY <1>typ, <1>14, GroupsUnchanged DEF RecvCompleted
    <3>2. /\ toSend' \in 0 .. ConcurrentTasks /\ pc' \in {"send", "select", "starting"}
          /\ exit' \in {"none", "ctx", "drained", "idle", "immediate", "panic"}
          /\ idleSince' \in {"nil", "recent", "expired"}
          /\ pend' \in SUBSET Tasks
      BY <1>typ, <1>14 DEF RecvCompleted, LoopTypeOK
    <3>3. isFull' \in BOOLEAN
      BY <1>typ, <1>14, Zenon DEF RecvCompleted, LoopTypeOK
    <3>4. LoopTypeOK'
      BY <1>typ, <1>14, <2>1, <3>2, <3>3, Zenon DEF RecvCompleted, LoopTypeOK
    <3>5. TaskTypeOK'
      BY <1>typ, <1>14, <2>1, Zenon DEF RecvCompleted, TaskTypeOK
    <3> QED
      BY <3>1, <3>4, <3>5 DEF TypeOK
  <2>3. completedTasks # << >> /\ Len(completedTasks) > 0
    BY <1>typ, <1>14, EmptySeq, <1>len DEF RecvCompleted, TaskTypeOK
  <2>4. HandshakeInv'
    <3>1. /\ pc = "select" /\ exit = "none" /\ claimer' = claimer /\ req' = req
          /\ resp' = resp /\ pend' = pend /\ isShuttingDown' = isShuttingDown
      BY <1>14 DEF RecvCompleted, claimVars
    <3>2. CASE isFull /\ exit' = "none"
      <4>1. isFull' = FALSE /\ pc' = "send" /\ toSend' = 1
        BY <1>14, <3>2 DEF RecvCompleted, AsksAgain
      <4>2. claimer = "waiting"
        BY <1>inv, <1>typ, <3>2 DEF HandshakeInv, ClaimTypeOK
      <4> QED
        BY <1>inv, <1>len, <2>1, <3>1, <4>1, <4>2 DEF HandshakeInv
    <3>3. CASE ~isFull \/ exit' # "none"
      <4>1. isFull' = isFull /\ pc' = "select" /\ toSend' = toSend
        BY <1>14, <3>3 DEF RecvCompleted, AsksAgain
      <4> QED
        BY <1>inv, <1>len, <1>typ, <2>1, <3>1, <3>3, <4>1
        DEF HandshakeInv, ClaimTypeOK
    <3> QED
      BY <3>2, <3>3
  <2>5. IdleInv'
    BY <1>inv, <1>len, <1>typ, <1>14, <2>1, <2>3
    DEF RecvCompleted, IdleInv, Idle, LoopTypeOK
  <2> QED
    BY <2>1, <2>2, <2>4, <2>5 DEF IndInv
<1>15. CASE RecvResponse
  <2>1. UNCHANGED <<freeSlots, completedTasks, running>>
    BY <1>15 DEF RecvResponse
  <2>2. SlotsAccounted' /\ CountInv'
    BY <1>inv, <2>1, NoSlotMoves
  <2>3. TypeOK'
    <3>1. StopTypeOK'
      BY <1>typ, <1>15, GroupsUnchanged DEF RecvResponse
    <3>2. LoopTypeOK'
      BY <1>typ, <1>15, Zenon DEF RecvResponse, LoopTypeOK, ClaimTypeOK
    <3>3. ClaimTypeOK'
      BY <1>typ, <1>15 DEF RecvResponse, ClaimTypeOK
    <3>4. TaskTypeOK'
      BY <1>typ, <1>15 DEF RecvResponse, TaskTypeOK
    <3> QED
      BY <3>1, <3>2, <3>3, <3>4 DEF TypeOK
  <2>4. Cardinality(resp) \in Nat
    BY <1>typ, TasksFinite DEF ClaimTypeOK
  <2>5. HandshakeInv'
    BY <1>inv, <1>len, <1>typ, <1>15, <2>4
    DEF RecvResponse, HandshakeInv, LoopTypeOK, ClaimTypeOK
  <2>6. IdleInv'
    BY <1>inv, <1>typ, <1>15 DEF RecvResponse, IdleInv, Idle, IdleTooLong, LoopTypeOK
  <2> QED
    BY <2>2, <2>3, <2>5, <2>6 DEF IndInv
<1>16. ASSUME NEW t \in Tasks, StartTask(t) PROVE IndInv'
  <2>1. /\ Cardinality(pend) \in Nat /\ Cardinality(pend) > 0
        /\ Cardinality(pend') = Cardinality(pend) - 1
    <3>1. t \in pend /\ pend' = pend \ {t} /\ IsFiniteSet(pend)
      BY <1>16, <1>typ, TasksFinite DEF StartTask, LoopTypeOK
    <3>2. Cardinality(pend \ {t}) \in Nat /\ Cardinality(pend) \in Nat
      BY <1>typ, TasksFinite DEF LoopTypeOK
    <3>3. Cardinality(pend \ {t}) = Cardinality(pend) - 1
      BY <3>1, FS_RemoveElement
    <3> QED
      BY <3>1, <3>2, <3>3
  <2>2. Len(freeSlots) > 0
    BY <1>inv, <1>len, <1>16, <2>1 DEF HandshakeInv, StartTask
  <2>3. /\ freeSlots' \in Seq(Slots) /\ Len(freeSlots') = Len(freeSlots) - 1
        /\ running' \in [Slots -> Tasks \cup {NoTask}]
        /\ SlotsAccounted' /\ CountInv'
    BY <1>inv, <1>16, <2>2, SlotStarts
  <2>4. TypeOK'
    <3>1. ClaimTypeOK' /\ StopTypeOK'
      BY <1>typ, <1>16, GroupsUnchanged DEF StartTask
    <3>2. LoopTypeOK'
      BY <1>typ, <1>16, <2>3 DEF StartTask, LoopTypeOK
    <3>3. TaskTypeOK'
      <4>1. fate' \in [Tasks -> {"queued", "claimed", "running", "finished", "dropped"}]
        BY <1>typ, <1>16 DEF StartTask, TaskTypeOK
      <4> QED
        BY <1>typ, <1>16, <2>3, <4>1, Zenon DEF StartTask, TaskTypeOK
    <3> QED
      BY <3>1, <3>2, <3>3 DEF TypeOK
  <2>5. HandshakeInv'
    BY <1>inv, <1>len, <1>typ, <1>16, <2>1, <2>2, <2>3
    DEF StartTask, HandshakeInv, LoopTypeOK, ClaimTypeOK, claimVars
  <2>6. IdleInv'
    BY <1>inv, <1>len, <1>16, <2>3 DEF StartTask, IdleInv, Idle
  <2> QED
    BY <2>3, <2>4, <2>5, <2>6 DEF IndInv
<1>17. CASE ClaimWork
  <2>1. UNCHANGED <<freeSlots, completedTasks, running>> /\ UNCHANGED loopVars
    BY <1>17 DEF ClaimWork, loopVars
  <2>2. SlotsAccounted' /\ CountInv'
    BY <1>inv, <2>1, NoSlotMoves
  <2>3. PICK S \in SUBSET Queued :
            /\ Cardinality(S) <= req /\ resp' = S
            /\ fate' = [t \in Tasks |-> IF t \in S THEN "claimed" ELSE fate[t]]
    BY <1>17 DEF ClaimWork
  <2>4. S \in SUBSET Tasks /\ Cardinality(S) \in Nat
    BY <2>3, TasksFinite DEF Queued
  <2>5. TypeOK'
    <3>1. LoopTypeOK' /\ StopTypeOK'
      BY <1>typ, <1>17, GroupsUnchanged DEF ClaimWork
    <3>2. ClaimTypeOK'
      BY <1>typ, <1>17, <2>3, <2>4 DEF ClaimWork, ClaimTypeOK
    <3>3. TaskTypeOK'
      <4>1. fate' \in [Tasks -> {"queued", "claimed", "running", "finished", "dropped"}]
        BY <1>typ, <2>3 DEF TaskTypeOK
      <4> QED
        BY <1>typ, <2>1, <4>1, Zenon DEF TaskTypeOK
    <3> QED
      BY <3>1, <3>2, <3>3 DEF TypeOK
  <2>6. HandshakeInv'
    BY <1>inv, <1>len, <1>typ, <1>17, <2>3, <2>4
    DEF ClaimWork, HandshakeInv, LoopTypeOK, ClaimTypeOK, loopVars
  <2>7. IdleInv'
    BY <1>inv, <2>1 DEF IdleInv, Idle, loopVars
  <2> QED
    BY <2>2, <2>5, <2>6, <2>7 DEF IndInv
<1>18. ASSUME NEW s \in Slots, TaskReturns(s) PROVE IndInv'
  <2>1. /\ completedTasks' \in Seq(Slots)
        /\ running' \in [Slots -> Tasks \cup {NoTask}]
        /\ SlotsAccounted' /\ CountInv'
    BY <1>inv, <1>18, SlotReturns
  <2>2. TypeOK'
    <3>1. LoopTypeOK' /\ ClaimTypeOK' /\ StopTypeOK'
      BY <1>typ, <1>18, GroupsUnchanged DEF TaskReturns
    <3>2. TaskTypeOK'
      <4>1. fate' \in [Tasks -> {"queued", "claimed", "running", "finished", "dropped"}]
        BY <1>typ, <1>18 DEF TaskReturns, TaskTypeOK
      <4> QED
        BY <2>1, <4>1 DEF TaskTypeOK
    <3> QED
      BY <3>1, <3>2 DEF TypeOK
  <2>3. HandshakeInv' /\ IdleInv'
    BY <1>inv, <1>18 DEF TaskReturns, HandshakeInv, IdleInv, Idle, loopVars, claimVars
  <2> QED
    BY <2>1, <2>2, <2>3 DEF IndInv
<1>19. ASSUME NEW p \in Packets, OnGracefulTermination(p) PROVE IndInv'
  <2>1. UNCHANGED <<freeSlots, completedTasks, running>>
    BY <1>19 DEF OnGracefulTermination, taskVars
  <2>2. SlotsAccounted' /\ CountInv'
    BY <1>inv, <2>1, NoSlotMoves
  <2>3. TypeOK'
    <3>1. ClaimTypeOK' /\ TaskTypeOK'
      BY <1>typ, <1>19, GroupsUnchanged DEF OnGracefulTermination
    <3>2. LoopTypeOK'
      BY <1>typ, <1>19 DEF OnGracefulTermination, LoopTypeOK
    <3>3. StopTypeOK'
      BY <1>typ, <1>19 DEF OnGracefulTermination, StopTypeOK
    <3> QED
      BY <3>1, <3>2, <3>3 DEF TypeOK
  <2>4. HandshakeInv' /\ IdleInv'
    BY <1>inv, <1>19
    DEF OnGracefulTermination, HandshakeInv, IdleInv, Idle, claimVars
  <2> QED
    BY <2>2, <2>3, <2>4 DEF IndInv
<1>20. CASE UNCHANGED vars
  <2>1. TypeOK'
    BY <1>typ, <1>20, GroupsUnchanged DEF TypeOK, vars
  <2>2. SlotsAccounted' /\ CountInv'
    BY <1>inv, <1>20, NoSlotMoves DEF vars, loopVars, taskVars
  <2>3. HandshakeInv' /\ IdleInv'
    BY <1>inv, <1>20 DEF HandshakeInv, IdleInv, Idle, vars, loopVars, claimVars
  <2> QED
    BY <2>1, <2>2, <2>3 DEF IndInv
<1> QED
  BY <1>1, <1>2, <1>3, <1>4, <1>5, <1>6, <1>7, <1>8, <1>9, <1>10, <1>11, <1>12,
     <1>13, <1>14, <1>15, <1>16, <1>17, <1>18, <1>19, <1>20 DEF Next

(***************************************************************************)
(* What the invariant implies.                                             *)
(***************************************************************************)

\* IndInv holds in every reachable state.
THEOREM Invariance == Spec => []IndInv
<1>1. Init => IndInv
  BY InitIndInv
<1>2. IndInv /\ [Next]_vars => IndInv'
  BY NextIndInv
<1> QED
  BY <1>1, <1>2, PTL DEF Spec

\* Every variable of Run keeps its type.
THEOREM TypeCorrect == Spec => []TypeOK
<1>1. IndInv => TypeOK
  BY DEF IndInv
<1> QED
  BY <1>1, Invariance, PTL

\* No slot is lost and none is handed out twice.
THEOREM SlotsSafe == Spec => []SlotsAccounted
<1>1. IndInv => SlotsAccounted
  BY DEF IndInv
<1> QED
  BY <1>1, Invariance, PTL

\* freeSlots[len(freeSlots)-1] is never out of range.
THEOREM RequestsFit == Spec => []RequestFits
<1>1. IndInv => RequestFits
  <2> SUFFICES ASSUME IndInv PROVE RequestFits
    OBVIOUS
  <2>1. Len(freeSlots) \in Nat /\ Cardinality(resp) \in Nat /\ req \in Nat
    BY LenProperties, TasksFinite DEF IndInv, TypeOK, LoopTypeOK, ClaimTypeOK
  <2> QED
    BY <2>1 DEF IndInv, HandshakeInv, RequestFits
<1> QED
  BY <1>1, Invariance, PTL

\* The rendezvous on workReq never waits for a claimer that cannot receive.
THEOREM SendsMeet == Spec => []SendNeverBlocks
<1>1. IndInv => SendNeverBlocks
  BY DEF IndInv, HandshakeInv, SendNeverBlocks
<1> QED
  BY <1>1, Invariance, PTL

\* There is always room in completedTasks for a running task's slot.
THEOREM CompletionsFit == Spec => []CompletionNeverBlocks
<1>1. IndInv => CompletionNeverBlocks
  <2> SUFFICES ASSUME IndInv, NEW s \in Slots, running[s] # NoTask
               PROVE  Len(completedTasks) < Capacity
    BY DEF CompletionNeverBlocks
  <2>1. s \in Busy
    BY DEF Busy
  <2>2. Cardinality(Busy) \in Nat /\ Cardinality(Busy) # 0
    BY <2>1, BusyFinite, FS_EmptySet
  <2>3. Len(freeSlots) \in Nat /\ Len(completedTasks) \in Nat
    BY LenProperties DEF IndInv, TypeOK, LoopTypeOK, TaskTypeOK
  <2> QED
    BY <2>2, <2>3, ConcurrencyAssumption DEF IndInv, CountInv, Capacity
<1> QED
  BY <1>1, Invariance, PTL

\* A worker with a free slot that is not shutting down is asking for work.
THEOREM AlwaysAsking == Spec => []NeverDeaf
<1>1. IndInv => NeverDeaf
  BY DEF IndInv, HandshakeInv, NeverDeaf
<1> QED
  BY <1>1, Invariance, PTL

\* Run returns with every slot free, unless it is stopped immediately.
THEOREM ExitsDrained == Spec => []DrainedExit
<1>1. IndInv => DrainedExit
  <2> SUFFICES ASSUME IndInv, exit \in {"ctx", "drained", "idle"}
               PROVE  Busy = {} /\ completedTasks = << >>
    BY DEF DrainedExit
  <2>1. Len(freeSlots) \in Nat /\ Len(completedTasks) \in Nat
    BY LenProperties DEF IndInv, TypeOK, LoopTypeOK, TaskTypeOK
  <2>2. Len(completedTasks) = 0 /\ Cardinality(Busy) = 0
    BY <2>1, BusyFinite, ConcurrencyAssumption DEF IndInv, CountInv, IdleInv, Idle
  <2> QED
    BY <2>2, BusyFinite, FS_EmptySet, EmptySeq DEF IndInv, TypeOK, TaskTypeOK
<1> QED
  BY <1>1, Invariance, PTL

(***************************************************************************)
(* The tasks. TasksAccounted is preserved by every step that starts in     *)
(* IndInv: a response is empty while none is being sent, the loop over a   *)
(* response runs only while the claimer waits, and the slot a task starts  *)
(* on is free.                                                             *)
(***************************************************************************)

\* Steps that move no task.
LEMMA NoTaskMoves ==
    ASSUME TasksAccounted, UNCHANGED <<resp, pend, fate, running>>,
           isShuttingDown => isShuttingDown'
    PROVE  TasksAccounted'
BY DEF TasksAccounted, Busy

\* A response with tasks of the queue.
LEMMA ClaimedTasks ==
    ASSUME IndInv, TasksAccounted, ClaimWork
    PROVE  TasksAccounted'
<1>1. PICK S \in SUBSET Queued :
          resp' = S /\ fate' = [t \in Tasks |-> IF t \in S THEN "claimed" ELSE fate[t]]
  BY DEF ClaimWork
<1>2. UNCHANGED <<pend, running, isShuttingDown>> /\ claimer = "claiming"
  BY DEF ClaimWork, loopVars
<1>3. resp = {} /\ S \subseteq Tasks /\ \A t \in S : fate[t] = "queued"
  BY <1>2 DEF IndInv, HandshakeInv, Queued
<1>4. {t \in Tasks : fate'[t] = "claimed"} = S \cup {t \in Tasks : fate[t] = "claimed"}
  BY <1>1, <1>3
<1>5. S \cap pend = {}
  BY <1>3 DEF TasksAccounted
<1>6. {t \in Tasks : fate'[t] = "running"} = {t \in Tasks : fate[t] = "running"}
  BY <1>1, <1>3
<1>7. Busy' = Busy
  BY <1>2 DEF Busy
<1>8. (\E t \in Tasks : fate'[t] = "dropped") => isShuttingDown'
  BY <1>1, <1>2 DEF TasksAccounted
<1> QED
  BY <1>1, <1>2, <1>3, <1>4, <1>5, <1>6, <1>7, <1>8 DEF TasksAccounted

\* The main loop takes a response: its tasks are about to start, or dropped by
\* a worker that is shutting down.
LEMMA ResponseTaken ==
    ASSUME IndInv, TasksAccounted, RecvResponse
    PROVE  TasksAccounted'
<1>1. /\ resp' = {} /\ pc = "select" /\ UNCHANGED <<running, isShuttingDown>>
  BY DEF RecvResponse
<1>2. pend = {} /\ Busy' = Busy
  BY <1>1 DEF IndInv, HandshakeInv, Busy
<1>3. \/ resp = {} /\ UNCHANGED <<pend, fate>>
      \/ /\ isShuttingDown /\ pend' = pend
         /\ fate' = [t \in Tasks |-> IF t \in resp THEN "dropped" ELSE fate[t]]
      \/ pend' = resp /\ fate' = fate
  BY DEF RecvResponse, IdleTooLong
<1>4. CASE resp = {} /\ UNCHANGED <<pend, fate>>
  BY <1>1, <1>4, NoTaskMoves
<1>5. CASE /\ isShuttingDown /\ pend' = pend
           /\ fate' = [t \in Tasks |-> IF t \in resp THEN "dropped" ELSE fate[t]]
  <2>1. {t \in Tasks : fate[t] = "claimed"} = resp
    BY <1>2 DEF TasksAccounted
  <2>2. {t \in Tasks : fate'[t] = "claimed"} = {}
    BY <1>5, <2>1
  <2>3. {t \in Tasks : fate'[t] = "running"} = {t \in Tasks : fate[t] = "running"}
    BY <1>5, <2>1
  <2> QED
    BY <1>1, <1>2, <1>5, <2>2, <2>3 DEF TasksAccounted
<1>6. CASE pend' = resp /\ fate' = fate
  BY <1>1, <1>2, <1>6 DEF TasksAccounted
<1> QED
  BY <1>3, <1>4, <1>5, <1>6

\* A task starts on a slot that was free.
LEMMA TaskStarts ==
    ASSUME IndInv, TasksAccounted, NEW t \in Tasks, StartTask(t)
    PROVE  TasksAccounted'
<1>1. Len(freeSlots) > 0
  <2>1. t \in pend /\ pend \in SUBSET Tasks /\ pc = "starting"
    BY DEF StartTask, IndInv, TypeOK, LoopTypeOK
  <2>2. Cardinality(pend) \in Nat /\ Cardinality(pend) # 0
    BY <2>1, TasksFinite, FS_EmptySet
  <2>3. Len(freeSlots) \in Nat /\ Cardinality(pend) <= Len(freeSlots)
    BY <2>1, LenProperties DEF IndInv, TypeOK, LoopTypeOK, HandshakeInv
  <2> QED
    BY <2>2, <2>3
<1>2. NextSlot \in Slots /\ running[NextSlot] = NoTask
  BY <1>1, SlotStarts DEF IndInv
<1>3. /\ t \in pend /\ pend' = pend \ {t} /\ resp' = resp
      /\ running' = [running EXCEPT ![NextSlot] = t]
      /\ fate' = [fate EXCEPT ![t] = "running"] /\ isShuttingDown' = isShuttingDown
  BY DEF StartTask, claimVars
<1>4. running \in [Slots -> Tasks \cup {NoTask}] /\ fate \in [Tasks ->
          {"queued", "claimed", "running", "finished", "dropped"}]
  BY DEF IndInv, TypeOK, TaskTypeOK
<1>5. fate[t] = "claimed" /\ t \notin resp
  BY <1>3 DEF TasksAccounted
<1>6. Busy' = Busy \cup {NextSlot} /\ NextSlot \notin Busy
  BY <1>2, <1>3, <1>4, TasksAssumption DEF Busy
<1>7. \A s \in Busy : running'[s] = running[s] /\ running[s] # t
  BY <1>2, <1>3, <1>4, <1>5, <1>6 DEF TasksAccounted, Busy
<1>8. running'[NextSlot] = t
  BY <1>2, <1>3, <1>4
<1>9. {u \in Tasks : fate'[u] = "claimed"} = {u \in Tasks : fate[u] = "claimed"} \ {t}
  BY <1>3, <1>4
<1>10. {u \in Tasks : fate'[u] = "running"} = {u \in Tasks : fate[u] = "running"} \cup {t}
  BY <1>3, <1>4
<1>11. {running'[s] : s \in Busy'} = {running[s] : s \in Busy} \cup {t}
  BY <1>6, <1>7, <1>8
<1>12. \A r, s \in Busy' : running'[r] = running'[s] => r = s
  BY <1>6, <1>7, <1>8 DEF TasksAccounted
<1>13. (\E u \in Tasks : fate'[u] = "dropped") => isShuttingDown'
  BY <1>3, <1>4 DEF TasksAccounted
<1>14. resp' \cap pend' = {} /\ resp' \cup pend' = (resp \cup pend) \ {t}
  BY <1>3, <1>5 DEF TasksAccounted
<1> QED
  BY <1>9, <1>10, <1>11, <1>12, <1>13, <1>14 DEF TasksAccounted

\* A task goroutine ends.
LEMMA TaskEnds ==
    ASSUME IndInv, TasksAccounted, NEW s \in Slots, TaskReturns(s)
    PROVE  TasksAccounted'
<1> DEFINE t == running[s]
<1>1. /\ t # NoTask /\ running' = [running EXCEPT ![s] = NoTask]
      /\ fate' = [fate EXCEPT ![t] = "finished"]
      /\ UNCHANGED <<resp, pend, isShuttingDown>>
  BY DEF TaskReturns, claimVars, loopVars
<1>2. running \in [Slots -> Tasks \cup {NoTask}] /\ fate \in [Tasks ->
          {"queued", "claimed", "running", "finished", "dropped"}]
  BY DEF IndInv, TypeOK, TaskTypeOK
<1>3. t \in Tasks /\ s \in Busy /\ fate[t] = "running"
  BY <1>1, <1>2 DEF Busy, TasksAccounted
<1>4. Busy' = Busy \ {s}
  BY <1>1, <1>2 DEF Busy
<1>5. \A r \in Busy \ {s} : running'[r] = running[r] /\ running[r] # t
  BY <1>1, <1>2, <1>3 DEF TasksAccounted, Busy
<1> HIDE DEF t
<1>6. {u \in Tasks : fate'[u] = "claimed"} = {u \in Tasks : fate[u] = "claimed"}
  BY <1>1, <1>2, <1>3
<1>7. {u \in Tasks : fate'[u] = "running"} = {u \in Tasks : fate[u] = "running"} \ {t}
  BY <1>1, <1>2, <1>3
<1>8. {running'[r] : r \in Busy'} = {running[r] : r \in Busy} \ {t}
  BY <1>3, <1>4, <1>5 DEF t
<1>9. \A q, r \in Busy' : running'[q] = running'[r] => q = r
  BY <1>4, <1>5 DEF TasksAccounted
<1>10. (\E u \in Tasks : fate'[u] = "dropped") => isShuttingDown'
  BY <1>1, <1>2 DEF TasksAccounted
<1> QED
  BY <1>1, <1>6, <1>7, <1>8, <1>9, <1>10 DEF TasksAccounted

\* Every step preserves TasksAccounted.
LEMMA NextTasks == IndInv /\ TasksAccounted /\ [Next]_vars => TasksAccounted'
<1> SUFFICES ASSUME IndInv, TasksAccounted, [Next]_vars PROVE TasksAccounted'
  OBVIOUS
<1>1. CASE SendRequest \/ RecvCompleted \/ AskForMore \/ IdleTimePasses
           \/ RecvCtxDone \/ RecvStop \/ RecvClosed
  <2>1. /\ UNCHANGED <<resp, pend, fate, running>>
        /\ isShuttingDown' = TRUE \/ isShuttingDown' = isShuttingDown
    BY <1>1 DEF SendRequest, RecvCompleted, AskForMore, IdleTimePasses, RecvCtxDone,
                RecvStop, RecvClosed, claimVars, taskVars
  <2> QED
    BY <2>1, NoTaskMoves
<1>2. CASE ClaimFails \/ BackoffExpires \/ BackoffCancelled \/ Signal \/ SafeCancel
           \/ CloseStopCh \/ Terminated \/ UNCHANGED vars
  <2>1. UNCHANGED <<resp, pend, fate, running, isShuttingDown>>
    BY <1>2 DEF ClaimFails, BackoffExpires, BackoffCancelled, Signal, SafeCancel,
                CloseStopCh, Terminated, vars, loopVars, claimVars, taskVars
  <2> QED
    BY <2>1, NoTaskMoves
<1>3. ASSUME NEW p \in Packets, OnGracefulTermination(p) PROVE TasksAccounted'
  <2>1. UNCHANGED <<resp, pend, fate, running, isShuttingDown>>
    BY <1>3 DEF OnGracefulTermination, claimVars, taskVars
  <2> QED
    BY <2>1, NoTaskMoves
<1>4. CASE ClaimWork \/ RecvResponse
  BY <1>4, ClaimedTasks, ResponseTaken
<1>5. ASSUME NEW t \in Tasks, StartTask(t) PROVE TasksAccounted'
  BY <1>5, TaskStarts
<1>6. ASSUME NEW s \in Slots, TaskReturns(s) PROVE TasksAccounted'
  BY <1>6, TaskEnds
<1> QED
  BY <1>1, <1>2, <1>3, <1>4, <1>5, <1>6 DEF Next

(***************************************************************************)
(* A claimed task is never lost and never started twice: it is in the      *)
(* response or in the loop that starts it, then on exactly one slot, and   *)
(* only a worker that is shutting down drops it.                           *)
(***************************************************************************)
THEOREM TasksSafe == Spec => []TasksAccounted
<1>1. Init => TasksAccounted
  BY DEF Init, TasksAccounted, Busy
<1>2. IndInv /\ TasksAccounted /\ [Next]_vars => TasksAccounted'
  BY NextTasks
<1> QED
  BY <1>1, <1>2, Invariance, PTL DEF Spec

\* The ways a task can go: through a claim to a slot and to its end, or from
\* the claim, in a worker that is shutting down, to nowhere.
FatesAdvance ==
    \A t \in Tasks :
        \/ fate'[t] = fate[t]
        \/ fate[t] = "queued" /\ fate'[t] = "claimed"
        \/ fate[t] = "claimed" /\ fate'[t] = "running"
        \/ fate[t] = "claimed" /\ fate'[t] = "dropped" /\ isShuttingDown
        \/ fate[t] = "running" /\ fate'[t] = "finished"

\* A task is claimed once, started at most once and only after it was claimed,
\* and a task that has started is never dropped, whatever stops the worker.
THEOREM TasksAdvance == Spec => [][FatesAdvance]_vars
<1>1. IndInv /\ TasksAccounted /\ [Next]_vars => [FatesAdvance]_vars
  <2> SUFFICES ASSUME IndInv, TasksAccounted, Next PROVE FatesAdvance
    OBVIOUS
  <2>typ. running \in [Slots -> Tasks \cup {NoTask}] /\ fate \in [Tasks ->
              {"queued", "claimed", "running", "finished", "dropped"}]
    BY DEF IndInv, TypeOK, TaskTypeOK
  <2>1. CASE ClaimWork
    BY <2>1, <2>typ DEF ClaimWork, Queued, FatesAdvance
  <2>2. CASE RecvResponse
    <3>1. \A t \in resp : fate[t] = "claimed"
      BY DEF TasksAccounted
    <3> QED
      BY <2>2, <2>typ, <3>1 DEF RecvResponse, FatesAdvance
  <2>3. ASSUME NEW t \in Tasks, StartTask(t) PROVE FatesAdvance
    <3>1. fate[t] = "claimed"
      BY <2>3 DEF StartTask, TasksAccounted
    <3> QED
      BY <2>3, <2>typ, <3>1 DEF StartTask, FatesAdvance
  <2>4. ASSUME NEW s \in Slots, TaskReturns(s) PROVE FatesAdvance
    <3>1. running[s] \in Tasks /\ fate[running[s]] = "running"
      BY <2>4, <2>typ DEF TaskReturns, Busy, TasksAccounted
    <3>2. fate' = [fate EXCEPT ![running[s]] = "finished"]
      BY <2>4 DEF TaskReturns
    <3> QED
      BY <2>typ, <3>1, <3>2 DEF FatesAdvance
  <2>5. ASSUME fate' = fate PROVE FatesAdvance
    BY <2>5 DEF FatesAdvance
  <2>6. ASSUME NEW p \in Packets, OnGracefulTermination(p) PROVE FatesAdvance
    BY <2>5, <2>6 DEF OnGracefulTermination, taskVars
  <2>7. CASE SendRequest \/ RecvCompleted \/ AskForMore \/ IdleTimePasses
             \/ RecvCtxDone \/ RecvStop \/ RecvClosed
    BY <2>5, <2>7 DEF SendRequest, RecvCompleted, AskForMore, IdleTimePasses,
                      RecvCtxDone, RecvStop, RecvClosed, taskVars
  <2>8. CASE ClaimFails \/ BackoffExpires \/ BackoffCancelled \/ Signal \/ SafeCancel
             \/ CloseStopCh \/ Terminated
    BY <2>5, <2>8 DEF ClaimFails, BackoffExpires, BackoffCancelled, Signal, SafeCancel,
                      CloseStopCh, Terminated, vars, taskVars
  <2> QED
    BY <2>1, <2>2, <2>3, <2>4, <2>6, <2>7, <2>8 DEF Next
<1> QED
  BY <1>1, Invariance, TasksSafe, PTL DEF Spec

(***************************************************************************)
(* Nobody waits for nothing. The two variables that outlive the channel    *)
(* they stand for: workRes is set to nil only after the claimer has closed *)
(* it, and a value in stopCh is there before the handler's deferred close. *)
(* An idle worker that is told to finish its tasks does not return by      *)
(* itself: it is the close of stopCh that makes it.                        *)
(***************************************************************************)
StopInv ==
    /\ stopBuf # << >> => handler = "closing" \/ stopClosed
    /\ workResNil => claimer = "exited" /\ isShuttingDown
    /\ Live /\ isShuttingDown /\ Idle => handler = "closing" \/ stopClosed

\* Somebody who makes a case of the loop's select ready, or a case that is.
Awaited ==
    \/ claimer \in {"claiming", "backoff"}
    \/ claimer \in {"sending", "exited"} /\ ~workResNil
    \/ Busy # {} \/ completedTasks # << >>
    \/ handler = "closing" \/ stopClosed

\* The loop is in its select only while something is still to come, and blocked
\* on workReq only while the claimer is there to receive.
NeverAsleep ==
    Live => /\ pc = "select" => Awaited
            /\ pc = "send" => claimer = "waiting"

\* The claims the worker holds: tasks it has claimed and not yet started, and
\* those it runs.
Held == {t \in Tasks : fate[t] \in {"claimed", "running"}}

\* The worker never holds more claims than it may run at once.
NeverOverclaims == Cardinality(Held) <= ConcurrentTasks

\* Every step keeps StopInv.
LEMMA NextStopInv == IndInv /\ StopInv /\ [Next]_vars => StopInv'
<1> SUFFICES ASSUME IndInv, StopInv, [Next]_vars PROVE StopInv'
  OBVIOUS
<1> USE DEF Live
<1>1. CASE SendRequest \/ RecvCtxDone \/ RecvStop \/ RecvResponse \/ RecvClosed
           \/ AskForMore \/ IdleTimePasses
  <2>1. UNCHANGED <<handler, stopClosed, freeSlots>>
    BY <1>1 DEF SendRequest, RecvCtxDone, RecvStop, RecvResponse, RecvClosed, AskForMore,
                IdleTimePasses, stopVars
  <2>2. stopBuf' = stopBuf \/ stopBuf' = << >>
    BY <1>1 DEF SendRequest, RecvCtxDone, RecvStop, RecvResponse, RecvClosed, AskForMore,
                IdleTimePasses, stopVars
  <2>3. workResNil' => claimer' = "exited" /\ isShuttingDown'
    BY <1>1 DEF SendRequest, RecvCtxDone, RecvStop, RecvResponse, RecvClosed, AskForMore,
                IdleTimePasses, StopInv, claimVars
  <2>4. exit' = "none" /\ isShuttingDown' /\ Idle => handler = "closing" \/ stopClosed
    BY <1>1 DEF SendRequest, RecvCtxDone, RecvStop, RecvResponse, RecvClosed, AskForMore,
                IdleTimePasses, StopInv
  <2> QED
    BY <2>1, <2>2, <2>3, <2>4 DEF StopInv, Idle
<1>2. CASE RecvCompleted
  <2>1. UNCHANGED <<handler, stopClosed, stopBuf, workResNil, claimer, isShuttingDown>>
    BY <1>2 DEF RecvCompleted, stopVars, claimVars
  <2>2. exit' = "none" => ~(isShuttingDown /\ Idle')
    BY <1>2 DEF RecvCompleted
  <2> QED
    BY <2>1, <2>2 DEF StopInv
<1>3. ASSUME NEW t \in Tasks, StartTask(t) PROVE StopInv'
  <2>1. UNCHANGED <<handler, stopClosed, stopBuf, workResNil, claimer, isShuttingDown>>
    BY <1>3 DEF StartTask, stopVars, claimVars
  <2>2. ~Idle'
    <3>1. freeSlots' = SubSeq(freeSlots, 1, Len(freeSlots) - 1)
      BY <1>3 DEF StartTask
    <3>2. freeSlots \in Seq(Slots) /\ Len(freeSlots) \in Nat /\ Len(freeSlots) <= ConcurrentTasks
      <4>1. /\ freeSlots \in Seq(Slots) /\ Len(freeSlots) \in Nat /\ Len(completedTasks) \in Nat
        BY LenProperties DEF IndInv, TypeOK, LoopTypeOK, TaskTypeOK
      <4> QED
        BY <4>1, BusyFinite, ConcurrencyAssumption DEF IndInv, CountInv
    <3>3. Len(freeSlots') < ConcurrentTasks
      BY <3>1, <3>2, ConcurrencyAssumption
    <3> QED
      BY <3>3 DEF Idle
  <2> QED
    BY <2>1, <2>2 DEF StopInv
<1>4. CASE ClaimWork \/ ClaimFails \/ BackoffExpires \/ BackoffCancelled
  <2>1. UNCHANGED <<handler, stopClosed, stopBuf, workResNil, isShuttingDown, exit, freeSlots>>
    BY <1>4 DEF ClaimWork, ClaimFails, BackoffExpires, BackoffCancelled, stopVars, loopVars
  <2>2. claimer # "exited"
    BY <1>4 DEF ClaimWork, ClaimFails, BackoffExpires, BackoffCancelled
  <2> QED
    BY <2>1, <2>2 DEF StopInv, Idle
<1>5. ASSUME NEW s \in Slots, TaskReturns(s) PROVE StopInv'
  BY <1>5 DEF TaskReturns, StopInv, Idle, loopVars, claimVars, stopVars
<1>6. CASE Signal \/ SafeCancel \/ CloseStopCh
  BY <1>6 DEF Signal, SafeCancel, CloseStopCh, StopInv, Idle, loopVars, claimVars
<1>7. ASSUME NEW p \in Packets, OnGracefulTermination(p) PROVE StopInv'
  BY <1>7 DEF OnGracefulTermination, StopInv, Idle, claimVars
<1>8. CASE Terminated \/ UNCHANGED vars
  BY <1>8 DEF Terminated, StopInv, Idle, vars, loopVars, claimVars, stopVars
<1> QED
  BY <1>1, <1>2, <1>3, <1>4, <1>5, <1>6, <1>7, <1>8 DEF Next

\* StopInv holds in every reachable state.
THEOREM StopInvariance == Spec => []StopInv
<1>1. Init => StopInv
  BY DEF Init, StopInv
<1>2. IndInv /\ StopInv /\ [Next]_vars => StopInv'
  BY NextStopInv
<1> QED
  BY <1>1, <1>2, Invariance, PTL DEF Spec

(***************************************************************************)
(* Run's select never waits for ever: whenever the loop is in it, a case   *)
(* is ready or a goroutine is under way that will make one ready, for      *)
(* every number of slots and every order of completions, responses,        *)
(* signals and packets.                                                    *)
(***************************************************************************)
THEOREM LoopNeverAsleep == Spec => []NeverAsleep
<1>1. IndInv /\ StopInv => NeverAsleep
  <2> SUFFICES ASSUME IndInv, StopInv, Live, pc = "select", ~Awaited PROVE FALSE
    BY DEF NeverAsleep, IndInv, HandshakeInv
  <2>1. Busy = {} /\ completedTasks = << >> /\ handler # "closing" /\ ~stopClosed
    BY DEF Awaited
  <2>2. Idle
    <3>1. Len(freeSlots) \in Nat /\ Len(completedTasks) = 0 /\ Cardinality(Busy) = 0
      BY <2>1, FS_EmptySet, LenProperties DEF IndInv, TypeOK, LoopTypeOK
    <3> QED
      BY <3>1, ConcurrencyAssumption DEF IndInv, CountInv, Idle
  <2>3. ~isShuttingDown
    BY <2>1, <2>2 DEF StopInv
  <2>4. ~workResNil
    BY <2>3 DEF StopInv
  <2>5. claimer = "waiting"
    BY <2>4 DEF Awaited, IndInv, TypeOK, ClaimTypeOK
  <2>6. freeSlots = << >>
    BY <2>3, <2>5 DEF IndInv, HandshakeInv
  <2>7. Len(freeSlots) = 0
    BY <2>6
  <2> QED
    BY <2>2, <2>7, ConcurrencyAssumption DEF Idle
<1> QED
  BY <1>1, Invariance, StopInvariance, PTL

(***************************************************************************)
(* The claims a worker holds, started or not, are never more than          *)
(* ConcurrentTasks, although it asks for new ones while others are running *)
(* and slots come back in between.                                         *)
(***************************************************************************)
THEOREM HoldsNoMore == Spec => []NeverOverclaims
<1>1. IndInv /\ TasksAccounted => NeverOverclaims
  <2> SUFFICES ASSUME IndInv, TasksAccounted PROVE NeverOverclaims
    OBVIOUS
  <2> DEFINE onSlots == {running[s] : s \in Busy}
             waiting == resp \cup pend
  <2>1. Held = waiting \cup onSlots
    BY DEF Held, TasksAccounted
  <2>2. IsFiniteSet(onSlots) /\ Cardinality(onSlots) <= Cardinality(Busy)
    <3> DEFINE f == [s \in Busy |-> running[s]]
    <3>1. f \in Surjection(Busy, onSlots)
      BY DEF Surjection
    <3> HIDE DEF f, onSlots
    <3> QED
      BY <3>1, BusyFinite, FS_Surjection
  <2>3. Len(freeSlots) \in Nat /\ Len(completedTasks) \in Nat
    BY LenProperties DEF IndInv, TypeOK, LoopTypeOK, TaskTypeOK
  <2>4. IsFiniteSet(waiting) /\ Cardinality(waiting) <= Len(freeSlots)
    <3>1. resp \in SUBSET Tasks /\ pend \in SUBSET Tasks /\ req \in Nat
      BY DEF IndInv, TypeOK, LoopTypeOK, ClaimTypeOK
    <3>2. /\ IsFiniteSet(resp) /\ Cardinality(resp) \in Nat
          /\ IsFiniteSet(pend) /\ Cardinality(pend) \in Nat
      BY <3>1, TasksFinite
    <3>3. CASE claimer = "sending"
      <4>1. waiting = resp /\ Cardinality(resp) <= req /\ req <= Len(freeSlots)
        BY <3>3 DEF IndInv, HandshakeInv
      <4>2. Cardinality(resp) <= Len(freeSlots)
        BY <2>3, <3>1, <3>2, <4>1
      <4> QED
        BY <3>2, <4>1, <4>2
    <3>4. CASE claimer # "sending" /\ pc = "starting"
      BY <3>2, <3>4 DEF IndInv, HandshakeInv
    <3>5. CASE claimer # "sending" /\ pc # "starting"
      <4>1. waiting = {}
        BY <3>5 DEF IndInv, HandshakeInv
      <4> QED
        BY <2>3, <4>1, FS_EmptySet
    <3> QED
      BY <3>3, <3>4, <3>5
  <2> HIDE DEF onSlots, waiting
  <2>5. /\ Cardinality(onSlots) \in Nat /\ Cardinality(waiting) \in Nat
        /\ Cardinality(onSlots \cap waiting) \in Nat
    BY <2>2, <2>4, FS_CardinalityType, FS_Intersection
  <2>6. Cardinality(Held) <= Cardinality(waiting) + Cardinality(onSlots)
    <3>1. Cardinality(waiting \cup onSlots)
             = Cardinality(waiting) + Cardinality(onSlots) - Cardinality(waiting \cap onSlots)
      BY <2>2, <2>4, FS_Union
    <3>2. waiting \cap onSlots = onSlots \cap waiting
      OBVIOUS
    <3> QED
      BY <2>1, <2>5, <3>1, <3>2
  <2>7. Cardinality(Held) \in Nat
    BY TasksFinite DEF Held
  <2> QED
    BY <2>2, <2>3, <2>4, <2>5, <2>6, <2>7, BusyFinite, ConcurrencyAssumption
    DEF IndInv, CountInv, NeverOverclaims
<1> QED
  BY <1>1, Invariance, TasksSafe, PTL

=============================================================================
