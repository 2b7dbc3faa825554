--------------------------- MODULE LiveLogProofs ---------------------------
(***************************************************************************)
(* Proofs about PubSubBuffer and LiveLog: no wake-up is lost, the buffer   *)
(* implements LogStream, and Not Found is only said of a closed log, for   *)
(* any readers, any bytes and any lengths.                                 *)
(***************************************************************************)
EXTENDS LiveLog, TLAPS

(***************************************************************************)
(* Sequences: prefixes of a log that only grows.                           *)
(***************************************************************************)

\* A sequence is its own longest prefix.
LEMMA WholePrefix == ASSUME NEW S, NEW s \in Seq(S) PROVE SubSeq(s, 1, Len(s)) = s
OBVIOUS

\* Appending leaves the prefixes as they were.
LEMMA PrefixKept ==
    ASSUME NEW S, NEW s \in Seq(S), NEW t \in Seq(S), NEW n \in Nat, n <= Len(s)
    PROVE  /\ s \o t \in Seq(S) /\ Len(s \o t) = Len(s) + Len(t)
           /\ SubSeq(s \o t, 1, n) = SubSeq(s, 1, n)
OBVIOUS

\* A prefix and the piece that follows it make a longer prefix.
LEMMA PrefixGrows ==
    ASSUME NEW S, NEW s \in Seq(S), NEW m \in Nat, NEW n \in Nat, m + n <= Len(s)
    PROVE  /\ SubSeq(s, 1, m) \in Seq(S) /\ Len(SubSeq(s, 1, m)) = m
           /\ SubSeq(s, 1, m) \o SubSeq(s, m + 1, m + n) = SubSeq(s, 1, m + n)
OBVIOUS

-----------------------------------------------------------------------------
(***************************************************************************)
(* The inductive invariant of the buffer. A reader between Lock and Unlock *)
(* keeps the goroutine of its subscription from broadcasting, so when it   *)
(* goes to sleep that broadcast is still to come.                          *)
(***************************************************************************)
WaiterInv ==
    \A r \in Readers :
        /\ cpc[r] = "unborn" <=> rpc[r] = "absent"
        /\ cpc[r] = "done" => ctxDone[r]
        /\ rpc[r] \in {"data", "wait"} => cpc[r] = "waiting"

SleepInv ==
    \A r \in Readers : rpc[r] = "wait" => offset[r] = Len(buffer) /\ ~closed

BufInv == TypeOK /\ LockInv /\ PrefixRead /\ WaiterInv /\ SleepInv

\* An empty buffer without readers satisfies the invariant.
LEMMA InitBufInv == Init => BufInv
<1> SUFFICES ASSUME Init PROVE BufInv
  OBVIOUS
<1>1. TypeOK
  <2>1. << >> \in Seq(Bytes) /\ FALSE \in BOOLEAN
    OBVIOUS
  <2>2. buffer \in Seq(Bytes) /\ out \in [Readers -> Seq(Bytes)] /\ offset \in [Readers -> Nat]
    BY <2>1 DEF Init
  <2>3. closed \in BOOLEAN /\ ctxDone \in [Readers -> BOOLEAN]
    BY <2>1 DEF Init
  <2>4. /\ lock \in Readers \cup {Free} /\ cpc \in [Readers -> {"unborn", "waiting", "done"}]
        /\ rpc \in [Readers -> {"absent", "call", "data", "wait", "woken", "eof", "err", "gone"}]
    BY DEF Init
  <2> QED
    BY <2>2, <2>3, <2>4 DEF TypeOK
<1>2. LockInv /\ WaiterInv /\ SleepInv
  BY ReadersAssumption DEF Init, LockInv, WaiterInv, SleepInv
<1>3. PrefixRead
  BY DEF Init, PrefixRead
<1> QED
  BY <1>1, <1>2, <1>3 DEF BufInv

\* A broadcast moves the sleepers and nobody else.
LEMMA BroadcastMoves ==
    ASSUME TypeOK
    PROVE  /\ Broadcast(rpc) \in [Readers -> {"absent", "call", "data", "wait", "woken",
                                              "eof", "err", "gone"}]
           /\ \A r \in Readers :
                Broadcast(rpc)[r] = IF rpc[r] = "wait" THEN "woken" ELSE rpc[r]
BY DEF TypeOK, Broadcast

\* Whoever broadcasts leaves no one asleep: Close, Write, CancelBroadcast.
LEMMA WakersBufInv ==
    ASSUME BufInv, rpc' = Broadcast(rpc), UNCHANGED <<lock, offset, out, ctxDone>>,
           closed' \in BOOLEAN,
           NEW src \in Seq(Bytes), buffer' \in {buffer, buffer \o src},
           cpc' \in [Readers -> {"unborn", "waiting", "done"}],
           \A r \in Readers :
              \/ cpc'[r] = cpc[r]
              \/ cpc[r] = "waiting" /\ cpc'[r] = "done" /\ ctxDone[r] /\ rpc[r] # "data"
    PROVE  BufInv'
<1>typ. TypeOK
  BY DEF BufInv
<1>b. /\ rpc' \in [Readers -> {"absent", "call", "data", "wait", "woken", "eof",
                               "err", "gone"}]
      /\ \A r \in Readers : rpc'[r] = IF rpc[r] = "wait" THEN "woken" ELSE rpc[r]
  BY <1>typ, BroadcastMoves
<1>buf. buffer \in Seq(Bytes) /\ buffer' \in Seq(Bytes) /\ Len(buffer') >= Len(buffer)
  <2>1. buffer \in Seq(Bytes) /\ Len(buffer) \in Nat /\ Len(src) \in Nat
    BY <1>typ DEF TypeOK
  <2>2. buffer \o src \in Seq(Bytes) /\ Len(buffer \o src) = Len(buffer) + Len(src)
    BY <2>1
  <2>3. CASE buffer' = buffer
    BY <2>1, <2>3
  <2>4. CASE buffer' = buffer \o src
    BY <2>1, <2>2, <2>4
  <2> QED
    BY <2>3, <2>4
<1>1. TypeOK'
  BY <1>typ, <1>b, <1>buf DEF TypeOK
<1>2. LockInv'
  BY <1>b DEF BufInv, LockInv
<1>3. WaiterInv'
  BY <1>b DEF BufInv, WaiterInv
<1>4. SleepInv'
  BY <1>b DEF SleepInv
<1>5. PrefixRead'
  <2> SUFFICES ASSUME NEW r \in Readers
               PROVE  offset[r] <= Len(buffer') /\ out[r] = SubSeq(buffer', 1, offset[r])
    BY DEF PrefixRead
  <2>1. offset[r] \in Nat /\ offset[r] <= Len(buffer)
        /\ out[r] = SubSeq(buffer, 1, offset[r])
    BY <1>typ DEF BufInv, PrefixRead, TypeOK
  <2>2. SubSeq(buffer', 1, offset[r]) = SubSeq(buffer, 1, offset[r])
    BY <1>buf, <2>1, PrefixKept
  <2> QED
    BY <1>buf, <2>1, <2>2
<1> QED
  BY <1>1, <1>2, <1>3, <1>4, <1>5 DEF BufInv

\* One reader moves and the buffer stays.
LEMMA ReaderBufInv ==
    ASSUME BufInv, NEW r \in Readers, UNCHANGED bufVars,
           Subscribe(r) \/ CtxCancelled(r) \/ ReadLock(r) \/ ReadEOF(r) \/ ReadWait(r)
    PROVE  BufInv'
<1> USE ReadersAssumption DEF bufVars
<1>typ. TypeOK
  BY DEF BufInv
<1>1. TypeOK'
  <2>1. CASE Subscribe(r)
    BY <1>typ, <2>1 DEF TypeOK, Subscribe
  <2>2. CASE CtxCancelled(r)
    BY <1>typ, <2>2 DEF TypeOK, CtxCancelled
  <2>3. CASE ReadLock(r)
    BY <1>typ, <2>3 DEF TypeOK, ReadLock
  <2>4. CASE ReadEOF(r) \/ ReadWait(r)
    BY <1>typ, <2>4 DEF TypeOK, ReadEOF, ReadWait
  <2> QED
    BY <2>1, <2>2, <2>3, <2>4
<1>2. LockInv'
  <2>1. CASE Subscribe(r)
    BY <1>typ, <2>1 DEF BufInv, LockInv, TypeOK, Subscribe
  <2>2. CASE CtxCancelled(r)
    BY <1>typ, <2>2 DEF BufInv, LockInv, TypeOK, CtxCancelled
  <2>3. CASE ReadLock(r)
    BY <1>typ, <2>3 DEF BufInv, LockInv, TypeOK, ReadLock
  <2>4. CASE ReadEOF(r)
    BY <1>typ, <2>4 DEF BufInv, LockInv, TypeOK, ReadEOF
  <2>5. CASE ReadWait(r)
    BY <1>typ, <2>5 DEF BufInv, LockInv, TypeOK, ReadWait
  <2> QED
    BY <2>1, <2>2, <2>3, <2>4, <2>5
<1>3. WaiterInv'
  <2>1. CASE Subscribe(r)
    BY <1>typ, <2>1 DEF BufInv, WaiterInv, TypeOK, Subscribe
  <2>2. CASE CtxCancelled(r)
    BY <1>typ, <2>2 DEF BufInv, WaiterInv, TypeOK, CtxCancelled
  <2>3. CASE ReadLock(r)
    BY <1>typ, <2>3 DEF BufInv, WaiterInv, TypeOK, ReadLock
  <2>4. CASE ReadEOF(r) \/ ReadWait(r)
    BY <1>typ, <2>4 DEF BufInv, WaiterInv, TypeOK, ReadEOF, ReadWait
  <2> QED
    BY <2>1, <2>2, <2>3, <2>4
<1>4. SleepInv'
  <2>1. offset[r] <= Len(buffer) /\ offset[r] \in Nat /\ Len(buffer) \in Nat
    BY <1>typ DEF BufInv, PrefixRead, TypeOK
  <2> QED
    BY <1>typ, <2>1
    DEF BufInv, SleepInv, TypeOK, Subscribe, CtxCancelled, ReadLock, ReadEOF, ReadWait, Ends
<1>5. PrefixRead'
  BY DEF BufInv, PrefixRead, Subscribe, CtxCancelled, ReadLock, ReadEOF, ReadWait
<1> QED
  BY <1>1, <1>2, <1>3, <1>4, <1>5 DEF BufInv

\* What ReadData copies: the next piece, never empty, never beyond the end.
LEMMA CopiedPiece ==
    ASSUME BufInv, NEW r \in Readers, offset[r] < Len(buffer)
    PROVE  /\ ToCopy(r) \in Nat /\ ToCopy(r) > 0
           /\ offset[r] \in Nat /\ offset[r] + ToCopy(r) <= Len(buffer)
           /\ out[r] \o Copy(r) = SubSeq(buffer, 1, offset[r] + ToCopy(r))
           /\ out[r] \o Copy(r) \in Seq(Bytes) /\ Len(out[r]) = offset[r]
<1>1. /\ offset[r] \in Nat /\ buffer \in Seq(Bytes) /\ Len(buffer) \in Nat
      /\ out[r] = SubSeq(buffer, 1, offset[r])
  BY DEF BufInv, TypeOK, PrefixRead
<1>2. ToCopy(r) \in Nat /\ ToCopy(r) > 0 /\ offset[r] + ToCopy(r) <= Len(buffer)
  BY <1>1, SizesAssumption DEF ToCopy
<1> DEFINE n == ToCopy(r)
           o == offset[r]
<1> HIDE DEF n, o
<1>3. /\ SubSeq(buffer, 1, o) \in Seq(Bytes) /\ Len(SubSeq(buffer, 1, o)) = o
      /\ SubSeq(buffer, 1, o) \o SubSeq(buffer, o + 1, o + n) = SubSeq(buffer, 1, o + n)
      /\ SubSeq(buffer, 1, o + n) \in Seq(Bytes)
  <2>1. o \in Nat /\ n \in Nat /\ o + n <= Len(buffer) /\ buffer \in Seq(Bytes)
    BY <1>1, <1>2 DEF o, n
  <2> QED
    BY <2>1, PrefixGrows
<1> QED
  BY <1>1, <1>2, <1>3 DEF Copy, o, n

\* A reader takes a piece of the buffer.
LEMMA ReadDataBufInv == ASSUME BufInv, NEW r \in Readers, ReadData(r) PROVE BufInv'
<1>typ. TypeOK
  BY DEF BufInv
<1>new. /\ rpc[r] = "data" /\ offset[r] < Len(buffer) /\ lock' = Free
        /\ out' = [out EXCEPT ![r] = out[r] \o Copy(r)]
        /\ offset' = [offset EXCEPT ![r] = offset[r] + ToCopy(r)]
        /\ UNCHANGED <<buffer, closed, ctxDone, cpc>>
  BY DEF ReadData, bufVars
<1>l. PICK l \in PassedOn : rpc' = [rpc EXCEPT ![r] = l]
  BY DEF ReadData
<1>c. /\ ToCopy(r) \in Nat /\ offset[r] \in Nat /\ offset[r] + ToCopy(r) <= Len(buffer)
      /\ out[r] \o Copy(r) = SubSeq(buffer, 1, offset[r] + ToCopy(r))
      /\ out[r] \o Copy(r) \in Seq(Bytes)
  BY <1>new, CopiedPiece
<1> HIDE DEF ToCopy, Copy
<1>1. TypeOK'
  <2>1. offset' \in [Readers -> Nat] /\ out' \in [Readers -> Seq(Bytes)]
    BY <1>typ, <1>new, <1>c DEF TypeOK
  <2>2. rpc' \in [Readers -> {"absent", "call", "data", "wait", "woken", "eof", "err", "gone"}]
    BY <1>typ, <1>l DEF TypeOK, PassedOn
  <2> QED
    BY <1>typ, <1>new, <2>1, <2>2, Zenon DEF TypeOK
<1>2. LockInv'
  BY <1>typ, <1>new, <1>l, ReadersAssumption DEF BufInv, LockInv, TypeOK, PassedOn
<1>3. WaiterInv'
  BY <1>typ, <1>new, <1>l DEF BufInv, WaiterInv, TypeOK, PassedOn
<1>4. SleepInv'
  BY <1>typ, <1>new, <1>l DEF BufInv, SleepInv, TypeOK, PassedOn
<1>5. PrefixRead'
  BY <1>typ, <1>new, <1>c DEF BufInv, PrefixRead, TypeOK
<1> QED
  BY <1>1, <1>2, <1>3, <1>4, <1>5 DEF BufInv

\* Every step of the buffer preserves the invariant.
LEMMA NextBufInv == BufInv /\ [Next]_vars => BufInv'
<1> SUFFICES ASSUME BufInv, [Next]_vars PROVE BufInv'
  OBVIOUS
<1>typ. TypeOK
  BY DEF BufInv
<1>1. CASE Close
  <2>1. << >> \in Seq(Bytes) /\ closed' \in BOOLEAN /\ cpc' = cpc
        /\ cpc \in [Readers -> {"unborn", "waiting", "done"}]
    BY <1>typ, <1>1 DEF Close, TypeOK
  <2> QED
    BY <1>1, <2>1, WakersBufInv DEF Close
<1>2. ASSUME NEW src \in Chunks, Write(src) PROVE BufInv'
  <2>1. src \in Seq(Bytes) /\ closed' \in BOOLEAN /\ cpc' = cpc
        /\ cpc \in [Readers -> {"unborn", "waiting", "done"}]
    BY <1>typ, <1>2, ChunksAssumption DEF Write, TypeOK
  <2> QED
    BY <1>2, <2>1, WakersBufInv DEF Write
<1>3. ASSUME NEW r \in Readers, CancelBroadcast(r) PROVE BufInv'
  <2>1. << >> \in Seq(Bytes) /\ closed' \in BOOLEAN /\ buffer' = buffer
        /\ cpc' = [cpc EXCEPT ![r] = "done"] /\ cpc[r] = "waiting" /\ ctxDone[r]
    BY <1>typ, <1>3 DEF CancelBroadcast, TypeOK, bufVars
  <2>2. cpc' \in [Readers -> {"unborn", "waiting", "done"}]
    BY <1>typ, <2>1 DEF TypeOK
  <2>3. rpc[r] # "data"
    BY <1>3, ReadersAssumption DEF CancelBroadcast, BufInv, LockInv
  <2>4. \A q \in Readers :
           \/ cpc'[q] = cpc[q]
           \/ cpc[q] = "waiting" /\ cpc'[q] = "done" /\ ctxDone[q] /\ rpc[q] # "data"
    BY <1>typ, <2>1, <2>3 DEF TypeOK
  <2> QED
    BY <1>3, <2>1, <2>2, <2>4, WakersBufInv DEF CancelBroadcast
<1>4. ASSUME NEW r \in Readers, Subscribe(r) \/ CtxCancelled(r) \/ Read(r) PROVE BufInv'
  BY <1>4, ReaderBufInv, ReadDataBufInv
  DEF Read, Subscribe, CtxCancelled, ReadLock, ReadEOF, ReadWait
<1>5. CASE UNCHANGED vars
  BY <1>5 DEF vars, bufVars, BufInv, TypeOK, LockInv, PrefixRead, WaiterInv, SleepInv
<1> QED
  BY <1>1, <1>2, <1>3, <1>4, <1>5 DEF Next

\* BufInv holds in every reachable state of the buffer.
THEOREM Invariance == Spec => []BufInv
BY InitBufInv, NextBufInv, PTL DEF Spec

\* A sleeping reader has nothing to read and somebody left to wake it.
THEOREM WakeupsKept == Spec => []NoLostWakeup
<1>1. BufInv => NoLostWakeup
  BY DEF BufInv, WaiterInv, SleepInv, NoLostWakeup
<1> QED
  BY <1>1, Invariance, PTL

-----------------------------------------------------------------------------
(***************************************************************************)
(* Refinement: every step of the buffer is a step of LogStream, or one     *)
(* that does not change the log, what the readers have, or their status.   *)
(***************************************************************************)

\* The status of a subscription at each of its labels.
LEMMA StatusValue ==
    /\ Status("absent") = "absent" /\ Status("eof") = "eof"
    /\ Status("err") = "cancelled" /\ Status("gone") = "left"
    /\ \A l \in {"call", "data", "wait", "woken"} : Status(l) = "reading"
<1>1. /\ Status("absent") = "absent" /\ Status("eof") = "eof"
      /\ Status("err") = "cancelled" /\ Status("gone") = "left"
  <2>1. /\ "err" \notin {"absent", "eof"} /\ "gone" \notin {"absent", "eof"}
        /\ "gone" # "err" /\ "absent" \in {"absent", "eof"} /\ "eof" \in {"absent", "eof"}
        /\ "absent" # "err" /\ "absent" # "gone" /\ "eof" # "err" /\ "eof" # "gone"
    OBVIOUS
  <2> QED
    BY <2>1, Zenon DEF Status
<1>2. ASSUME NEW l \in {"call", "data", "wait", "woken"} PROVE Status(l) = "reading"
  <2>1. l \notin {"absent", "eof"} /\ l # "err" /\ l # "gone"
    OBVIOUS
  <2> QED
    BY <2>1, Zenon DEF Status
<1> QED
  BY <1>1, <1>2

status == [r \in Readers |-> Status(rpc[r])]

\* The status of every reader survives a broadcast.
LEMMA StatusOfBroadcast == ASSUME TypeOK, rpc' = Broadcast(rpc) PROVE status' = status
<1>1. ASSUME NEW r \in Readers PROVE Status(rpc'[r]) = Status(rpc[r])
  BY BroadcastMoves, StatusValue
<1> QED
  BY <1>1 DEF status

\* One reader goes to another label.
LEMMA StatusOfOne ==
    ASSUME TypeOK, NEW r \in Readers, NEW l, rpc' = [rpc EXCEPT ![r] = l]
    PROVE  /\ status' = [status EXCEPT ![r] = Status(l)]
           /\ status[r] = Status(rpc[r])
           /\ Status(l) = Status(rpc[r]) => status' = status
BY DEF TypeOK, status

\* Every step of the buffer maps to a step of the stream or to a stutter.
LEMMA StepOfStream == BufInv /\ [Next]_vars => [Stream!Next]_(Stream!vars)
<1> SUFFICES ASSUME BufInv, [Next]_vars PROVE [Stream!Next]_(Stream!vars)
  OBVIOUS
<1>typ. TypeOK
  BY DEF BufInv
<1>v. ASSUME UNCHANGED <<buffer, closed, out>>, status' = status
      PROVE  UNCHANGED Stream!vars
  BY <1>v DEF Stream!vars, status
<1>1. CASE Close
  <2>1. status' = status
    BY <1>typ, <1>1, StatusOfBroadcast DEF Close
  <2>2. Stream!Seal
    BY <1>1, <2>1 DEF Close, Stream!Seal, status
  <2> QED
    BY <2>2 DEF Stream!Next
<1>2. ASSUME NEW src \in Chunks, Write(src) PROVE Stream!Write
  <2>1. status' = status
    BY <1>typ, <1>2, StatusOfBroadcast DEF Write
  <2>2. src \in Seq(Bytes) /\ buffer \in Seq(Bytes) /\ Len(buffer) \in Nat /\ Len(src) \in Nat
    BY <1>typ, ChunksAssumption DEF TypeOK
  <2>3. /\ buffer \o src \in Seq(Bytes) /\ Len(buffer \o src) >= Len(buffer)
        /\ SubSeq(buffer \o src, 1, Len(buffer)) = buffer
    BY <2>2, PrefixKept, WholePrefix
  <2> QED
    BY <1>2, <2>1, <2>3 DEF Write, Stream!Write, status
<1>3. ASSUME NEW r \in Readers, CancelBroadcast(r) PROVE UNCHANGED Stream!vars
  BY <1>3, <1>typ, <1>v, StatusOfBroadcast DEF CancelBroadcast, bufVars
<1>4. ASSUME NEW r \in Readers, Subscribe(r) PROVE Stream!Join(r)
  <2>1. status' = [status EXCEPT ![r] = "reading"] /\ status[r] = "absent"
    <3>1. rpc' = [rpc EXCEPT ![r] = "call"] /\ rpc[r] = "absent"
      BY <1>4 DEF Subscribe
    <3>2. status' = [status EXCEPT ![r] = Status("call")] /\ status[r] = Status(rpc[r])
      BY <1>typ, <3>1, StatusOfOne
    <3> QED
      BY <3>1, <3>2, StatusValue
  <2> QED
    BY <1>4, <2>1 DEF Subscribe, bufVars, Stream!Join, status
<1>5. ASSUME NEW r \in Readers, CtxCancelled(r) PROVE UNCHANGED Stream!vars
  BY <1>5, <1>v DEF CtxCancelled, bufVars, status
<1>6. ASSUME NEW r \in Readers, ReadLock(r) PROVE UNCHANGED Stream!vars \/ Stream!Cancel(r)
  <2>1. Status(rpc[r]) = "reading" /\ UNCHANGED <<buffer, closed, out>>
    BY <1>6, StatusValue DEF ReadLock, bufVars
  <2>2. CASE rpc' = [rpc EXCEPT ![r] = "err"]
    <3>1. status' = [status EXCEPT ![r] = "cancelled"] /\ status[r] = "reading"
      <4>1. status' = [status EXCEPT ![r] = Status("err")] /\ status[r] = Status(rpc[r])
        BY <1>typ, <2>2, StatusOfOne
      <4> QED
        BY <2>1, <4>1, StatusValue
    <3> QED
      BY <2>1, <3>1 DEF Stream!Cancel, status
  <2>3. CASE rpc' = [rpc EXCEPT ![r] = "data"]
    <3>1. status' = status
      <4>1. Status("data") = Status(rpc[r]) => status' = status
        BY <1>typ, <2>3, StatusOfOne
      <4> QED
        BY <2>1, <4>1, StatusValue
    <3> QED
      BY <2>1, <3>1, <1>v
  <2> QED
    BY <1>6, <2>2, <2>3 DEF ReadLock
<1>7. ASSUME NEW r \in Readers, ReadData(r) PROVE Stream!Deliver(r)
  <2>1. /\ rpc[r] = "data" /\ offset[r] < Len(buffer) /\ UNCHANGED <<buffer, closed>>
        /\ out' = [out EXCEPT ![r] = out[r] \o Copy(r)]
    BY <1>7 DEF ReadData, bufVars
  <2>2. PICK l \in PassedOn : rpc' = [rpc EXCEPT ![r] = l]
    BY <1>7 DEF ReadData
  <2>3. Status(l) \in {"reading", "left"} /\ status' = [status EXCEPT ![r] = Status(l)]
        /\ status[r] = "reading"
    BY <1>typ, <2>1, <2>2, StatusOfOne, StatusValue DEF PassedOn
  <2>4. /\ Len(out[r]) = offset[r] /\ ToCopy(r) \in 1 .. Len(buffer) - Len(out[r])
        /\ Copy(r) = SubSeq(buffer, Len(out[r]) + 1, Len(out[r]) + ToCopy(r))
    <3>1. Len(buffer) \in Nat
      BY <1>typ DEF TypeOK
    <3>2. /\ ToCopy(r) \in Nat /\ ToCopy(r) > 0 /\ offset[r] \in Nat
          /\ offset[r] + ToCopy(r) <= Len(buffer) /\ Len(out[r]) = offset[r]
      BY <2>1, CopiedPiece
    <3> QED
      BY <3>1, <3>2 DEF Copy
  <2>5. \E n \in 1 .. Len(buffer) - Len(out[r]) :
           out' = [out EXCEPT ![r] = out[r] \o SubSeq(buffer, Len(out[r]) + 1, Len(out[r]) + n)]
    BY <2>1, <2>4
  <2> QED
    BY <2>1, <2>3, <2>5 DEF Stream!Deliver, status
<1>8. ASSUME NEW r \in Readers, ReadEOF(r) PROVE Stream!End(r)
  <2>1. status' = [status EXCEPT ![r] = "eof"] /\ status[r] = "reading"
    <3>1. rpc' = [rpc EXCEPT ![r] = "eof"] /\ rpc[r] = "data"
      BY <1>8 DEF ReadEOF
    <3>2. status' = [status EXCEPT ![r] = Status("eof")] /\ status[r] = Status(rpc[r])
      BY <1>typ, <3>1, StatusOfOne
    <3> QED
      BY <3>1, <3>2, StatusValue
  <2>2. out[r] = buffer
    <3>1. offset[r] = Len(buffer) /\ buffer \in Seq(Bytes)
      BY <1>8, <1>typ DEF ReadEOF, BufInv, PrefixRead, TypeOK
    <3> QED
      BY <3>1, WholePrefix DEF BufInv, PrefixRead
  <2> QED
    BY <1>8, <2>1, <2>2 DEF ReadEOF, Ends, bufVars, Stream!End, status
<1>9. ASSUME NEW r \in Readers, ReadWait(r) PROVE UNCHANGED Stream!vars
  <2>1. status' = status
    <3>1. rpc' = [rpc EXCEPT ![r] = "wait"] /\ rpc[r] = "data"
      BY <1>9 DEF ReadWait
    <3>2. Status("wait") = Status(rpc[r]) => status' = status
      BY <1>typ, <3>1, StatusOfOne
    <3> QED
      BY <3>1, <3>2, StatusValue
  <2> QED
    BY <1>9, <1>v, <2>1 DEF ReadWait, bufVars
<1>10. CASE UNCHANGED vars
  BY <1>10, <1>v DEF vars, bufVars, status
<1> QED
  BY <1>1, <1>2, <1>3, <1>4, <1>5, <1>6, <1>7, <1>8, <1>9, <1>10 DEF Next, Read, Stream!Next

\* The buffer, with its mutex, its condition variable and its goroutines, is
\* an implementation of LogStream: each reader gets the log in order and whole.
THEOREM BufferIsLogStream == Spec => IsLogStream
<1>1. Init => Stream!Init
  <2> SUFFICES ASSUME Init PROVE Stream!Init
    OBVIOUS
  <2>1. status = [r \in Readers |-> "absent"]
    BY StatusValue DEF Init, status
  <2> QED
    BY <2>1 DEF Init, Stream!Init, status
<1> QED
  BY <1>1, StepOfStream, Invariance, PTL DEF Spec, IsLogStream, Stream!Spec

-----------------------------------------------------------------------------
(***************************************************************************)
(* The server: the live log adds only steps of the buffer to the buffer.   *)
(***************************************************************************)

\* A step of the live log, as the buffer sees it.
LEMMA StepOfBuffer == [LNext]_liveVars => [Next]_vars
<1> SUFFICES ASSUME [LNext]_liveVars PROVE [Next]_vars
  OBVIOUS
<1>1. CASE Allocate \/ Delete \/ Shutdown
  BY <1>1 DEF Allocate, Delete, Shutdown
<1>2. CASE WriteLog \/ CloseBuffer
  BY <1>2 DEF WriteLog, CloseBuffer, Next
<1>3. ASSUME NEW r \in Requests, GetBuffer(r) \/ ServeBuffer(r) \/ RequestOver(r)
      PROVE  [Next]_vars
  BY <1>3 DEF Requests, GetBuffer, ServeBuffer, RequestOver, Next
<1>4. ASSUME NEW r \in Background, UploadSubscribe(r) PROVE [Next]_vars
  BY <1>4, ReadersAssumption DEF UploadSubscribe, Next
<1>5. ASSUME NEW r \in Readers, Reads(r) PROVE [Next]_vars
  BY <1>5 DEF Reads, Next
<1>6. CASE Quiet \/ UNCHANGED liveVars
  BY <1>6 DEF Quiet, liveVars
<1> QED
  BY <1>1, <1>2, <1>3, <1>4, <1>5, <1>6 DEF LNext

\* The live log server runs the buffer as it is meant to be run.
THEOREM LiveLogUsesBuffer == LSpec => Spec
BY StepOfBuffer, PTL DEF LSpec, LInit, Spec

\* What a request is served, and what an upload reads, is the log.
THEOREM LiveLogIsLogStream == LSpec => IsLogStream
BY LiveLogUsesBuffer, BufferIsLogStream, PTL

\* No request and no upload sleeps through the end of the log.
THEOREM LiveLogWakeups == LSpec => []NoLostWakeup
BY LiveLogUsesBuffer, WakeupsKept, PTL

\* The entry of a log is there from its allocation until its buffer is closed.
MapInv ==
    /\ wpc = "open" => inMap
    /\ wpc \in {"delete", "closed"} => closed
    /\ wpc \in {"unborn", "open", "delete", "closed"}
    /\ req \in [Requests -> {"none", "found", "notfound", "served"}]
    /\ wpc = "unborn" => \A r \in Requests : req[r] = "none"

\* Every step of the live log keeps the map and the buffer in agreement.
LEMMA NextMapInv ==
    MapInv /\ NotFoundMeansClosed /\ [LNext]_liveVars => MapInv' /\ NotFoundMeansClosed'
<1> SUFFICES ASSUME MapInv, NotFoundMeansClosed, [LNext]_liveVars
             PROVE  MapInv' /\ NotFoundMeansClosed'
  OBVIOUS
<1> USE DEF MapInv, NotFoundMeansClosed, vars, bufVars, serverVars
<1>same. ASSUME UNCHANGED <<closed, serverVars>> PROVE MapInv' /\ NotFoundMeansClosed'
  BY <1>same
<1>1. CASE Allocate \/ Delete \/ Shutdown
  BY <1>1 DEF Allocate, Delete, Shutdown
<1>2. CASE WriteLog
  BY <1>2, <1>same DEF WriteLog, Write
<1>3. CASE CloseBuffer
  BY <1>3 DEF CloseBuffer, Close
<1>4. ASSUME NEW r \in Requests, GetBuffer(r) PROVE MapInv' /\ NotFoundMeansClosed'
  BY <1>4 DEF GetBuffer
<1>5. ASSUME NEW r \in Requests, ServeBuffer(r) PROVE MapInv' /\ NotFoundMeansClosed'
  BY <1>5 DEF ServeBuffer, Subscribe
<1>6. ASSUME NEW r \in Requests, RequestOver(r) PROVE MapInv' /\ NotFoundMeansClosed'
  BY <1>6, <1>same DEF RequestOver, CtxCancelled
<1>7. ASSUME NEW r \in Background, UploadSubscribe(r) PROVE MapInv' /\ NotFoundMeansClosed'
  BY <1>7, <1>same DEF UploadSubscribe, Subscribe
<1>8. ASSUME NEW r \in Readers, Reads(r) PROVE MapInv' /\ NotFoundMeansClosed'
  BY <1>8, <1>same DEF Reads, CancelBroadcast, Read, ReadLock, ReadData, ReadEOF, ReadWait
<1>9. CASE Quiet \/ UNCHANGED liveVars
  BY <1>9, <1>same DEF Quiet, liveVars
<1> QED
  BY <1>1, <1>2, <1>3, <1>4, <1>5, <1>6, <1>7, <1>8, <1>9 DEF LNext

\* A request for an allocated log that is told Not Found asked too late: the
\* log is closed, although the map and the buffer have different mutexes.
THEOREM NotFoundIsLate == LSpec => []NotFoundMeansClosed
<1>1. LInit => MapInv /\ NotFoundMeansClosed
  BY DEF LInit, Init, MapInv, NotFoundMeansClosed
<1> QED
  BY <1>1, NextMapInv, PTL DEF LSpec

=============================================================================
