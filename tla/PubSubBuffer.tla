---------------------------- MODULE PubSubBuffer ----------------------------
(***************************************************************************)
(* internal/pubsubbuffer/pubsubbuffer.go: a byte buffer behind a mutex and *)
(* a condition variable, read by any number of subscriptions.              *)
(*                                                                         *)
(* Write, Close and the broadcast of a cancelled subscription hold the     *)
(* mutex from beginning to end and wait for nothing in between: each is    *)
(* one step, taken when the mutex is free. Read holds it across two        *)
(* steps, because the context it checks is cancelled without the mutex,    *)
(* and gives it up in cond.Wait. cond.Wait joins the list of waiters and   *)
(* releases the mutex in one step: all broadcasts are made under the mutex.*)
(* A subscription is read the way ServeHTTP and an upload read it: Read,   *)
(* pass the bytes on, and again until an error.                            *)
(***************************************************************************)
EXTENDS Integers, Sequences

CONSTANTS
    Bytes,       \* the bytes of a log
    Readers,     \* the subscriptions
    Background,  \* the readers subscribed with context.Background()
    Free,        \* "nobody holds the mutex"
    DestSize,    \* len(dest), the most one Read returns
    Chunks,      \* what one Write may write
    MaxLen       \* bound: the length of the log

ASSUME ReadersAssumption == Background \subseteq Readers /\ Free \notin Readers
ASSUME SizesAssumption == DestSize \in Nat \ {0} /\ MaxLen \in Nat
ASSUME ChunksAssumption == Chunks \subseteq Seq(Bytes)

VARIABLES
    buffer,     \* b.buffer
    closed,     \* b.closed
    lock,       \* the reader that holds b.lock between steps, or Free
    rpc,        \* where each reader is
    offset,     \* its offset
    out,        \* everything it has read
    ctxDone,    \* its context is done
    cpc         \* the goroutine Subscribe starts: "unborn", "waiting", "done"

bufVars == <<buffer, closed>>
vars == <<bufVars, lock, rpc, offset, out, ctxDone, cpc>>

Init ==
    /\ buffer = << >> /\ closed = FALSE /\ lock = Free
    /\ rpc = [r \in Readers |-> "absent"]
    /\ offset = [r \in Readers |-> 0]
    /\ out = [r \in Readers |-> << >>]
    /\ ctxDone = [r \in Readers |-> FALSE]
    /\ cpc = [r \in Readers |-> "unborn"]

\* cond.Broadcast: everyone in cond.Wait is to take the mutex again.
Broadcast(pcs) == [r \in Readers |-> IF pcs[r] = "wait" THEN "woken" ELSE pcs[r]]

-----------------------------------------------------------------------------
(* Buffer. *)

CloseQuietly ==
    /\ lock = Free
    /\ closed' = TRUE
    /\ UNCHANGED <<buffer, lock, rpc, offset, out, ctxDone, cpc>>

Close ==
    /\ lock = Free
    /\ closed' = TRUE
    /\ rpc' = Broadcast(rpc)
    /\ UNCHANGED <<buffer, lock, offset, out, ctxDone, cpc>>

\* A write to a closed buffer changes nothing and returns an error.
WriteQuietly(src) ==
    /\ lock = Free /\ ~closed /\ Len(buffer) + Len(src) <= MaxLen
    /\ buffer' = buffer \o src
    /\ UNCHANGED <<closed, lock, rpc, offset, out, ctxDone, cpc>>

Write(src) ==
    /\ lock = Free /\ ~closed /\ Len(buffer) + Len(src) <= MaxLen
    /\ buffer' = buffer \o src
    /\ rpc' = Broadcast(rpc)
    /\ UNCHANGED <<closed, lock, offset, out, ctxDone, cpc>>

\* Subscribe starts the goroutine that waits for ctx and returns a reader.
Subscribe(r) ==
    /\ rpc[r] = "absent"
    /\ rpc' = [rpc EXCEPT ![r] = "call"]
    /\ cpc' = [cpc EXCEPT ![r] = "waiting"]
    /\ UNCHANGED <<bufVars, lock, offset, out, ctxDone>>

\* The context of a subscription is cancelled; nobody holds the mutex for it.
CtxCancelled(r) ==
    /\ r \notin Background /\ ~ctxDone[r]
    /\ ctxDone' = [ctxDone EXCEPT ![r] = TRUE]
    /\ UNCHANGED <<bufVars, lock, rpc, offset, out, cpc>>

\* The goroutine of Subscribe, once <-ctx.Done() has returned.
CancelQuietly(r) ==
    /\ cpc[r] = "waiting" /\ ctxDone[r] /\ lock = Free
    /\ cpc' = [cpc EXCEPT ![r] = "done"]
    /\ UNCHANGED <<bufVars, lock, rpc, offset, out, ctxDone>>

CancelNever(r) == FALSE /\ UNCHANGED vars

CancelBroadcast(r) ==
    /\ cpc[r] = "waiting" /\ ctxDone[r] /\ lock = Free
    /\ rpc' = Broadcast(rpc)
    /\ cpc' = [cpc EXCEPT ![r] = "done"]
    /\ UNCHANGED <<bufVars, lock, offset, out, ctxDone>>

-----------------------------------------------------------------------------
(* reader.Read. *)

\* Read, or a cond.Wait that was woken, takes the mutex and checks the
\* context: a cancellation between the two is one before both.
ReadLock(r) ==
    /\ rpc[r] \in {"call", "woken"} /\ lock = Free
    /\ IF ctxDone[r]
         THEN rpc' = [rpc EXCEPT ![r] = "err"] /\ UNCHANGED lock
         ELSE rpc' = [rpc EXCEPT ![r] = "data"] /\ lock' = r
    /\ UNCHANGED <<bufVars, offset, out, ctxDone, cpc>>

ToCopy(r) ==
    LET remainder == Len(buffer) - offset[r]
    IN  IF remainder < DestSize THEN remainder ELSE DestSize

\* The bytes from offset on are copied, at most DestSize of them.
Copy(r) == SubSeq(buffer, offset[r] + 1, offset[r] + ToCopy(r))

\* ServeHTTP passes the bytes on: it reads again, or gives up if that fails.
PassedOn == {"call", "gone"}

ReadData(r) ==
    /\ rpc[r] = "data" /\ offset[r] < Len(buffer)
    /\ out' = [out EXCEPT ![r] = @ \o Copy(r)]
    /\ offset' = [offset EXCEPT ![r] = @ + ToCopy(r)]
    /\ \E l \in PassedOn : rpc' = [rpc EXCEPT ![r] = l]
    /\ lock' = Free
    /\ UNCHANGED <<bufVars, ctxDone, cpc>>

\* Everything is read and the buffer is closed.
EndsEarly(r) == closed \/ offset[r] > 0
Ends(r) == closed

ReadEOF(r) ==
    /\ rpc[r] = "data" /\ offset[r] >= Len(buffer) /\ Ends(r)
    /\ rpc' = [rpc EXCEPT ![r] = "eof"]
    /\ lock' = Free
    /\ UNCHANGED <<bufVars, offset, out, ctxDone, cpc>>

ReadWait(r) ==
    /\ rpc[r] = "data" /\ offset[r] >= Len(buffer) /\ ~Ends(r)
    /\ rpc' = [rpc EXCEPT ![r] = "wait"]
    /\ lock' = Free
    /\ UNCHANGED <<bufVars, offset, out, ctxDone, cpc>>

-----------------------------------------------------------------------------
Read(r) ==
    \/ ReadLock(r) \/ ReadData(r) \/ ReadEOF(r) \/ ReadWait(r)

Next ==
    \/ Close
    \/ \E src \in Chunks : Write(src)
    \/ \E r \in Readers :
         Subscribe(r) \/ CtxCancelled(r) \/ CancelBroadcast(r) \/ Read(r)

Spec == Init /\ [][Next]_vars

(***************************************************************************)
(* Fairness. A goroutine that can move does. (sync.Mutex promises more: it *)
(* hands itself to a goroutine that has waited for 1 ms, although others   *)
(* keep taking it; nobody takes it for ever here.) Nothing makes a         *)
(* subscription start, a context end or the writer close. Passing the      *)
(* bytes on is part of ReadData: a client is assumed to take what it is    *)
(* sent, or to go away.                                                    *)
(***************************************************************************)
Fairness ==
    \A r \in Readers : WF_vars(Read(r)) /\ WF_vars(CancelBroadcast(r))

-----------------------------------------------------------------------------
(* Properties. *)

\* The type invariant.
TypeOK ==
    /\ buffer \in Seq(Bytes) /\ closed \in BOOLEAN
    /\ lock \in Readers \cup {Free}
    /\ rpc \in [Readers -> {"absent", "call", "data", "wait", "woken", "eof",
                            "err", "gone"}]
    /\ offset \in [Readers -> Nat]
    /\ out \in [Readers -> Seq(Bytes)]
    /\ ctxDone \in [Readers -> BOOLEAN]
    /\ cpc \in [Readers -> {"unborn", "waiting", "done"}]

(***************************************************************************)
(* No wake-up is lost: a reader that sleeps in cond.Wait has nothing to    *)
(* read, the buffer is open, and if its context is done then the goroutine *)
(* that will wake it has still to take the mutex.                          *)
(***************************************************************************)
NoLostWakeup ==
    \A r \in Readers : rpc[r] = "wait" =>
        /\ offset[r] = Len(buffer) /\ ~closed
        /\ ctxDone[r] => cpc[r] = "waiting"

(***************************************************************************)
(* The mutex is held by exactly the reader that is between its Lock and    *)
(* its Unlock.                                                             *)
(***************************************************************************)
LockInv == \A r \in Readers : rpc[r] = "data" <=> lock = r

(***************************************************************************)
(* A reader has read a prefix of the buffer, as long as its offset says.   *)
(***************************************************************************)
PrefixRead ==
    \A r \in Readers : offset[r] <= Len(buffer) /\ out[r] = SubSeq(buffer, 1, offset[r])

Reading(r) == rpc[r] \notin {"absent", "eof", "err", "gone"}

(***************************************************************************)
(* The buffer is a log stream: what a reader has read, and how its         *)
(* subscription stands, as the abstract specification sees it.             *)
(***************************************************************************)
Status(pc) ==
    CASE pc \in {"absent", "eof"} -> pc
      [] pc = "err"  -> "cancelled"
      [] pc = "gone" -> "left"
      [] OTHER       -> "reading"

Stream == INSTANCE LogStream
            WITH log <- buffer, sealed <- closed, got <- out,
                 status <- [r \in Readers |-> Status(rpc[r])]

IsLogStream == Stream!Spec

(***************************************************************************)
(* Every byte that is written reaches every subscription, before or after  *)
(* it was written, unless the subscription is cancelled or left.           *)
(***************************************************************************)
EveryByteArrives ==
    \A r \in Readers, n \in 1 .. MaxLen :
        Reading(r) /\ Len(buffer) >= n ~> offset[r] >= n \/ ~Reading(r)

=============================================================================
