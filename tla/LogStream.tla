------------------------------ MODULE LogStream ------------------------------
(***************************************************************************)
(* What a pubsubbuffer.Buffer promises: one append-only log, and readers   *)
(* each of which receives the whole log in order, piece by piece, and is   *)
(* told the end of it only when the log is sealed and it has everything.   *)
(* A reader may also be cancelled at any point, or leave with any piece.   *)
(***************************************************************************)
EXTENDS Integers, Sequences

CONSTANTS
    Bytes,     \* the bytes of a log
    Readers    \* the subscriptions

VARIABLES
    log,       \* everything written so far
    sealed,    \* no more will be written
    got,       \* what each reader has received
    status     \* "absent", "reading", "eof", "cancelled", "left"

vars == <<log, sealed, got, status>>

Init ==
    /\ log = << >> /\ sealed = FALSE
    /\ got = [r \in Readers |-> << >>]
    /\ status = [r \in Readers |-> "absent"]

\* The log is extended by any number of bytes.
Write ==
    /\ ~sealed
    /\ log' \in Seq(Bytes) /\ Len(log') >= Len(log)
    /\ SubSeq(log', 1, Len(log)) = log
    /\ UNCHANGED <<sealed, got, status>>

Seal == sealed' = TRUE /\ UNCHANGED <<log, got, status>>

Join(r) ==
    /\ status[r] = "absent"
    /\ status' = [status EXCEPT ![r] = "reading"]
    /\ UNCHANGED <<log, sealed, got>>

\* A reader receives the next n bytes, and may leave with them.
Deliver(r) ==
    /\ status[r] = "reading"
    /\ \E n \in 1 .. Len(log) - Len(got[r]) :
         got' = [got EXCEPT ![r] = @ \o SubSeq(log, Len(@) + 1, Len(@) + n)]
    /\ \E s \in {"reading", "left"} : status' = [status EXCEPT ![r] = s]
    /\ UNCHANGED <<log, sealed>>

\* The end of the log, once there is no more to come.
End(r) ==
    /\ status[r] = "reading" /\ sealed /\ got[r] = log
    /\ status' = [status EXCEPT ![r] = "eof"]
    /\ UNCHANGED <<log, sealed, got>>

Cancel(r) ==
    /\ status[r] = "reading"
    /\ status' = [status EXCEPT ![r] = "cancelled"]
    /\ UNCHANGED <<log, sealed, got>>

Next ==
    \/ Write \/ Seal
    \/ \E r \in Readers : Join(r) \/ Deliver(r) \/ End(r) \/ Cancel(r)

Spec == Init /\ [][Next]_vars

=============================================================================
