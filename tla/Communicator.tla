---------------------------- MODULE Communicator ----------------------------
(***************************************************************************)
(* The worker-runner protocol: Communicator, Parse and the senders of      *)
(* internal/workerproto, as cmd_run.go uses them. Both ends are modelled   *)
(* by the same code; the runner's end, which is another program, differs   *)
(* in isWorker, in its capabilities and in the handlers it has for them.   *)
(*                                                                         *)
(* Run replaces the writer, greets (the runner), copies what was sent      *)
(* before into the new writer and reads lines for ever. Send reads         *)
(* c.writer and writes to it in two steps, with no mutex, from any         *)
(* goroutine: what it writes to the old buffer after the copy stays there. *)
(* A packet is written by one Write and arrives as one line.               *)
(***************************************************************************)
EXTENDS Integers, Sequences

CONSTANTS
    Caps,        \* capabilities
    WorkerCaps,  \* the ones cmd_run.go adds
    MaxNoise     \* bound: lines on the worker's input that are no packets

ASSUME CapsAssumption ==
    /\ {"log", "error-report", "shutdown", "graceful-termination"} \subseteq WorkerCaps
    /\ WorkerCaps \subseteq Caps
ASSUME NoiseAssumption == MaxNoise \in Nat

Ends == {"worker", "runner"}
Peer(e) == IF e = "worker" THEN "runner" ELSE "worker"

VARIABLES
    local,    \* c.localCapabilities of each end
    remote,   \* c.remoteCapabilities
    pc,       \* Run: "new", "welcome", "copy", "parse", "hello", "ended", "panic"
    cause,    \* the line that ended it, "none" before
    writer,   \* c.writer: "buffer" or "stream"
    old,      \* what the bytes.Buffer holds
    input,    \* the lines each end has still to read
    got,      \* the types of the packets each end has handled
    sender,   \* each Send: "idle", the writer it has read, then "done"
    noise     \* lines sent to the worker that are no packets

runVars == <<pc, cause>>
vars == <<local, remote, runVars, writer, old, input, got, sender, noise>>

Packet(t, caps) == [type |-> t, caps |-> caps]

\* The goroutines that send: a log entry, a shutdown request of the worker
\* and a termination request of the runner.
Senders == {"log", "shutdown", "graceful-termination"}
EndOf(g) == IF g = "graceful-termination" THEN "runner" ELSE "worker"

\* Every packet type has the name of its capability.
Handlers(e) ==
    {"welcome", "hello"} \cup
    (IF e = "worker" THEN {"graceful-termination"}
                     ELSE local[e] \ {"graceful-termination"})

HasCapabilityRemotely(e, c) == c \in remote[e]
HasCapability(e, c) == c \in local[e] /\ c \in remote[e]

Init ==
    /\ local \in {f \in [Ends -> SUBSET Caps] : f["worker"] = WorkerCaps}
    /\ remote = [e \in Ends |-> {}]
    /\ pc = [e \in Ends |-> "new"] /\ cause = [e \in Ends |-> "none"]
    /\ writer = [e \in Ends |-> "buffer"]
    /\ old = [e \in Ends |-> << >>] /\ input = [e \in Ends |-> << >>]
    /\ got = [e \in Ends |-> {}]
    /\ sender = [g \in Senders |-> "idle"]
    /\ noise = 0

\* Packets p are written to the stream of end e.
Deliver(e, p) == input' = [input EXCEPT ![Peer(e)] = @ \o p]

GoesTo(e, l) == pc' = [pc EXCEPT ![e] = l] /\ UNCHANGED cause

-----------------------------------------------------------------------------
(* Run. *)

StartRun(e) ==
    /\ pc[e] = "new"
    /\ writer' = [writer EXCEPT ![e] = "stream"]
    /\ GoesTo(e, IF e = "worker" THEN "copy" ELSE "welcome")
    /\ UNCHANGED <<local, remote, old, input, got, sender, noise>>

SendWelcome(e) ==
    /\ pc[e] = "welcome"
    /\ Deliver(e, <<Packet("welcome", local[e])>>)
    /\ GoesTo(e, "copy")
    /\ UNCHANGED <<local, remote, writer, old, got, sender, noise>>

CopyForgotten(e) ==
    /\ pc[e] = "copy"
    /\ old' = [old EXCEPT ![e] = << >>]
    /\ GoesTo(e, "parse")
    /\ UNCHANGED <<local, remote, writer, input, got, sender, noise>>

CopyOldWriter(e) ==
    /\ pc[e] = "copy"
    /\ Deliver(e, old[e])
    /\ old' = [old EXCEPT ![e] = << >>]
    /\ GoesTo(e, "parse")
    /\ UNCHANGED <<local, remote, writer, got, sender, noise>>

-----------------------------------------------------------------------------
(* Parse and the handlers. Reading(e, t): the next line is one of type t.  *)

Reading(e, t) == pc[e] = "parse" /\ input[e] # << >> /\ Head(input[e]).type = t
ReadLine(e) == input' = [input EXCEPT ![e] = Tail(@)]

\* Parse returns, because of line l.
Returns(e, l) == pc' = [pc EXCEPT ![e] = "ended"] /\ cause' = [cause EXCEPT ![e] = l]

\* onHello adds the capabilities of the other end; onWelcome does it too
\* and answers with its own.
Meets(e) ==
    /\ remote' = [remote EXCEPT ![e] = @ \cup Head(input[e]).caps]
    /\ got' = [got EXCEPT ![e] = @ \cup {Head(input[e]).type}]
    /\ ReadLine(e)

OnHello(e) ==
    /\ Reading(e, "hello")
    /\ Meets(e)
    /\ UNCHANGED <<local, runVars, writer, old, sender, noise>>

OnWelcomeSilent(e) ==
    /\ Reading(e, "welcome")
    /\ Meets(e)
    /\ UNCHANGED <<local, runVars, writer, old, sender, noise>>

OnWelcome(e) ==
    /\ Reading(e, "welcome")
    /\ Meets(e)
    /\ GoesTo(e, "hello")
    /\ UNCHANGED <<local, writer, old, sender, noise>>

SendHello(e) ==
    /\ pc[e] = "hello"
    /\ Deliver(e, <<Packet("hello", local[e])>>)
    /\ GoesTo(e, "parse")
    /\ UNCHANGED <<local, remote, writer, old, got, sender, noise>>

\* Any other packet goes to its handler; one without a handler ends Run.
OnPacket(e, t) ==
    /\ Reading(e, t)
    /\ ReadLine(e)
    /\ IF t \in Handlers(e)
         THEN got' = [got EXCEPT ![e] = @ \cup {t}] /\ UNCHANGED runVars
         ELSE Returns(e, t) /\ UNCHANGED got
    /\ UNCHANGED <<local, remote, writer, old, sender, noise>>

\* A line of text is logged; a packet with something behind it on its line
\* is passed on with it, which no handler can unmarshal; line[1] of a line
\* that is only a tilde is out of range.
OnNoise(e) ==
    /\ \/ Reading(e, "text") /\ UNCHANGED runVars
       \/ Reading(e, "packet and text") /\ Returns(e, "packet and text")
       \/ Reading(e, "tilde") /\ GoesTo(e, "panic")
    /\ ReadLine(e)
    /\ UNCHANGED <<local, remote, writer, old, got, sender, noise>>

\* The other end closes the stream.
OnEOF(e) ==
    /\ pc[e] = "parse" /\ input[e] = << >>
    /\ Returns(e, "eof")
    /\ UNCHANGED <<local, remote, writer, old, input, got, sender, noise>>

Run(e) ==
    \/ StartRun(e) \/ SendWelcome(e) \/ CopyOldWriter(e) \/ OnHello(e) \/ OnWelcome(e)
    \/ SendHello(e) \/ (\E t \in Senders : OnPacket(e, t)) \/ OnNoise(e)

-----------------------------------------------------------------------------
(* Send. *)

\* sendLog asks for the capability, and so does the runner; the worker's
\* shutdown request does not.
GateOpen(g) == TRUE
Gate(g) == g # "shutdown" => HasCapability(EndOf(g), g)

\* Send reads c.writer.
SendReads(g) ==
    /\ sender[g] = "idle" /\ Gate(g) /\ pc[EndOf(g)] # "panic"
    /\ sender' = [sender EXCEPT ![g] = writer[EndOf(g)]]
    /\ UNCHANGED <<local, remote, runVars, writer, old, input, got, noise>>

\* Write, to the writer that was read.
SendWrites(g) ==
    LET e == EndOf(g)
        p == <<Packet(g, {})>>
    IN  /\ pc[e] # "panic"
        /\ \/ sender[g] = "buffer" /\ old' = [old EXCEPT ![e] = @ \o p] /\ UNCHANGED input
           \/ sender[g] = "stream" /\ Deliver(e, p) /\ UNCHANGED old
        /\ sender' = [sender EXCEPT ![g] = "done"]
        /\ UNCHANGED <<local, remote, runVars, writer, got, noise>>

\* Something that is no packet comes in on the worker's standard input.
Noise ==
    /\ noise < MaxNoise
    /\ \E t \in {"text", "packet and text", "tilde"} : Deliver("runner", <<Packet(t, {})>>)
    /\ noise' = noise + 1
    /\ UNCHANGED <<local, remote, runVars, writer, old, got, sender>>

-----------------------------------------------------------------------------
Over(e) == pc[e] \in {"ended", "panic"}

\* Both ends have stopped reading.
Stopped == (\A e \in Ends : Over(e)) /\ UNCHANGED vars

Next ==
    \/ \E e \in Ends : Run(e) \/ OnEOF(e)
    \/ \E g \in Senders : SendReads(g) \/ SendWrites(g)
    \/ Noise \/ Stopped

(***************************************************************************)
(* Fairness. Run and a Send that has begun go on; nobody has to send, and  *)
(* nobody has to hang up.                                                  *)
(***************************************************************************)
Spec ==
    /\ Init /\ [][Next]_vars
    /\ \A e \in Ends : WF_vars(Run(e))
    /\ \A g \in Senders : WF_vars(SendWrites(g))

-----------------------------------------------------------------------------
(* Properties. *)

LineTypes == Senders \cup {"welcome", "hello", "text", "packet and text", "tilde"}
Lines == [type : LineTypes, caps : SUBSET Caps]

\* The type invariant.
TypeOK ==
    /\ local \in [Ends -> SUBSET Caps] /\ remote \in [Ends -> SUBSET Caps]
    /\ pc \in [Ends -> {"new", "welcome", "copy", "parse", "hello", "ended", "panic"}]
    /\ cause \in [Ends -> LineTypes \cup {"none", "eof"}]
    /\ writer \in [Ends -> {"buffer", "stream"}]
    /\ old \in [Ends -> Seq(Lines)] /\ input \in [Ends -> Seq(Lines)]
    /\ got \in [Ends -> SUBSET LineTypes]
    /\ sender \in [Senders -> {"idle", "buffer", "stream", "done"}]
    /\ noise \in 0 .. MaxNoise

(***************************************************************************)
(* HasCapability is true only if both ends support the capability, and     *)
(* never at the runner before it is at the worker: what the runner relies  *)
(* on, the worker knows.                                                   *)
(***************************************************************************)
CapabilitiesShared ==
    \A c \in Caps :
        /\ \A e \in Ends : HasCapability(e, c) => \A f \in Ends : c \in local[f]
        /\ HasCapability("runner", c) => HasCapability("worker", c)

(***************************************************************************)
(* No end is ever stopped by a packet the other one was not entitled to    *)
(* send: only the shutdown request, which asks for no capability, can meet *)
(* a runner without a handler for it.                                      *)
(***************************************************************************)
OnlyHandledPackets ==
    \A e \in Ends : cause[e] \in LineTypes =>
        \/ cause[e] = "packet and text"
        \/ e = "runner" /\ cause[e] = "shutdown" /\ "shutdown" \notin local["runner"]

\* The packet was written to the buffer after Run had copied it.
Stranded(g) == writer[EndOf(g)] = "stream" /\ \E i \in DOMAIN old[EndOf(g)] : old[EndOf(g)][i].type = g

(***************************************************************************)
(* A packet that was sent, before Run or during it, is handled by the      *)
(* other end, unless that end has stopped reading or the Send had read     *)
(* c.writer before Run replaced it and wrote after Run's copy.             *)
(***************************************************************************)
PacketsArrive ==
    \A g \in Senders :
        sender[g] = "done" ~> g \in got[Peer(EndOf(g))] \/ Over(Peer(EndOf(g))) \/ Stranded(g)

(***************************************************************************)
(* When both ends run they come to agree on the capabilities they share,   *)
(* unless one of them stops.                                               *)
(***************************************************************************)
HandshakeCompletes ==
    (\A e \in Ends : pc[e] # "new") ~>
        \/ \E e \in Ends : Over(e)
        \/ \A e \in Ends, c \in local["worker"] \cap local["runner"] : HasCapability(e, c)

=============================================================================
