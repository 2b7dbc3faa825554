----------------------------- MODULE StepOutput -----------------------------
(***************************************************************************)
(* The output of a step on its way from docker to the task's log:          *)
(* dockerContainer.Run (internal/cri/docker.go) splits docker's log stream *)
(* into stdout and stderr, runStep (internal/worker/run.go) gives it two   *)
(* io.Pipes, and one goroutine per pipe, CopyToLogPrefix                   *)
(* (internal/log/log.go), turns the bytes into log entries.                *)
(*                                                                         *)
(* A Write to a pipe returns when its bytes have been read; a pipe keeps   *)
(* nothing. A copier reads into a buffer of BufSize bytes and emits a line *)
(* when the buffer holds one, and a full buffer without a line end as if   *)
(* it were a line (ReadLine's isPrefix is ignored). The end of Run closes  *)
(* the pipes but waits for no copier. Prefixes, colours and carriage       *)
(* returns are left out.                                                   *)
(***************************************************************************)
EXTENDS Integers, Sequences, SequencesExt

CONSTANTS
    Bytes,      \* the bytes a container writes
    NL,         \* the one that ends a line
    ReadMax,    \* max, the most Run reads at once
    BufSize,    \* the size of a copier's bufio.Reader
    MaxFrame,   \* bound: the length of a frame
    MaxOutput   \* bound: the length of the container's output

ASSUME BytesAssumption == NL \in Bytes
ASSUME SizesAssumption ==
    /\ ReadMax \in Nat \ {0} /\ BufSize \in Nat \ {0}
    /\ MaxFrame \in Nat /\ MaxOutput \in Nat

Streams == {"stdout", "stderr"}

VARIABLES
    rpc,      \* Run and the rest of runStep
    frame,    \* the frame Run is copying: its stream and what is left of it
    result,   \* what Run returned, "none" before
    sent,     \* what the container has written to each stream
    pipe,     \* the bytes of a Write that have not been read yet
    isOpen,   \* the write end of each pipe is open
    buf,      \* each copier's buffer
    copier,   \* "reading" or "ended"
    emitted   \* the log entries of each stream

runVars    == <<rpc, frame, result, sent>>
copierVars == <<buf, copier, emitted>>
vars == <<runVars, pipe, isOpen, copierVars>>

Init ==
    /\ rpc = "header" /\ result = "none"
    /\ frame = [s |-> "stdout", rest |-> << >>]
    /\ sent = [s \in Streams |-> << >>]
    /\ pipe = [s \in Streams |-> << >>] /\ isOpen = [s \in Streams |-> TRUE]
    /\ buf = [s \in Streams |-> << >>] /\ copier = [s \in Streams |-> "reading"]
    /\ emitted = [s \in Streams |-> << >>]

SmallerOf(m, n) == IF m < n THEN m ELSE n

-----------------------------------------------------------------------------
(* dockerContainer.Run. *)

Frames == UNION {[1 .. n -> Bytes] : n \in 1 .. MaxFrame}

\* A header, of the next frame of stdout or stderr.
ReadHeader ==
    /\ rpc = "header"
    /\ \E s \in Streams, data \in Frames :
         /\ Len(sent["stdout"]) + Len(sent["stderr"]) + Len(data) <= MaxOutput
         /\ frame' = [s |-> s, rest |-> data]
         /\ sent' = [sent EXCEPT ![s] = @ \o data]
    /\ rpc' = "data"
    /\ UNCHANGED <<result, pipe, isOpen, copierVars>>

\* A frame of stdin panics, one of a stream without a writer does in Write.
ReadOtherHeader ==
    /\ rpc = "header"
    /\ rpc' = "panic"
    /\ UNCHANGED <<frame, result, sent, pipe, isOpen, copierVars>>

\* At most ReadMax bytes of the frame are read and passed to Write.
ToRead == SmallerOf(Len(frame.rest), ReadMax)

\* n -= toRead.
Left == SubSeq(frame.rest, ToRead + 1, Len(frame.rest))

ReadChunk ==
    /\ rpc = "data"
    /\ pipe' = [pipe EXCEPT ![frame.s] = SubSeq(frame.rest, 1, ToRead)]
    /\ frame' = [frame EXCEPT !.rest = Left]
    /\ rpc' = "write"
    /\ UNCHANGED <<result, sent, isOpen, copierVars>>

\* w.Write returns once a copier has read everything.
WriteReturnsEarly ==
    /\ rpc = "write" /\ Len(pipe[frame.s]) < ReadMax
    /\ rpc' = IF frame.rest = << >> THEN "header" ELSE "data"
    /\ UNCHANGED <<frame, result, sent, pipe, isOpen, copierVars>>

WriteReturns ==
    /\ rpc = "write" /\ pipe[frame.s] = << >>
    /\ rpc' = IF frame.rest = << >> THEN "header" ELSE "data"
    /\ UNCHANGED <<frame, result, sent, pipe, isOpen, copierVars>>

\* The stream ends between two frames; then the exit code is asked for.
ReadEOF ==
    /\ rpc = "header"
    /\ rpc' = "returned" /\ result' \in {"ok", "err"}
    /\ UNCHANGED <<frame, sent, pipe, isOpen, copierVars>>

\* The stream breaks, or ctx is done.
ReadFails ==
    /\ rpc \in {"header", "data"}
    /\ rpc' = "returned" /\ result' = "err"
    /\ UNCHANGED <<frame, sent, pipe, isOpen, copierVars>>

-----------------------------------------------------------------------------
(* The rest of runStep: the deferred calls close both pipes, remove the    *)
(* container and send the result.                                          *)

ClosePipes ==
    /\ rpc = "returned"
    /\ isOpen' = [s \in Streams |-> FALSE]
    /\ rpc' = "done"
    /\ UNCHANGED <<frame, result, sent, pipe, copierVars>>

-----------------------------------------------------------------------------
(* CopyToLogPrefix. *)

HasLine(s) == NL \in ToSet(buf[s])

Emit(s, line) == emitted' = [emitted EXCEPT ![s] = Append(@, line)]

\* ReadLine reads more while its buffer has room and holds no line.
Fill(s) ==
    /\ rpc # "panic" /\ copier[s] = "reading" /\ pipe[s] # << >>
    /\ ~HasLine(s) /\ Len(buf[s]) < BufSize
    /\ LET n == SmallerOf(BufSize - Len(buf[s]), Len(pipe[s]))
       IN  /\ buf' = [buf EXCEPT ![s] = @ \o SubSeq(pipe[s], 1, n)]
           /\ pipe' = [pipe EXCEPT ![s] = SubSeq(@, n + 1, Len(@))]
    /\ UNCHANGED <<runVars, isOpen, copier, emitted>>

\* A line, without the byte that ends it.
EmitLine(s) ==
    /\ rpc # "panic" /\ copier[s] = "reading" /\ HasLine(s)
    /\ LET end == SelectInSeq(buf[s], LAMBDA b : b = NL)
       IN  /\ Emit(s, SubSeq(buf[s], 1, end - 1))
           /\ buf' = [buf EXCEPT ![s] = SubSeq(@, end + 1, Len(@))]
    /\ UNCHANGED <<runVars, pipe, isOpen, copier>>

\* bufio.ErrBufferFull: the buffer is emitted, the line goes on in the next.
LongLineRetried(s) ==
    /\ rpc # "panic" /\ copier[s] = "reading" /\ ~HasLine(s) /\ Len(buf[s]) = BufSize
    /\ UNCHANGED vars

LongLine(s) ==
    /\ rpc # "panic" /\ copier[s] = "reading" /\ ~HasLine(s) /\ Len(buf[s]) = BufSize
    /\ Emit(s, buf[s]) /\ buf' = [buf EXCEPT ![s] = << >>]
    /\ UNCHANGED <<runVars, pipe, isOpen, copier>>

\* io.EOF: what is left is a line, and the copier ends.
LastLineDropped(s) ==
    /\ rpc # "panic" /\ copier[s] = "reading" /\ ~HasLine(s) /\ Len(buf[s]) < BufSize
    /\ ~isOpen[s] /\ pipe[s] = << >>
    /\ copier' = [copier EXCEPT ![s] = "ended"]
    /\ UNCHANGED <<runVars, pipe, isOpen, buf, emitted>>

LastLine(s) ==
    /\ rpc # "panic" /\ copier[s] = "reading" /\ ~HasLine(s) /\ Len(buf[s]) < BufSize
    /\ ~isOpen[s] /\ pipe[s] = << >>
    /\ copier' = [copier EXCEPT ![s] = "ended"] /\ buf' = [buf EXCEPT ![s] = << >>]
    /\ IF buf[s] = << >> THEN UNCHANGED emitted ELSE Emit(s, buf[s])
    /\ UNCHANGED <<runVars, pipe, isOpen>>

Copier(s) == Fill(s) \/ EmitLine(s) \/ LongLine(s) \/ LastLine(s)

-----------------------------------------------------------------------------
\* The step is over and its copiers have ended, or the process is gone.
Over ==
    /\ rpc = "panic" \/ (rpc = "done" /\ \A s \in Streams : copier[s] = "ended")
    /\ UNCHANGED vars

Next ==
    \/ ReadHeader \/ ReadOtherHeader \/ ReadChunk \/ WriteReturns
    \/ ReadEOF \/ ReadFails \/ ClosePipes \/ Over
    \/ \E s \in Streams : Copier(s)

(***************************************************************************)
(* Fairness. Goroutines that can move do; the log stream owes nobody a     *)
(* frame or an end.                                                        *)
(***************************************************************************)
Spec ==
    /\ Init /\ [][Next]_vars
    /\ WF_vars(WriteReturns) /\ WF_vars(ClosePipes)
    /\ \A s \in Streams : WF_vars(Copier(s))

-----------------------------------------------------------------------------
(* Properties. *)

\* The type invariant.
TypeOK ==
    /\ rpc \in {"header", "data", "write", "returned", "done", "panic"}
    /\ result \in {"none", "ok", "err"}
    /\ frame \in [s : Streams, rest : Seq(Bytes)]
    /\ sent \in [Streams -> Seq(Bytes)] /\ pipe \in [Streams -> Seq(Bytes)]
    /\ buf \in [Streams -> Seq(Bytes)] /\ isOpen \in [Streams -> BOOLEAN]
    /\ copier \in [Streams -> {"reading", "ended"}]
    /\ emitted \in [Streams -> Seq(Seq(Bytes))]

\* The reference: the entries a stream of bytes c comes to. A line end ends
\* one, and so does the BufSize-th byte after the last end.
CutByte(acc, b) ==
    IF b = NL THEN [lines |-> Append(acc.lines, acc.part), part |-> << >>]
    ELSE IF Len(acc.part) + 1 = BufSize
         THEN [lines |-> Append(acc.lines, Append(acc.part, b)), part |-> << >>]
         ELSE [acc EXCEPT !.part = Append(@, b)]

NothingYet == [lines |-> << >>, part |-> << >>]

CutAll(c) == FoldLeft(CutByte, NothingYet, c)

Cut(c) ==
    LET all == CutAll(c)
    IN  IF all.part = << >> THEN all.lines ELSE Append(all.lines, all.part)

(***************************************************************************)
(* The log has the lines the container wrote, in the order of their        *)
(* stream, wherever docker's frames, Run's reads and the copier's buffer   *)
(* cut them, and all of them in the end if Run returned without an error.  *)
(***************************************************************************)
LinesFaithful ==
    \A s \in Streams :
        /\ copier[s] = "reading" => IsPrefix(emitted[s], Cut(sent[s]))
        /\ copier[s] = "ended" /\ result = "ok" => emitted[s] = Cut(sent[s])

\* The bytes of some entries.
AddLen(n, line) == n + Len(line)

Size(lines) == FoldLeft(AddLen, 0, lines)

Missing(s) == SubSeq(Cut(sent[s]), Len(emitted[s]) + 1, Len(Cut(sent[s])))

(***************************************************************************)
(* The copiers are not waited for, but when Run returns at most one buffer *)
(* of each stream is still to be logged: that is all that can come after   *)
(* the step's result, or be lost when the log is closed before it comes.   *)
(***************************************************************************)
LateOutputBounded == result = "ok" => \A s \in Streams : Size(Missing(s)) <= BufSize

(***************************************************************************)
(* A step's output never blocks the step for good, and once Run has        *)
(* returned both copiers end.                                              *)
(***************************************************************************)
OutputFlows ==
    /\ rpc = "write" ~> rpc # "write"
    /\ result # "none" ~> \A s \in Streams : copier[s] = "ended"

=============================================================================
