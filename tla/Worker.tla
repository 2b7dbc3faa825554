------------------------------- MODULE Worker -------------------------------
(***************************************************************************)
(* The worker's life cycle: Worker.Run of internal/worker/worker.go, with  *)
(* everything that can end it: the two-stage signal handler of main.go and *)
(* the graceful-termination handler of internal/workerproto/shutdown.go.   *)
(*                                                                         *)
(* The goroutines of the program that take part are                        *)
(*   - the main loop, a select over ctx.Done(), stopCh, completedTasks     *)
(*     and workRes (the variables pc .. workResNil);                       *)
(*   - the claimer, which turns one number received on workReq into one    *)
(*     response sent on workRes, retrying with backoff (claimer .. resp);  *)
(*   - one goroutine per running task, here only its slot and its end      *)
(*     (module RunTask has the inside of it);                              *)
(*   - the signal handler, the goroutine that cancels safeCtx, and the     *)
(*     communicator that runs the graceful-termination handler.            *)
(* workReq and workRes are unbuffered: a send and its receive are one step.*)
(* When Run returns the process exits, so no goroutine moves after that.   *)
(***************************************************************************)
EXTENDS Integers, Sequences, FiniteSets

CONSTANTS
    Tasks,            \* the tasks the queue may hand to this worker
    NoTask,           \* "this slot runs nothing"
    ConcurrentTasks,  \* config.ConcurrentTasks
    ShutdownOnIdle,   \* config.ShutdownOnIdleSeconds # nil
    Packets           \* the graceful-termination packets the runner may send

ASSUME TasksAssumption == IsFiniteSet(Tasks) /\ NoTask \notin Tasks
ASSUME ConcurrencyAssumption == ConcurrentTasks \in Nat \ {0}
ASSUME ConfigAssumption ==
    /\ ShutdownOnIdle \in BOOLEAN
    /\ Packets \subseteq {"finish", "now", "malformed"}

VARIABLES
    \* The main loop.
    pc,              \* "send": blocked in workReq <- toSend; "select"; "starting": in the loop over resp.Tasks
    exit,            \* why Run returned, "none" while it has not
    toSend,          \* the number the main loop is sending on workReq
    pend,            \* the claims of resp.Tasks not started yet
    freeSlots,       \* a stack of slots
    isFull,
    idleSince,       \* "nil", "recent", or "expired" once longer ago than shutdownOnIdleSecs
    isShuttingDown,
    ctxDoneNil,      \* ctxDone has been set to nil
    workResNil,      \* workRes has been set to nil
    \* The claimer.
    claimer,         \* "waiting" in range workReq, "claiming", "backoff", "sending" on workRes, "exited"
    req,             \* the number received from workReq
    resp,            \* the tasks of the response being sent
    \* The tasks.
    running,         \* the task each slot's goroutine runs
    completedTasks,  \* the buffered channel of slots
    fate,            \* what has become of each task
    \* The ways to be told to stop.
    signals,         \* signals the handler of main.go has taken
    safeCancelled,   \* safeCancel has been called
    stopBuf,         \* the contents of stopCh, a channel of capacity 1
    stopClosed,      \* stopCh has been closed
    handler,         \* the graceful-termination handler: "idle", "closing", "dead"
    asked            \* the packets received so far

loopVars  == <<pc, exit, toSend, pend, freeSlots, isFull, idleSince,
               isShuttingDown, ctxDoneNil, workResNil>>
claimVars == <<claimer, req, resp>>
taskVars  == <<running, completedTasks, fate>>
stopVars  == <<signals, safeCancelled, stopBuf, stopClosed, handler, asked>>
vars      == <<loopVars, claimVars, taskVars, stopVars>>

Slots == 0 .. ConcurrentTasks - 1

\* The capacity completedTasks is made with.
CapacityOneShort == ConcurrentTasks - 1
Capacity == ConcurrentTasks

\* The number asked for once the tasks of a response are started.
WantedAlwaysAll == ConcurrentTasks
Wanted == Len(freeSlots)

\* No task is running: every slot is free.
IdleOffByOne == Len(freeSlots) = ConcurrentTasks - 1
Idle == Len(freeSlots) = ConcurrentTasks

\* The slot the next task is started on.
NextSlotFirst == freeSlots[1]
NextSlot == freeSlots[Len(freeSlots)]

\* The claimer has nothing to do: a freed slot makes the loop ask again.
AsksAgainNever == FALSE
AsksAgainAlways == TRUE
AsksAgain == isFull

\* An empty response to a worker that has been idle for too long.
IdleTooLongEmptyOnly == ShutdownOnIdle /\ resp = {}
IdleTooLong == ShutdownOnIdle /\ resp = {} /\ idleSince = "expired"

Live == exit = "none"

\* ctx is cancelled by the second signal only; safeCtx is its child.
CtxDone  == signals = 2
SafeDone == safeCancelled \/ CtxDone

Queued == {t \in Tasks : fate[t] = "queued"}

Init ==
    /\ pc = "send" /\ exit = "none" /\ toSend = ConcurrentTasks /\ pend = {}
    /\ freeSlots = [i \in 1 .. ConcurrentTasks |-> i - 1]
    /\ isFull = FALSE /\ idleSince = "recent" /\ isShuttingDown = FALSE
    /\ ctxDoneNil = FALSE /\ workResNil = FALSE
    /\ claimer = "waiting" /\ req = 0 /\ resp = {}
    /\ running = [s \in Slots |-> NoTask]
    /\ completedTasks = << >>
    /\ fate = [t \in Tasks |-> "queued"]
    /\ signals = 0 /\ safeCancelled = FALSE
    /\ stopBuf = << >> /\ stopClosed = FALSE /\ handler = "idle" /\ asked = {}

-----------------------------------------------------------------------------
(* The main loop. *)

\* workReq <- toSend meets the claimer's range workReq.
SendRequest ==
    /\ Live /\ pc = "send" /\ claimer = "waiting"
    /\ pc' = "select" /\ toSend' = 0
    /\ claimer' = "claiming" /\ req' = toSend
    /\ UNCHANGED <<exit, pend, freeSlots, isFull, idleSince, isShuttingDown,
                   ctxDoneNil, workResNil, resp, taskVars, stopVars>>

\* case <-ctxDone: the channel is taken once, then set to nil.
RecvCtxDone ==
    /\ Live /\ pc = "select" /\ CtxDone /\ ~ctxDoneNil
    /\ isShuttingDown' = TRUE /\ ctxDoneNil' = TRUE
    /\ exit' = IF Idle THEN "ctx" ELSE "none"
    /\ UNCHANGED <<pc, toSend, pend, freeSlots, isFull, idleSince, workResNil,
                   claimVars, taskVars, stopVars>>

\* case finishTasks := <-w.stopCh: a closed and drained channel yields FALSE.
RecvStop ==
    /\ Live /\ pc = "select" /\ (stopBuf # << >> \/ stopClosed)
    /\ IF stopBuf # << >> /\ Head(stopBuf)
         THEN isShuttingDown' = TRUE /\ UNCHANGED exit
         ELSE exit' = "immediate" /\ UNCHANGED isShuttingDown
    /\ stopBuf' = << >>
    /\ UNCHANGED <<pc, toSend, pend, freeSlots, isFull, idleSince, ctxDoneNil,
                   workResNil, claimVars, taskVars, signals, safeCancelled,
                   stopClosed, handler, asked>>

\* case idx := <-completedTasks: free the slot; return when shutting down and
\* idle; otherwise ask for one more task if the worker was full.
RecvCompleted ==
    /\ Live /\ pc = "select" /\ completedTasks # << >>
    /\ completedTasks' = Tail(completedTasks)
    /\ freeSlots' = Append(freeSlots, Head(completedTasks))
    /\ LET returns == isShuttingDown /\ Idle'
       IN  /\ idleSince' = IF idleSince = "nil" /\ Idle' THEN "recent" ELSE idleSince
           /\ exit' = IF returns THEN (IF CtxDone THEN "ctx" ELSE "drained") ELSE "none"
           /\ IF AsksAgain /\ ~returns
                THEN isFull' = FALSE /\ pc' = "send" /\ toSend' = 1
                ELSE UNCHANGED <<isFull, pc, toSend>>
    /\ UNCHANGED <<pend, isShuttingDown, ctxDoneNil, workResNil, claimVars,
                   running, fate, stopVars>>

\* case resp := <-workRes with a response: shut down if idle for too long, drop
\* the claims if shutting down, start them otherwise.
RecvResponse ==
    /\ Live /\ pc = "select" /\ claimer = "sending" /\ ~workResNil
    /\ claimer' = "waiting" /\ req' = 0 /\ resp' = {}
    /\ \/ /\ IdleTooLong
          /\ exit' = "idle"
          /\ UNCHANGED <<pc, pend, fate>>
       \/ /\ ~IdleTooLong /\ isShuttingDown
          /\ fate' = [t \in Tasks |-> IF t \in resp THEN "dropped" ELSE fate[t]]
          /\ UNCHANGED <<pc, pend, exit>>
       \/ /\ ~IdleTooLong /\ ~isShuttingDown
          /\ pc' = "starting" /\ pend' = resp
          /\ UNCHANGED <<exit, fate>>
    /\ UNCHANGED <<toSend, freeSlots, isFull, idleSince, isShuttingDown,
                   ctxDoneNil, workResNil, running, completedTasks, stopVars>>

\* case resp := <-workRes on the closed channel: the claimer has given up.
RecvClosed ==
    /\ Live /\ pc = "select" /\ claimer = "exited" /\ ~workResNil
    /\ workResNil' = TRUE /\ isShuttingDown' = TRUE
    /\ exit' = IF Idle THEN "drained" ELSE "none"
    /\ UNCHANGED <<pc, toSend, pend, freeSlots, isFull, idleSince, ctxDoneNil,
                   claimVars, taskVars, stopVars>>

\* One iteration of the loop over resp.Tasks: the last free slot is popped and
\* the task's goroutine started on it.
StartTask(t) ==
    /\ Live /\ pc = "starting" /\ t \in pend
    /\ freeSlots' = SubSeq(freeSlots, 1, Len(freeSlots) - 1)
    /\ pend' = pend \ {t}
    /\ running' = [running EXCEPT ![NextSlot] = t]
    /\ fate' = [fate EXCEPT ![t] = "running"]
    /\ idleSince' = "nil"
    /\ UNCHANGED <<pc, exit, toSend, isFull, isShuttingDown, ctxDoneNil,
                   workResNil, claimVars, completedTasks, stopVars>>

\* The end of the loop: ask for as many tasks as there are free slots.
AskForMore ==
    /\ Live /\ pc = "starting" /\ pend = {}
    /\ \/ Len(freeSlots) > 0 /\ pc' = "send" /\ toSend' = Wanted /\ UNCHANGED isFull
       \/ Len(freeSlots) = 0 /\ pc' = "select" /\ isFull' = TRUE /\ UNCHANGED toSend
    /\ UNCHANGED <<exit, pend, freeSlots, idleSince, isShuttingDown, ctxDoneNil,
                   workResNil, claimVars, taskVars, stopVars>>

\* The clock passes idleSince + shutdownOnIdleSecs.
IdleTimePasses ==
    /\ Live /\ idleSince = "recent"
    /\ idleSince' = "expired"
    /\ UNCHANGED <<pc, exit, toSend, pend, freeSlots, isFull, isShuttingDown,
                   ctxDoneNil, workResNil, claimVars, taskVars, stopVars>>

-----------------------------------------------------------------------------
(* The claimer. *)

\* ClaimWork hands over at most as many queued tasks as were asked for.
ClaimWork ==
    /\ Live /\ claimer = "claiming"
    /\ \E S \in SUBSET Queued :
         /\ Cardinality(S) <= req
         /\ resp' = S
         /\ fate' = [t \in Tasks |-> IF t \in S THEN "claimed" ELSE fate[t]]
    /\ claimer' = "sending"
    /\ UNCHANGED <<req, loopVars, running, completedTasks, stopVars>>

\* ClaimWork fails. The request itself has no context and is never cancelled;
\* the backoff has one, safeCtx, and stops at once when it is done.
ClaimFails ==
    /\ Live /\ claimer = "claiming"
    /\ claimer' = IF SafeDone THEN "exited" ELSE "backoff"
    /\ UNCHANGED <<req, resp, loopVars, taskVars, stopVars>>

BackoffExpires ==
    /\ Live /\ claimer = "backoff"
    /\ claimer' = "claiming"
    /\ UNCHANGED <<req, resp, loopVars, taskVars, stopVars>>

BackoffCancelled ==
    /\ Live /\ claimer = "backoff" /\ SafeDone
    /\ claimer' = "exited"
    /\ UNCHANGED <<req, resp, loopVars, taskVars, stopVars>>

-----------------------------------------------------------------------------
(* The task goroutines. *)

\* RunTask returns and the deferred function sends the slot.
TaskReturns(s) ==
    /\ Live /\ running[s] # NoTask
    /\ Len(completedTasks) < Capacity
    /\ completedTasks' = Append(completedTasks, s)
    /\ running' = [running EXCEPT ![s] = NoTask]
    /\ fate' = [fate EXCEPT ![running[s]] = "finished"]
    /\ UNCHANGED <<loopVars, claimVars, stopVars>>

-----------------------------------------------------------------------------
(* Being told to stop. *)

\* The first signal closes the gracefulStop channel, the second cancels ctx.
Signal ==
    /\ Live /\ signals < 2
    /\ signals' = signals + 1
    /\ UNCHANGED <<loopVars, claimVars, taskVars, safeCancelled, stopBuf,
                   stopClosed, handler, asked>>

\* The goroutine that waits for gracefulStop cancels safeCtx.
SafeCancel ==
    /\ Live /\ signals > 0 /\ ~safeCancelled
    /\ safeCancelled' = TRUE
    /\ UNCHANGED <<loopVars, claimVars, taskVars, signals, stopBuf, stopClosed,
                   handler, asked>>

\* The handler of a graceful-termination packet. A malformed packet closes the
\* channel and ends the communicator; on a closed channel both the send and
\* the deferred close panic.
OnGracefulTermination(p) ==
    /\ Live /\ handler = "idle"
    /\ asked' = asked \cup {p}
    /\ \/ stopClosed /\ exit' = "panic" /\ UNCHANGED <<stopBuf, stopClosed, handler>>
       \/ /\ ~stopClosed /\ p = "malformed"
          /\ stopClosed' = TRUE /\ handler' = "dead" /\ UNCHANGED <<stopBuf, exit>>
       \/ /\ ~stopClosed /\ p # "malformed"
          /\ stopBuf' = <<p = "finish">> /\ handler' = "closing"
          /\ UNCHANGED <<stopClosed, exit>>
    /\ UNCHANGED <<pc, toSend, pend, freeSlots, isFull, idleSince,
                   isShuttingDown, ctxDoneNil, workResNil, claimVars, taskVars,
                   signals, safeCancelled>>

\* The handler's deferred close(ch).
CloseStopCh ==
    /\ Live /\ handler = "closing"
    /\ stopClosed' = TRUE /\ handler' = "idle"
    /\ UNCHANGED <<loopVars, claimVars, taskVars, signals, safeCancelled,
                   stopBuf, asked>>

\* The process has exited.
Terminated == ~Live /\ UNCHANGED vars

-----------------------------------------------------------------------------
Next ==
    \/ SendRequest \/ RecvCtxDone \/ RecvStop \/ RecvCompleted \/ RecvResponse
    \/ RecvClosed \/ AskForMore \/ IdleTimePasses
    \/ \E t \in Tasks : StartTask(t)
    \/ ClaimWork \/ ClaimFails \/ BackoffExpires \/ BackoffCancelled
    \/ \E s \in Slots : TaskReturns(s)
    \/ Signal \/ SafeCancel \/ CloseStopCh
    \/ \E p \in Packets : OnGracefulTermination(p)
    \/ Terminated

Spec == Init /\ [][Next]_vars

(***************************************************************************)
(* Fairness. The Go scheduler runs every runnable goroutine, which is weak *)
(* fairness of its next step; select picks uniformly among the ready       *)
(* cases, so a case that is ready again and again is taken: strong         *)
(* fairness of each case. An HTTP request ends one way or the other, a     *)
(* backoff timer fires, and RunTask returns (RunTask!TaskEnds, given that  *)
(* no upload of a log hangs). Nothing makes a signal, a packet or an idle  *)
(* period happen.                                                          *)
(***************************************************************************)
LoopFairness ==
    /\ WF_vars(SendRequest) /\ WF_vars(AskForMore)
    /\ WF_vars(\E t \in Tasks : StartTask(t))
    /\ SF_vars(RecvCtxDone) /\ SF_vars(RecvStop) /\ SF_vars(RecvCompleted)
    /\ SF_vars(RecvResponse) /\ SF_vars(RecvClosed)

Fairness ==
    /\ LoopFairness
    /\ WF_vars(ClaimWork \/ ClaimFails)
    /\ WF_vars(BackoffExpires \/ BackoffCancelled)
    /\ \A s \in Slots : WF_vars(TaskReturns(s))
    /\ WF_vars(SafeCancel) /\ WF_vars(CloseStopCh)

FairSpec == Spec /\ Fairness

-----------------------------------------------------------------------------
(* Properties. *)

LoopTypeOK ==
    /\ pc \in {"send", "select", "starting"}
    /\ exit \in {"none", "ctx", "drained", "idle", "immediate", "panic"}
    /\ toSend \in 0 .. ConcurrentTasks
    /\ pend \in SUBSET Tasks
    /\ freeSlots \in Seq(Slots)
    /\ isFull \in BOOLEAN /\ isShuttingDown \in BOOLEAN
    /\ idleSince \in {"nil", "recent", "expired"}
    /\ ctxDoneNil \in BOOLEAN /\ workResNil \in BOOLEAN

ClaimTypeOK ==
    /\ claimer \in {"waiting", "claiming", "backoff", "sending", "exited"}
    /\ req \in 0 .. ConcurrentTasks
    /\ resp \in SUBSET Tasks

TaskTypeOK ==
    /\ running \in [Slots -> Tasks \cup {NoTask}]
    /\ completedTasks \in Seq(Slots)
    /\ fate \in [Tasks -> {"queued", "claimed", "running", "finished", "dropped"}]

StopTypeOK ==
    /\ signals \in 0 .. 2 /\ safeCancelled \in BOOLEAN
    /\ stopBuf \in {<< >>, <<TRUE>>, <<FALSE>>} /\ stopClosed \in BOOLEAN
    /\ handler \in {"idle", "closing", "dead"}
    /\ asked \in SUBSET Packets

\* The type invariant.
TypeOK == LoopTypeOK /\ ClaimTypeOK /\ TaskTypeOK /\ StopTypeOK

Elements(seq) == {seq[i] : i \in 1 .. Len(seq)}
Distinct(seq) == \A i, j \in 1 .. Len(seq) : seq[i] = seq[j] => i = j
Busy == {s \in Slots : running[s] # NoTask}

(***************************************************************************)
(* Every slot is in exactly one place: free, running a task, or on its way *)
(* back through completedTasks. A slot handed out twice would run two      *)
(* tasks under one index; a slot lost would shrink the worker for good.    *)
(***************************************************************************)
SlotsAccounted ==
    /\ Distinct(freeSlots) /\ Distinct(completedTasks)
    /\ Elements(freeSlots) \cup Elements(completedTasks) \cup Busy = Slots
    /\ Elements(freeSlots) \cap Elements(completedTasks) = {}
    /\ Elements(freeSlots) \cap Busy = {}
    /\ Elements(completedTasks) \cap Busy = {}

(***************************************************************************)
(* There is a free slot for every claim of a response: the loop over       *)
(* resp.Tasks never indexes freeSlots[-1], although slots are freed and    *)
(* requests are made at different times.                                   *)
(***************************************************************************)
RequestFits ==
    /\ claimer = "sending" => Cardinality(resp) <= Len(freeSlots)
    /\ pc = "starting" => Cardinality(pend) <= Len(freeSlots)

(***************************************************************************)
(* The main loop sends on the unbuffered workReq only when the claimer is  *)
(* back in range workReq. If it could send to a claimer that has given up, *)
(* or that is itself sending on workRes, both would wait for ever and the  *)
(* loop would see no signal any more.                                      *)
(***************************************************************************)
SendNeverBlocks == Live /\ pc = "send" => claimer = "waiting"

(***************************************************************************)
(* A task goroutine never blocks in completedTasks <- slot.                *)
(***************************************************************************)
CompletionNeverBlocks ==
    \A s \in Slots : running[s] # NoTask => Len(completedTasks) < Capacity

(***************************************************************************)
(* A worker that is not shutting down and has a free slot is always in the *)
(* middle of asking for work, or about to learn that the claimer gave up:  *)
(* no order of completions and responses makes it forget to ask.           *)
(***************************************************************************)
NeverDeaf ==
    Live /\ pc = "select" /\ ~isShuttingDown /\ freeSlots # << >>
        => claimer # "waiting"

(***************************************************************************)
(* Unless the runner asked for an immediate stop (or a second packet made  *)
(* the handler panic), Run returns only when no task is running and no     *)
(* completion is unread: an idle shutdown, a drained shutdown or a cancel- *)
(* led context never abandons a task.                                      *)
(***************************************************************************)
DrainedExit ==
    exit \in {"ctx", "drained", "idle"} => Busy = {} /\ completedTasks = << >>

(***************************************************************************)
(* A claimed task is in one response or in the loop that starts it, a      *)
(* running task is on exactly one slot, and a claimed task is thrown away  *)
(* only by a worker that is shutting down.                                 *)
(***************************************************************************)
TasksAccounted ==
    /\ resp \cap pend = {}
    /\ {t \in Tasks : fate[t] = "claimed"} = resp \cup pend
    /\ {t \in Tasks : fate[t] = "running"} = {running[s] : s \in Busy}
    /\ \A r, s \in Busy : running[r] = running[s] => r = s
    /\ (\E t \in Tasks : fate[t] = "dropped") => isShuttingDown

(***************************************************************************)
(* The inductive invariant behind the properties above. At most one        *)
(* request is outstanding; it was made for slots that were free then and   *)
(* still are, because only the loop that receives its response pops slots; *)
(* isFull says that no request is outstanding because no slot was free;    *)
(* and idleSince is set exactly when every slot is free.                   *)
(***************************************************************************)
CountInv ==
    Len(freeSlots) + Len(completedTasks) + Cardinality(Busy) = ConcurrentTasks

HandshakeInv ==
    /\ pc = "send" => claimer = "waiting" /\ ~isFull /\ toSend <= Len(freeSlots)
    /\ pc = "starting" =>
          claimer = "waiting" /\ ~isFull /\ Cardinality(pend) <= Len(freeSlots)
    /\ pc # "starting" => pend = {}
    /\ claimer \in {"claiming", "backoff", "sending"} =>
          req <= Len(freeSlots) /\ ~isFull
    /\ claimer = "sending" => Cardinality(resp) <= req
    /\ claimer # "sending" => resp = {}
    /\ claimer = "exited" => ~isFull
    /\ isFull /\ Live => freeSlots = << >>
    /\ pc = "select" /\ claimer = "waiting" /\ Live => isFull \/ isShuttingDown

IdleInv ==
    /\ idleSince # "nil" <=> Idle
    /\ exit \in {"ctx", "drained", "idle"} => Idle

IndInv == TypeOK /\ SlotsAccounted /\ CountInv /\ HandshakeInv /\ IdleInv

(***************************************************************************)
(* Once ctx is cancelled (the second signal) or a graceful-termination     *)
(* packet has arrived, Run returns, whatever the claimer is doing.         *)
(***************************************************************************)
ExitsWhenTold == (CtxDone \/ asked # {}) ~> ~Live

(***************************************************************************)
(* A claimed task is eventually run to its end or dropped, unless the      *)
(* process exits first.                                                    *)
(***************************************************************************)
ClaimsSettled ==
    \A t \in Tasks :
        fate[t] = "claimed" ~> (fate[t] \in {"finished", "dropped"} \/ ~Live)

(***************************************************************************)
(* The worker goes on asking the queue for work for as long as it is not   *)
(* shutting down.                                                          *)
(***************************************************************************)
KeepsClaiming == []<>(claimer = "claiming" \/ isShuttingDown \/ ~Live)

(***************************************************************************)
(* The runner's finish-tasks is honoured: a running task is abandoned by   *)
(* an "immediate graceful shutdown" only if some packet did not say        *)
(* finish-tasks.                                                           *)
(***************************************************************************)
FinishTasksHonoured ==
    exit = "immediate" /\ Busy # {} => asked \cap {"now", "malformed"} # {}

(***************************************************************************)
(* The first signal, after which main.go logs "Shutting down", makes the   *)
(* worker shut down.                                                       *)
(***************************************************************************)
GracefulStopHonoured == safeCancelled ~> (isShuttingDown \/ ~Live)

=============================================================================
