# A TLA+ verification of taskcluster-multistage-docker-worker

The program is a Taskcluster worker: it claims tasks from a queue, runs each of
them as a chain of docker containers inside a docker-in-docker sandbox, streams
a live log, uploads artifacts and reports the result. This directory holds a
model of its concurrent core, the TLC configurations that check it on small
instances, and TLAPS proofs for instances of every size.

## The system

| part | source | state | operations |
|------|--------|-------|------------|
| worker life cycle | `internal/worker/worker.go`, `cmd/.../main.go`, `internal/workerproto/shutdown.go` | free slots, `isFull`, `idleSince`, `isShuttingDown`, the channels `workReq`, `workRes`, `completedTasks`, `stopCh`, two contexts | ask for work, claim, start and finish tasks, shut down (idle, first and second signal, graceful-termination packet) |
| task run | `internal/worker/run.go` (`RunTask`, `uploadLog`), `artifact.go`, `internal/exception` | the claim and its lease, the reclaim timer, `exitErr`, `doneCh`, the live log and its artifacts | create the redirect, run the logic, reclaim, close and upload the log, link, report |
| task logic | `internal/worker/run.go` (`runTaskLogic`, `runStep`, `uploadArtifact`, `watchContainer`) | sandbox, proxy, one container and one channel per step, one channel per artifact, `nextCh`, `exitCh`, the run's context | create, pull, wait for the step before, run, remove, upload, gather, tear down |
| pubsub buffer | `internal/pubsubbuffer/pubsubbuffer.go` | bytes, `closed`, a mutex and a condition variable, an offset per reader | write, close, subscribe, cancel, read |
| live log server | `internal/pubsubbuffer/server.go`, `internal/livelog` | the map from log id to buffer, a listener | allocate, look up, serve, close, shut down |
| container runtime | `internal/cri` | docker containers, the frame being copied | pull, create, run, inspect, copy, remove; docker-in-docker creation |
| worker-runner protocol | `internal/workerproto` | capabilities, handlers, the writer | handshake, parse, send, log |
| logging | `internal/log` | a line buffer per stream of a step | split output into lines; format, forward |
| configuration, command line | `internal/config`, `cmd` | none | parsing, wiring |

How they interact. `main` cancels contexts on signals. `Worker.Run` owns the
slots; it exchanges numbers and responses with the claimer over two unbuffered
channels and starts one goroutine per task, which runs `RunTask` and returns its
slot over a buffered channel. `RunTask` allocates a live log (a `Buffer` in the
`Server`'s map), starts `runTaskLogic` in a goroutine of its own and selects
over the reclaim timer and that goroutine's result. `runTaskLogic` spawns the
goroutines of the steps and artifacts, which talk to the docker daemon inside
the sandbox and write to the live log; the output of a step comes through
docker's log stream, two pipes and one copying goroutine each. HTTP clients, and
at the end the upload of the log, subscribe to the buffer. Beside all this a
communicator talks to worker-runner over the standard streams.

What is hard here: the rendezvous of the main loop with the claimer while tasks
end and signals arrive; closed and shared channels; deferred calls that tear
things down under running goroutines; calls that fail after they took effect;
one timer and one lease; a condition variable whose readers can be cancelled
without its mutex; two mutexes around one log; a writer that is replaced under
its users. The list, line by line, is under `hazards` in `PROJECT.json`.

What makes each part correct. Worker: slots are neither lost nor duplicated,
the loop never blocks, it never forgets to ask, it abandons no task and it stops
when told. Task logic: steps in order and alone, a result that tells the truth,
clean-up on every path, no stuck goroutine. Task run: a truthful report, a whole
log, a claim that is held, an end. Buffer and server: every reader gets the
whole log, in order, and its end; nobody misses a log that is still written.
Step output: every line, in order, without ever blocking the step. Protocol:
both ends agree on what they share, and what is sent arrives.

## Modules

| module | models | composes |
|--------|--------|----------|
| `Worker` | worker life cycle | |
| `MCWorker` | its instances | `Worker` |
| `WorkerProofs` | theorems | `Worker` |
| `TaskLogic` | task logic | |
| `MCTaskLogic` | its instances | `TaskLogic` |
| `TaskLogicProofs` | theorems | `TaskLogic` |
| `RunTask` | task run; also what `TaskSystem` implements | |
| `TaskSystem` | task run and task logic together | `RunTask`, `TaskLogic` (renamed), and `RunTask` again as the abstract specification |
| `RunTaskProofs` | theorems | `RunTask` |
| `TaskSystemProofs` | theorems, the refinements included | `TaskSystem`, `RunTaskProofs`, `TaskLogicProofs` (renamed) |
| `DindSandbox` | container runtime: creation and removal of a sandbox | |
| `StepOutput` | container runtime and logging: the output of a step | |
| `DindSandboxProofs`, `StepOutputProofs` | theorems | `DindSandbox`, `StepOutput` |
| `LogStream` | abstract: what a buffer promises | |
| `PubSubBuffer` | pubsub buffer | `LogStream`, by a refinement mapping |
| `LiveLog` | live log server | `PubSubBuffer` |
| `MCLiveLog` | its instance | `LiveLog` |
| `LiveLogProofs` | theorems about the buffer and the server | `LiveLog` |
| `Communicator` | worker-runner protocol | |
| `MCCommunicator` | its instance | `Communicator` |
| `CommunicatorProofs` | theorems | `Communicator` |

**Worker.** `pc` is where the main loop is: in a send on `workReq`, in the
select, or in the loop over `resp.Tasks`. Each case of the select is an action
(`RecvCtxDone`, `RecvStop`, `RecvCompleted`, `RecvResponse`, `RecvClosed`); the
sends that end two of them are the state `"send"`, from which only `SendRequest`
leads out, so a send nobody receives is visible as a stuck loop. `StartTask` and
`AskForMore` are the loop over a response and what follows it. The claimer is
`ClaimWork`, `ClaimFails` and the two ends of a backoff. `fate` is history: what
became of each task. `OnGracefulTermination` and `CloseStopCh` are the two
moments of the handler, `defer close(ch)` being the second. The time since
`idleSince` is two-valued: longer than the limit or not.

**TaskLogic.** `pc` is `runTaskLogic`; its deferred calls are the states
`"remove"`, `"close"`, `"cancel"`, in the order in which they run. `stepPc` and
`artPc` are the goroutines. A channel of capacity one that is closed right after
its only send has four states: open, nil, err, drained (see the module). Calls
to docker succeed only while the daemon is up and the context is not done, and
may fail at any time. The environment of a step, the tar stream of an artifact
and all names are left out: their only effect on control is to fail.

**RunTask.** One `pc` for `RunTask`, `logic` for the goroutine it starts (which
writes lines and returns one of four results; its inside is `TaskLogic`). The
queue keeps `run` and `lease`. A call succeeds, fails without effect, or has its
effect and fails for the caller (`Call`). A log is its number of lines.

**TaskSystem.** The state of `RunTask` and of `TaskLogic`, whose `pc` and
`result` are renamed. A step is one of `RunTask` that leaves the logic alone
(`Own`), one of the logic (`Logic`) which sends its result to `RunTask` when it
is the last of `runTaskLogic`, or a cancellation that both see (`CancelTask`,
`CancelWorker`): the context of the logic is derived from `RunTask`'s, which is
derived from the worker's. Goroutines of the logic may log after it returned.

**PubSubBuffer and LiveLog.** An operation that holds the mutex from beginning
to end is one step. `Read` is several, since a context is cancelled without the
mutex: `ReadLock` (which checks the context), then `ReadData`, `ReadEOF` or
`ReadWait`. `Broadcast` turns every `"wait"` into `"woken"`. `LiveLog` puts one
log of the server around it: the look-up and the subscription of a request are
two steps, and so are the closing of the buffer and the removal from the map.
Logs share only the map's mutex, which is never held across a wait, so one log
stands for all. Passing bytes on to a client is part of `ReadData`: it takes
them, or goes away.

**DindSandbox.** `pc` is `SandboxCreate`, one state per call that can fail;
leaving through `"cleanup"` is leaving with `wasClean` unset. `runner` is the
goroutine in `container.Run`. `container` belongs to docker, which may start,
lose or refuse to remove it. A retry that fails in time changes nothing;
`MaxElapsedTime` decides when it is too late. What the runner copies is left to
`StepOutput`: here the stream is followed until it breaks or the container is
gone.

**StepOutput.** `rpc` is `container.Run`: header, data, write. A pipe holds the
bytes of the one `Write` in progress. A copier is `bufio.Reader.ReadLine` with
its buffer (`Fill`, `EmitLine`, `LongLine`, `LastLine`). `Cut` is the reference
definition: the lines a stream of bytes comes to, computed in one pass over the
whole stream. Bytes are model data here, because the property is about where
they are cut; prefixes, colours and carriage returns are left out.

**Communicator.** Both ends run the same code; the runner's is another program,
modelled by that code with any set of capabilities. A packet is its type and,
in the handshake, a set of capabilities; it is one line of the other end's
input. `SendReads` and `SendWrites` are the two halves of `Send`: the field
`writer` is read and used without a mutex. A line may also be text, a packet
with text behind it, or a lone tilde. The bytes of a packet are never mixed with
those of another: each is one `Write`.

Definitions whose name says how they differ from the next one (`WantedAlwaysAll`
before `Wanted`, `CloseQuietly` before `Close`, ...) are plausible mistakes; each
is named under `mutants` in `PROJECT.json` with the property that it breaks. No
specification uses them.

## Runs

| run | configuration | result |
|-----|---------------|--------|
| `worker` | 2 slots, 3 tasks, all packets, 2 signals | 83 666 states, holds |
| `worker_finish_tasks` | 2 slots, 2 tasks | `FinishTasksHonoured` violated |
| `worker_graceful_stop` | 2 slots, 2 tasks | `GracefulStopHonoured` violated |
| `task` | 3 steps, 2 artifacts | 85 221 states, holds |
| `task_proxy_exit` | 2 steps, 1 artifact | `RunsToCompletion` violated |
| `task_failed_uploads` | 1 step, 2 artifacts | `UploadsWaitForSteps` violated |
| `task_system` | 1 step, 1 artifact, 3 lines | 469 199 states, holds |
| `runtask_claim_lost` | prompt worker | `HoldsClaim` violated |
| `livelog` | 2 requests and the upload, 2 bytes, reads of 1 | 86 972 states, holds |
| `dind` | no parameters | 186 states, holds |
| `step_output` | 6 bytes, frames up to 3, reads and buffers of 2 | 92 962 states, holds |
| `communicator` | 5 capabilities, 1 line of noise | 81 424 states, holds |

What the passing runs show:

* `worker`: `SlotsAccounted`, `RequestFits` (no index out of range in the loop
  over a response), `SendNeverBlocks` (the rendezvous cannot deadlock),
  `CompletionNeverBlocks`, `NeverDeaf`, `DrainedExit`, `TasksAccounted`; and,
  with fairness, `ExitsWhenTold`, `ClaimsSettled`, `KeepsClaiming`.
* `task`: `StepsInOrder`, `OneStepContainer`, `GatherSound`, `TornDown`;
  `LogicReturns`, `GoroutinesEnd`.
* `task_system`: `ReportTruthful`, `LogKept`, `ResolvedAtReturn`,
  `CompletedMeansDone` (what the queue has as completed was done, every step and
  every artifact of it), `LeftoversCancelled` (after a failed reclaim `RunTask`
  leaves a running logic behind, but never one that was not told to stop);
  `TaskEnds`; and `ImplementsRunTask`: with the logic inside, `RunTask`'s
  specification holds, its fairness assumption that the logic returns included.
* `livelog`: `NoLostWakeup`, `NotFoundMeansClosed` (a request for an allocated
  log is told Not Found only when the log is complete), the refinement
  `IsLogStream`; `EveryByteArrives`, `RequestEnds` (also when the log is closed
  and removed between look-up and subscription), `WaitersEnd`.
* `dind`: `NothingLeftBehind`, `SandboxUsable`; `CreateReturns`, `RunnerEnds`.
* `step_output`: `LinesFaithful`, against `Cut`; `LateOutputBounded` (nobody
  waits for the copiers, but at most one buffer per stream is late); `OutputFlows`.
* `communicator`: `CapabilitiesShared`, `OnlyHandledPackets`, `PacketsArrive`,
  `HandshakeCompletes`. The exceptions are in the properties: the shutdown
  request is sent without asking for its capability, and a `Send` that read the
  old writer may write to it after it was copied.

The type invariants (`TypeOK`, `LTypeOK`) hold on the same instances; no run
repeats them.

What the violations show (each is under `findings`):

* `stopCh` is closed after its only value, so a *finish-tasks* request is
  followed by a false that means *stop at once*.
* The first signal reaches nothing but the backoff of a failing claim.
* A proxy container that exits ends the run, successfully if its error is nil.
* Of several artifacts only one sees that the last step failed.
* The reclaim timer is armed once; a task longer than two leases loses its claim.

### Bounds

`MaxLines`, `MaxLen` and `MaxOutput` cap logs and output, `MaxFrame` a frame,
`MaxNoise` the lines on the worker's input that are no packets; `signals` stops
at two because the handler takes no third. Two slots are the smallest number
with a full, a partly busy and an idle worker, and three tasks keep one in the
queue when both are busy. Three steps give one with a predecessor and a
successor; two artifacts make one find the shared channel drained. In
`task_system` one step and one artifact are enough, since their numbers are what
`task` is about; of the three lines the third may be written after the last one
of `RunTask`, before the log is closed. Two requests and the upload let one
reader sleep while another holds the mutex and a third finds the log closed;
chunks of one and two bytes and reads of one leave a reader behind. Frames of
three bytes need two reads; lines of up to six overflow a buffer of two. A
graceful-termination packet may arrive any number of times until the process
exits; each of the communicator's senders sends once.

### Fairness

Weak fairness stands for the Go scheduler: a goroutine that can move does.
`select` chooses among its ready cases at random, so a case that is ready again
and again is taken: strong fairness of each case. Weak fairness is
enough for the mutexes of the live log, which nobody takes for ever. A client of
the live log takes what it is sent or goes away, and net/http cancels the context
of a request whose handler has returned.
Requests to the queue are assumed to end, one way or the other. A docker call is
fair only once its context is done; the timeout of that context fires, and so
does the limit of a retry. Docker calls without a context (removals, the start
of the sandbox) are answered. The PUT of an upload (`http.DefaultClient`, no context) is not assumed to end:
`GoroutinesEnd` and `TaskEnds` except it by name, and `Worker` takes as given
that `RunTask` returns, that is, that no upload of a log hangs. That the logic
returns, which `RunTask` assumes, is shown by `task_system`. A communicator that
runs goes on reading, and a `Send` that has begun is finished. Signals, packets,
cancellations, idle periods, frames, further packets, hanging up and the closing
of a log are never forced.

## Proofs

Every invariant that a passing run checks, and the safety part of every
refinement, is also a theorem, for all values of the constants; what is not is
listed at the end of this section. Each proof has the same plan: an inductive invariant that holds
initially (`Init...`), that every action preserves (`Next...`, one case per
action, with lemmas for what several cases need) and from which the properties
follow. TLC checked each of these invariants on the instances of the runs before
it was proved.

**Worker** (`WorkerProofs`; every finite set of tasks, every
`ConcurrentTasks > 0`, with and without an idle limit, any packets).
`Invariance` is `Spec => []IndInv`; from it `TypeCorrect`, `SlotsSafe`,
`RequestsFit`, `SendsMeet`, `CompletionsFit`, `AlwaysAsking`, `ExitsDrained`.
None of the properties is inductive. `CountInv` says free, busy
and returning slots add up to `ConcurrentTasks`, which bounds the buffered
channel. `HandshakeInv` says there is at most one request outstanding, that it
asked for no more than the slots that are free (slots only become free while it
is outstanding; only the loop that receives its response takes them), and that
`isFull` is true only when no request is outstanding and no slot is free: so the
send after a completion always finds the claimer waiting. `IdleInv` ties
`idleSince` to the slots, so an idle shutdown finds them all free. The lemmas
`PopLast`, `PopFirst` and `AddNew` are about sequences without repetition;
`SlotComesBack`, `SlotStarts` and `SlotReturns` are the three ways a slot moves.
`TasksSafe` (`TasksAccounted`) is inductive relative to `IndInv`: a response is
empty while none is being sent, and a task starts only on a slot that runs none.
`TasksAdvance` is an action property on top: a task is claimed once, started at
most once, and never dropped once it has started. `HoldsNoMore` combines the two
accounts: claims not yet started are at most the free slots, those running at
most the busy ones, so a worker never holds more claims than `ConcurrentTasks`.
`LoopNeverAsleep` is what the liveness of the loop rests on: while it is in its
select, a case is ready or some goroutine is under way that will make one ready.
It needs `StopInv`: an idle worker that is shutting down has its stop on the way,
and `workRes` is set to nil only once the claimer has left during a shutdown.

**TaskLogic** (`TaskLogicProofs`; every number of steps and artifacts, none
included). `Invariance`, `TypeCorrect`, `OrderedSteps`, `ContainersExclusive`,
`GatherCorrect`. The invariant relates each channel to its goroutine
(`ChannelInv`): a drained channel means that its receiver, the next step, has
ended with the error; hence a step that goes on has seen a success
(`DepNotDrained`). `ArtifactInv` says that a drained last channel comes with an
artifact that failed, which `GatherInv` carries to `nextCh`: that is why the
result is sound although other artifacts saw no error. `WayOutInv` is about the
way out: the states in which the sandbox and the proxy can be up, and that the
result is decided once, before anyone has received from `nextCh`. It gives
`TearsDown` (`TornDown`) and, with `GatherSound`, `OkIsEarned`: a nil result
means that everything was done, or that the proxy exited. `NoCircularWait` is
what `GoroutinesEnd` rests on: the goroutines are spawned together and startCh is
closed by then (`SpawnInv`), so the first step that has not ended
(`FirstUnfinished`) is never blocked; once all have ended no artifact is, and the
gathering goroutine waits only for an artifact that has not ended.

**RunTask** (`RunTaskProofs`). `ReportsTruth`, `LogIsKept`, `ReturnResolves`.
`ResultInv` says where the logic is at each `pc`, and that `exitErr` is the
logic's result once it was received and the initial one before; `RunInv` when a
run can have been resolved; `LogInv` that a log whose length is read has been
closed. `HoldsFirstLease` bounds the finding of `runtask_claim_lost`: if the worker
reacts to the timer in time (`Prompt`), the claim is lost only after the one
reclaim, so the timer that is not armed again is the only cause.

**TaskSystem** (`TaskSystemProofs`). `SystemImplementsRunTask`
(`SysSpec => Spec`): every step of the composition is a step of `RunTask` or
leaves its variables alone; so `SystemReportsTruth`, `SystemKeepsLog` and
`SystemResolves` follow from the theorems about `RunTask`.
`SystemImplementsLogic` (`SysSpec => L!Spec`) is the same for `TaskLogic`; its
invariants are carried over (`SystemKeepsLogic`, `SystemNoCircularWait`). `MeetInv` is what neither part
knows: where `RunTask` takes the logic to be is where it is, the result on its
way is the one it returned, and `RunTask` reaches its deferred calls only with
the context done or the logic returned. `SystemCompletes`
(`CompletedMeansDone`) then needs all three: the report is that of the logic,
the logic's nil is earned, and it was torn down. `SystemCancelsLeftovers` is
`LeftoversCancelled`. `LogicAssumption` repeats for the composition what
`TaskLogic` assumes of its constants.

**PubSubBuffer, LiveLog** (`LiveLogProofs`; any readers, bytes, chunks and
lengths). `BufInv`: the mutex belongs to the reader that is in `Read`
(`LockInv`), a reader has read a prefix (`PrefixRead`), the goroutine that
broadcasts a cancellation exists as long as its reader may sleep (`WaiterInv`),
and whoever sleeps has read everything of an open buffer (`SleepInv`).
`WakeupsKept` is `NoLostWakeup`; `BufferIsLogStream` is the refinement, with one
case per action: each is a step of `LogStream` or a stutter. `LiveLogUsesBuffer`
(`LSpec => Spec`) carries both over to the server (`LiveLogIsLogStream`,
`LiveLogWakeups`). `MapInv` relates the map to the life of the writer, and gives
`NotFoundIsLate`.

**Communicator** (`CommunicatorProofs`; any sets of capabilities, any amount of
noise). `CapInv` says what each end may believe of the other, `LineInv` that
every line on its way to an end, and every line kept in the old buffer, is true
and was permitted, `SenderInv` that a `Send` once begun was permitted: the check
of `HasCapability` and the write are two moments. `CapabilitiesAgree`,
`PacketsHandled`. `DropsNothing` is an action property: a line leaves an input
only to be handled or to end `Run`, and the old buffer only for the stream. With
it `LosesNoPacket` accounts for every packet that was written. It is sharper than
what `PacketsArrive` allows for: an end learns of a capability only after its
`Run` has replaced the writer (`StreamInv`), so a `Send` that asked for one never
reads the old writer (`BufferInv`), and of all packets only the shutdown request
can be stranded in the buffer.

**DindSandbox** (`DindSandboxProofs`). `StageInv` says what exists at each stage.
`CleansUp` (`NothingLeftBehind`), `OwnersContainer` (`SandboxUsable`).

**StepOutput** (`StepOutputProofs`; any sizes of frames, reads and buffers, any
amount of output). `PipeInv`: only the `Write` in progress has bytes in a pipe.
`CopierInv`: a copier ends after the pipes are closed and with an empty buffer.
`RunHandsOver`: when `Run` has returned without an error what is not logged yet
is in the copiers' buffers, no more than `BufSize` per stream. `CopiersEndEmpty`.
`EntriesAreLines`: an entry is within one line and fits a buffer.
`KeepsBytesInOrder` follows the bytes of each stream, buffer before pipe before
frame (`OnTheWay`): in every step they stay as they are, or grow at the end by
what docker sent, or lose at the front exactly the entry that is logged, with its
line end or, if the buffer was full or the stream over, without. The lemmas
`FirstEnd` and `LineSplit` are about the first line in a buffer.
`LogIsFaithful` (`LinesFaithful`) and `LateOutputIsBounded`
(`LateOutputBounded`) compare the log with `CutAll` and `Size`, folds over a
sequence of any length, and so need an induction. Its rules are stated for sets:
a set of naturals, of sequences or of finite sets that has the smallest member
and is closed under adding one element has all of them (`NatsBySteps`,
`SeqsBySteps`, `SetsBySteps`), from the well-foundedness of `<`; the set is then
that of the inputs for which the claim holds. `CutMore` and `SizeMore` say what
one more element does to each fold, `CutPart`, `CutLine`, `CutFull` and `CutEnd`
what `CutAll` makes of a line or a part of one, and `CutGoesOn` that cutting can
go on where it stopped. The invariant `LogInv` is then: what was sent on
a stream is what has gone into its log followed by what is on its way, and the
log is the cut of what has gone.

The assumptions are the named `ASSUME`s of `Worker`, `TaskLogic`, `RunTask`,
`TaskSystem`, `PubSubBuffer`, `Communicator` and `StepOutput`: the types of the
parameters, and that `NoTask` is no task and `Free` no reader. TLC evaluates them
in the runs.

Only model-checked:

* All liveness, and with it the fairness part of `ImplementsRunTask`: the
  prover has no rules for `WF`, `SF` and `ENABLED`. The theorem is
  `SysSpec => Spec`, without `RunTask`'s fairness.
  What it rests on is proved where it could be said as an invariant:
  `LoopNeverAsleep`, `NoCircularWait`, `WakeupsKept`, `LosesNoPacket`.
* The properties the runs refute. How far three of them do hold is proved:
  `RunsToCompletion` unless the proxy exits (`OkIsEarned`), `HoldsClaim` for the
  first lease (`HoldsFirstLease`), `UploadsWaitForSteps` for runs whose gathering
  succeeds (`GatherCorrect`).

## Not modelled

* `FancyLog`, `Tee`, the property lists of log packets: formatting, no state.
* Configuration and the rest of the command line: records and wiring. What
  steers control is a constant of some module.
* TLS, credentials, registry authentication, the choice of a listener and
  websocktunnel: I/O. That the proxy keeps the credentials of the first claim,
  and the data race on `claim.Credentials`, are listed as hazards: to the models
  a call with bad credentials is a call that is refused.
* A `Send` during `Run`'s assignment could also see half of an interface value;
  the model has the two outcomes of a whole read.

## Plan

Done, in this order: `Worker`, `TaskLogic`, `PubSubBuffer` with `LogStream`,
`RunTask`, `DindSandbox`, the first proofs; then `LiveLog`, `StepOutput`,
`Communicator` and the composition `TaskSystem`; then the proofs of every safety
property and refinement that the runs check and the prover can state; then the
folds of `StepOutput` and the safety that liveness rests on. Next:

1. An abstract slot pool that `Worker` implements.
2. A composition of `TaskLogic` with `DindSandbox`, and of `RunTask` with
   `LogStream`.
