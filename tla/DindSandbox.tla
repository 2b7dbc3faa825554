---------------------------- MODULE DindSandbox ----------------------------
(***************************************************************************)
(* internal/cri/dind.go: SandboxCreate, which brings up a docker-in-docker *)
(* container, and Close, which removes it.                                 *)
(*                                                                         *)
(* Two goroutines: SandboxCreate, and the one that runs the container and  *)
(* copies its output (dockerContainer.Run of docker.go, with a background  *)
(* context). The docker daemon is external: it keeps the container, and    *)
(* any call to it may fail. A call that carries ctx succeeds only before   *)
(* ctx is done. wasClean is the difference between leaving through         *)
(* "cleanup" and leaving at once.                                          *)
(***************************************************************************)

VARIABLES
    pc,         \* SandboxCreate, then the sandbox's owner
    result,     \* "none", "error" or "ok"
    ctxDone,    \* ctx is done
    late,       \* bo.MaxElapsedTime has passed since the current Retry began
    container,  \* the container as docker sees it
    leaked,     \* docker has created a container and reported an error, or has not removed one
    runner      \* the goroutine in container.Run

vars == <<pc, result, ctxDone, late, container, leaked, runner>>

Init ==
    /\ pc = "pull" /\ result = "none" /\ ctxDone = FALSE /\ late = FALSE
    /\ container = "none" /\ leaked = FALSE /\ runner = "unborn"

\* return nil, err: through the deferred function once there is a container.
Fails(l) == result' = "error" /\ pc' = l

-----------------------------------------------------------------------------
(* SandboxCreate. *)

ImagePull ==
    /\ pc = "pull"
    /\ \/ ~ctxDone /\ pc' = "create" /\ UNCHANGED result
       \/ Fails("returned")
    /\ UNCHANGED <<ctxDone, late, container, leaked, runner>>

\* The container is created and its goroutine started; the first Retry begins.
\* When only the answer is lost, nobody knows of the container.
ContainerCreate ==
    /\ pc = "create"
    /\ \/ /\ ~ctxDone
          /\ container' = "created" /\ runner' = "start" /\ pc' = "status"
          /\ UNCHANGED <<result, leaked>>
       \/ Fails("returned") /\ UNCHANGED <<container, runner, leaked>>
       \/ Fails("returned") /\ container' = "created" /\ leaked' = TRUE /\ UNCHANGED runner
    /\ UNCHANGED <<ctxDone, late>>

\* The container has started, has not finished and has an address.
StatusReady ==
    /\ pc = "status" /\ ~ctxDone /\ container = "running"
    /\ pc' = "connect"
    /\ UNCHANGED <<result, ctxDone, late, container, leaked, runner>>

\* backoff.Permanent: the container has exited.
StatusExited ==
    /\ pc = "status" /\ ~ctxDone /\ container = "exited"
    /\ Fails("cleanup")
    /\ UNCHANGED <<ctxDone, late, container, leaked, runner>>

\* Any other answer, or none, is tried again until it is too late.
StatusTriesForever ==
    /\ pc = "status"
    /\ UNCHANGED vars

StatusFails ==
    /\ pc = "status"
    /\ IF late THEN Fails("cleanup") ELSE UNCHANGED <<pc, result>>
    /\ UNCHANGED <<ctxDone, late, container, leaked, runner>>

\* A client for the container's address; the second Retry resets the clock.
Connect ==
    /\ pc = "connect"
    /\ \/ pc' = "info" /\ late' = FALSE /\ UNCHANGED result
       \/ Fails("cleanup") /\ UNCHANGED late
    /\ UNCHANGED <<ctxDone, container, leaked, runner>>

\* dindClient.Info: anything but a failure to connect ends the waiting.
InfoAnswers ==
    /\ pc = "info"
    /\ pc' = "certs"
    /\ UNCHANGED <<result, ctxDone, late, container, leaked, runner>>

InfoFails ==
    /\ pc = "info"
    /\ IF late THEN Fails("cleanup") ELSE UNCHANGED <<pc, result>>
    /\ UNCHANGED <<ctxDone, late, container, leaked, runner>>

\* ReadFiles and tlsConfigFromTar.
ReadCertsLeaving ==
    /\ pc = "certs"
    /\ \/ ~ctxDone /\ pc' = "final" /\ UNCHANGED result
       \/ Fails("returned")
    /\ UNCHANGED <<ctxDone, late, container, leaked, runner>>

ReadCerts ==
    /\ pc = "certs"
    /\ \/ ~ctxDone /\ pc' = "final" /\ UNCHANGED result
       \/ Fails("cleanup")
    /\ UNCHANGED <<ctxDone, late, container, leaked, runner>>

\* The last Info, now over TLS; wasClean is set when the daemon answers.
FinalInfoNotClean ==
    /\ pc = "final"
    /\ \/ ~ctxDone /\ container = "running" /\ result' = "ok" /\ pc' = "cleanup"
       \/ Fails("cleanup")
    /\ UNCHANGED <<ctxDone, late, container, leaked, runner>>

FinalInfo ==
    /\ pc = "final"
    /\ \/ ~ctxDone /\ container = "running" /\ result' = "ok" /\ pc' = "returned"
       \/ Fails("cleanup")
    /\ UNCHANGED <<ctxDone, late, container, leaked, runner>>

\* A forced removal, which takes any container away, or fails.
Remove ==
    \/ container' = "removed" /\ UNCHANGED leaked
    \/ leaked' = TRUE /\ UNCHANGED container

Cleanup ==
    /\ pc = "cleanup"
    /\ Remove
    /\ pc' = "returned"
    /\ UNCHANGED <<result, ctxDone, late, runner>>

\* The owner of a sandbox closes it.
Close ==
    /\ pc = "returned" /\ result = "ok"
    /\ Remove
    /\ pc' = "closed"
    /\ UNCHANGED <<result, ctxDone, late, runner>>

-----------------------------------------------------------------------------
(* The goroutine in container.Run. *)

\* ContainerStart and ContainerLogs.
RunStart ==
    /\ runner = "start"
    /\ \/ container = "created" /\ container' = "running" /\ runner' \in {"follow", "ended"}
       \/ runner' = "ended" /\ UNCHANGED container
    /\ UNCHANGED <<pc, result, ctxDone, late, leaked>>

\* The log stream breaks, or ends with the container.
RunBreaks ==
    /\ runner = "follow"
    /\ runner' = "ended"
    /\ UNCHANGED <<pc, result, ctxDone, late, container, leaked>>

RunEndsOnExit ==
    /\ runner = "follow" /\ container = "exited"
    /\ runner' = "ended"
    /\ UNCHANGED <<pc, result, ctxDone, late, container, leaked>>

RunEnds ==
    /\ runner = "follow" /\ container \in {"exited", "removed"}
    /\ runner' = "ended"
    /\ UNCHANGED <<pc, result, ctxDone, late, container, leaked>>

-----------------------------------------------------------------------------
(* The environment. *)

ContainerExits ==
    /\ container = "running"
    /\ container' = "exited"
    /\ UNCHANGED <<pc, result, ctxDone, late, leaked, runner>>

CtxExpires ==
    /\ ~ctxDone
    /\ ctxDone' = TRUE
    /\ UNCHANGED <<pc, result, late, container, leaked, runner>>

MaxElapsedTime ==
    /\ pc \in {"status", "info"} /\ ~late
    /\ late' = TRUE
    /\ UNCHANGED <<pc, result, ctxDone, container, leaked, runner>>

Terminated == pc \in {"returned", "closed"} /\ UNCHANGED vars

Next ==
    \/ ImagePull \/ ContainerCreate \/ StatusReady \/ StatusExited \/ StatusFails
    \/ Connect \/ InfoAnswers \/ InfoFails \/ ReadCerts \/ FinalInfo \/ Cleanup \/ Close
    \/ RunStart \/ RunBreaks \/ RunEnds
    \/ ContainerExits \/ CtxExpires \/ MaxElapsedTime \/ Terminated

Spec == Init /\ [][Next]_vars

(***************************************************************************)
(* Fairness. Both goroutines move when they can. A call that carries ctx   *)
(* may last until ctx is done; the timeout of the run's context comes, and *)
(* so does MaxElapsedTime. Calls without a context are answered. Nothing   *)
(* makes a container exit, a log stream break or an owner close a sandbox. *)
(***************************************************************************)
FairSpec ==
    /\ Spec
    /\ WF_vars(CtxExpires) /\ WF_vars(MaxElapsedTime)
    /\ WF_vars(ctxDone /\ (ImagePull \/ ContainerCreate \/ ReadCerts \/ FinalInfo))
    /\ WF_vars(StatusReady \/ StatusExited \/ StatusFails)
    /\ WF_vars(ctxDone /\ (InfoAnswers \/ InfoFails))
    /\ WF_vars(Connect) /\ WF_vars(Cleanup)
    /\ WF_vars(RunStart) /\ WF_vars(RunEnds)

-----------------------------------------------------------------------------
(* Properties. *)

\* The type invariant.
TypeOK ==
    /\ pc \in {"pull", "create", "status", "connect", "info", "certs", "final",
               "cleanup", "returned", "closed"}
    /\ result \in {"none", "error", "ok"}
    /\ ctxDone \in BOOLEAN /\ late \in BOOLEAN /\ leaked \in BOOLEAN
    /\ container \in {"none", "created", "running", "exited", "removed"}
    /\ runner \in {"unborn", "start", "follow", "ended"}

(***************************************************************************)
(* A sandbox that could not be created, or has been closed, leaves no      *)
(* privileged container behind, unless docker failed to remove it, or to   *)
(* say that it had created it:                                             *)
(* whichever of the stages failed, and although the other goroutine may    *)
(* only start the container after it has been removed.                     *)
(***************************************************************************)
NothingLeftBehind ==
    (pc = "returned" /\ result = "error") \/ pc = "closed"
        => container \in {"none", "removed"} \/ leaked

(***************************************************************************)
(* The owner of a sandbox has a container that was started and is not      *)
(* removed before the owner closes it.                                     *)
(***************************************************************************)
SandboxUsable ==
    pc = "returned" /\ result = "ok" => container \in {"running", "exited"}

(***************************************************************************)
(* SandboxCreate returns, although both of its loops retry and docker may  *)
(* never start the container.                                              *)
(***************************************************************************)
CreateReturns == <>(result # "none" /\ pc # "cleanup")

(***************************************************************************)
(* The goroutine in container.Run, which no context can cancel, ends once  *)
(* the container is removed: also when it had not started it yet.          *)
(***************************************************************************)
RunnerEnds == container = "removed" ~> runner = "ended"

=============================================================================
