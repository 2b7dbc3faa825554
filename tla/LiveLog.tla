------------------------------- MODULE LiveLog -------------------------------
(***************************************************************************)
(* One live log from its allocation to its removal: the map of buffers of  *)
(* internal/pubsubbuffer/server.go and the HTTP server around it           *)
(* (internal/livelog/livelog.go), over the buffer of PubSubBuffer.         *)
(*                                                                         *)
(* Logs have unguessable ids of their own and share only the mutex of the  *)
(* map, which is never held across a wait: one log stands for all. A       *)
(* reader outside Background is a request for this log's URL; one in       *)
(* Background is the upload of the log once it is closed. A request looks  *)
(* the buffer up and subscribes in two steps, and the writer closes the    *)
(* buffer and removes it from the map in two steps, under two mutexes.     *)
(***************************************************************************)
EXTENDS PubSubBuffer

VARIABLES
    inMap,      \* the server's map has an entry for the log
    wpc,        \* the log's writer: "unborn", "open", "delete", "closed"
    req,        \* each request: "none", "found", "notfound", "served"
    serving     \* the HTTP server accepts requests

serverVars == <<inMap, wpc, req, serving>>
liveVars   == <<vars, serverVars>>

Requests == Readers \ Background

LInit ==
    /\ Init
    /\ inMap = FALSE /\ wpc = "unborn" /\ serving = TRUE
    /\ req = [r \in Requests |-> "none"]

-----------------------------------------------------------------------------
(* The writer. *)

Allocate ==
    /\ wpc = "unborn"
    /\ inMap' = TRUE /\ wpc' = "open"
    /\ UNCHANGED <<vars, req, serving>>

WriteLog ==
    /\ wpc # "unborn"
    /\ \E src \in Chunks : Write(src)
    /\ UNCHANGED serverVars

\* writer.Close: w.Buffer.Close(), then the entry is deleted.
CloseBuffer ==
    /\ wpc = "open"
    /\ Close
    /\ wpc' = "delete" /\ UNCHANGED <<inMap, req, serving>>

DeleteFirst ==
    /\ wpc \in {"open", "delete"}
    /\ inMap' = FALSE
    /\ wpc' = IF wpc = "delete" THEN "closed" ELSE "open"
    /\ UNCHANGED <<vars, req, serving>>

Delete ==
    /\ wpc = "delete"
    /\ inMap' = FALSE /\ wpc' = "closed"
    /\ UNCHANGED <<vars, req, serving>>

-----------------------------------------------------------------------------
(* Requests and the upload. *)

\* ServeHTTP of the server, up to the end of getBuffer.
GetBuffer(r) ==
    /\ serving /\ wpc # "unborn" /\ req[r] = "none"
    /\ req' = [req EXCEPT ![r] = IF inMap THEN "found" ELSE "notfound"]
    /\ UNCHANGED <<vars, inMap, wpc, serving>>

\* buffer.ServeHTTP subscribes with the context of the request.
ServeBuffer(r) ==
    /\ req[r] = "found"
    /\ Subscribe(r)
    /\ req' = [req EXCEPT ![r] = "served"]
    /\ UNCHANGED <<inMap, wpc, serving>>

\* The client goes away, or net/http ends the request after its handler.
RequestOver(r) == req[r] = "served" /\ CtxCancelled(r) /\ UNCHANGED serverVars

\* uploadLog subscribes to the log that RunTask has closed.
UploadSubscribe(r) ==
    /\ wpc = "closed"
    /\ Subscribe(r) /\ UNCHANGED serverVars

\* A subscription goes on, wherever its bytes go.
Reads(r) == (CancelBroadcast(r) \/ Read(r)) /\ UNCHANGED serverVars

\* Serve's goroutine: Shutdown stops the listener; requests in flight go on.
Shutdown ==
    /\ serving
    /\ serving' = FALSE
    /\ UNCHANGED <<vars, inMap, wpc, req>>

-----------------------------------------------------------------------------
Over(r) == rpc[r] \in {"eof", "err", "gone"}

\* The log is gone and nobody reads it any more.
Quiet ==
    /\ wpc = "closed"
    /\ \A r \in Requests : Over(r) \/ req[r] = "notfound" \/ (~serving /\ req[r] = "none")
    /\ \A r \in Background : Over(r)
    /\ UNCHANGED liveVars

LNext ==
    \/ Allocate \/ WriteLog \/ CloseBuffer \/ Delete \/ Shutdown \/ Quiet
    \/ \E r \in Requests : GetBuffer(r) \/ ServeBuffer(r) \/ RequestOver(r)
    \/ \E r \in Background : UploadSubscribe(r)
    \/ \E r \in Readers : Reads(r)

(***************************************************************************)
(* Fairness: the buffer's; a request that was found is served; net/http    *)
(* cancels the context of a request whose handler has returned.            *)
(***************************************************************************)
LSpec ==
    /\ LInit /\ [][LNext]_liveVars
    /\ Fairness
    /\ \A r \in Requests :
         WF_liveVars(ServeBuffer(r)) /\ WF_liveVars(Over(r) /\ RequestOver(r))

-----------------------------------------------------------------------------
(* Properties. *)

\* The type invariant.
LTypeOK ==
    /\ TypeOK
    /\ inMap \in BOOLEAN /\ serving \in BOOLEAN
    /\ wpc \in {"unborn", "open", "delete", "closed"}
    /\ req \in [Requests -> {"none", "found", "notfound", "served"}]

(***************************************************************************)
(* Whoever asks for an allocated log and is told Not Found asked for one   *)
(* that is complete: no request misses a log that is still being written,  *)
(* although its entry and its buffer are closed under different mutexes.   *)
(***************************************************************************)
NotFoundMeansClosed == \A r \in Requests : req[r] = "notfound" => closed

Busy(r) == (r \in Requests /\ req[r] = "found") \/ Reading(r)

(***************************************************************************)
(* A request that found its log, or an upload, comes to its end once the   *)
(* log is closed or the request is cancelled, even if the log was closed   *)
(* and removed between the look-up and the subscription.                   *)
(***************************************************************************)
RequestEnds ==
    \A r \in Readers : Busy(r) /\ (closed \/ ctxDone[r]) ~> ~Busy(r)

(***************************************************************************)
(* A request leaves nothing behind: the goroutine its subscription started *)
(* ends too. (The one of an upload waits for context.Background().)        *)
(***************************************************************************)
WaitersEnd == \A r \in Requests : Over(r) ~> cpc[r] = "done"

=============================================================================
