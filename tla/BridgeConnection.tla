-------------------------- MODULE BridgeConnection --------------------------
(***************************************************************************)
(* One connection to a downstream language server: the tasks that issue    *)
(* requests (bridge/pool/execute.rs), the handle they share                *)
(* (bridge/pool/connection_handle.rs), the writer and the reader task with *)
(* its liveness timer (bridge/actor/{writer,reader}.rs), the handshake     *)
(* task (bridge/pool/handshake.rs, pool.rs) and graceful shutdown with its *)
(* forced retry (connection_handle.rs, pool/shutdown.rs).                  *)
(*                                                                         *)
(* A step is what a task does between two points where another task can    *)
(* run: a lock held, or an await.  Time is abstract: a timer that runs may *)
(* expire at any step.  The router is the module ResponseRouter.           *)
(***************************************************************************)
EXTENDS ResponseRouter, Naturals, Sequences

CONSTANTS
  Requests,           (* the bridge requests, each executed at most once      *)
  UpstreamOf,         (* the client's id a request carries; ids may be shared *)
  QueueCapacity,      (* OUTBOUND_QUEUE_CAPACITY                              *)
  Shutdowns,          (* calls of graceful_shutdown, in the order of calls    *)
  MaxServerRequests,  (* bound: requests the server sends to the client       *)
  Environment         (* what happens around the connection in an instance    *)

ASSUME ConnectionAssumption ==
  /\ Ids \subseteq Nat /\ 1 \in Ids
  /\ UpstreamOf \in [Requests -> Upstreams]
  /\ QueueCapacity \in Nat \ {0}
  /\ Shutdowns \subseteq {1, 2}
  /\ MaxServerRequests \in Nat
  /\ Environment \subseteq
       {"death", "partialReads", "aborts", "cancels", "timeouts"}

VARIABLES
  (* ConnectionHandle *)
  state,          (* ConnectionState                                          *)
  next_request_id,
  taken,          (* writer_handle has been taken by a graceful_shutdown       *)
  dropped,        (* the last Arc of the handle is gone                        *)
  (* writer task *)
  queue,          (* the outbound channel                                      *)
  writer,         (* where the writer loop is                                  *)
  writing,        (* the message in the middle of write_message, or None       *)
  (* reader task *)
  reader,         (* where the reader loop is                                  *)
  frame,          (* does the next read start where a message starts           *)
  timer,          (* LivenessTimerState.timer is Some                          *)
  start_note, stop_note,   (* the two channels of capacity 1                   *)
  liveness_failed,         (* the oneshot that signals a liveness failure      *)
  (* the server process *)
  server,         (* "up" or "dead"                                            *)
  log,            (* the messages it read from stdin, in order                 *)
  answered,       (* the requests of log it answered                           *)
  server_requests,(* how many requests it sent                                 *)
  (* tasks *)
  client, request_id, was_empty,  (* execute_bridge_request_with_handle        *)
  cancelled,                      (* the client's ids it sent a cancel for     *)
  handshake,                      (* the spawned handshake task                *)
  shutdown, shutdown_id,          (* graceful_shutdown                         *)
  forced                          (* force_kill_all gave up and marked Closed  *)

handleVars == <<state, next_request_id, taken, dropped>>
writerVars == <<queue, writer, writing>>
timerVars  == <<timer, start_note, stop_note, liveness_failed>>
readerVars == <<reader, frame, timerVars>>
serverVars == <<server, log, answered, server_requests>>
clientVars == <<client, request_id, was_empty>>
shutdownVars == <<shutdown, shutdown_id, forced>>
taskVars == <<clientVars, cancelled, handshake, shutdownVars>>
vars == <<routerVars, handleVars, writerVars, readerVars, serverVars, taskVars>>

ConnectionStates == {"Initializing", "Ready", "Failed", "Closing", "Closed"}
Live == {"Initializing", "Ready"}

(* A message of the order queue.  The first two kinds are Tracked: the     *)
(* writer fails their router entry when it cannot write them.  A didOpen   *)
(* carries the id of the request it is sent for.                           *)
TrackedKinds == {"initialize", "request"}
Kinds == TrackedKinds \cup
         {"initialized", "didOpen", "reply", "cancel", "shutdown", "exit"}
Messages == [kind : TrackedKinds, id : Ids] \cup
            [kind : Kinds \ TrackedKinds, id : Ids \cup {None}]
Msg(k, d) == [kind |-> k, id |-> d]

ASSUME NoneIsNoMessage == None \notin Messages

ClientSteps == {"idle", "counting", "registering", "notifying", "starting",
                "opening", "sending", "waiting", "checking", "removing", "done"}
Finished(r) == client[r] \in {"idle", "done"}

HandleTypeOK ==
  /\ state \in ConnectionStates
  /\ next_request_id \in Nat
  /\ taken \in BOOLEAN /\ dropped \in BOOLEAN

WriterTypeOK ==
  /\ queue \in Seq(Messages)
  /\ writer \in {"loop", "draining", "returning", "cancelled", "done"}
  /\ writing \in Messages \cup {None}

ReaderTypeOK ==
  /\ reader \in {"select", "replying", "handled", "expired", "done"}
  /\ frame \in {"clean", "torn"}
  /\ timer \in BOOLEAN /\ start_note \in BOOLEAN /\ stop_note \in BOOLEAN
  /\ liveness_failed \in {"unset", "sent", "taken"}

ServerTypeOK ==
  /\ server \in {"up", "dead"}
  /\ log \in Seq(Messages)
  /\ answered \subseteq Ids
  /\ server_requests \in Nat

TaskTypeOK ==
  /\ client \in [Requests -> ClientSteps]
  /\ request_id \in [Requests -> Ids \cup {None}]
  /\ was_empty \in [Requests -> BOOLEAN]
  /\ cancelled \subseteq Upstreams
  /\ handshake \in {"sending", "waiting", "ready", "failed", "done"}
  /\ shutdown \in [Shutdowns -> {"off", "begun", "taking", "reclaiming",
                                 "registering", "writing", "waiting", "exiting",
                                 "killing", "closing", "done", "aborted"}]
  /\ shutdown_id \in Ids \cup {None}
  /\ forced \in BOOLEAN

TypeOK ==
  RouterTypeOK /\ HandleTypeOK /\ WriterTypeOK /\ ReaderTypeOK
  /\ ServerTypeOK /\ TaskTypeOK
-----------------------------------------------------------------------------
(* The handle is created in Initializing, with id 1 registered for the     *)
(* initialize request before the reader task starts.                       *)
Init ==
  /\ RouterInit({1})
  /\ state = "Initializing" /\ next_request_id = 2
  /\ taken = FALSE /\ dropped = FALSE
  /\ queue = <<>> /\ writer = "loop" /\ writing = None
  /\ reader = "select" /\ frame = "clean"
  /\ timer = FALSE /\ start_note = FALSE /\ stop_note = FALSE
  /\ liveness_failed = "unset"
  /\ server = "up" /\ log = <<>> /\ answered = {} /\ server_requests = 0
  /\ client = [r \in Requests |-> "idle"]
  /\ request_id = [r \in Requests |-> None]
  /\ was_empty = [r \in Requests |-> FALSE] /\ cancelled = {}
  /\ handshake = "sending"
  /\ shutdown = [s \in Shutdowns |-> "off"] /\ shutdown_id = None
  /\ forced = FALSE
-----------------------------------------------------------------------------
(* The outbound channel: try_send fails when it is full, or when the       *)
(* writer task is gone and with it the receiver.                           *)
CanSend == writer # "done" /\ Len(queue) < QueueCapacity
Enqueue(m) == CanSend /\ queue' = Append(queue, m)

SetState(s) == state' = s

(* register_request_with_upstream, after pending_count was read. *)
AllocateId(u) ==
  /\ next_request_id \in Ids
  /\ next_request_id' = next_request_id + 1
  /\ RegisterWithUpstream(next_request_id, u)

(* notify_liveness_start / stop_liveness_timer: try_send on a channel of   *)
(* capacity 1, dropped when it is full or the reader task is gone.         *)
NotifyLivenessStart == start_note' = (reader # "done")
NotifyLivenessStop == stop_note' = (reader # "done")

Goto(r, step) == client' = [client EXCEPT ![r] = step]
-----------------------------------------------------------------------------
(* The tasks that execute a bridge request. *)

(* Mutant: a connection that is still initializing is handed out, too. *)
GetLiveConnection(r) ==
  /\ client[r] = "idle" /\ state \in Live /\ ~dropped
  /\ Goto(r, "counting")
  /\ UNCHANGED <<routerVars, handleVars, writerVars, readerVars, serverVars,
                 request_id, was_empty, cancelled, handshake, shutdownVars>>

(* The pool hands out the handle of a Ready connection. *)
GetConnection(r) ==
  /\ client[r] = "idle" /\ state = "Ready" /\ ~dropped
  /\ Goto(r, "counting")
  /\ UNCHANGED <<routerVars, handleVars, writerVars, readerVars, serverVars,
                 request_id, was_empty, cancelled, handshake, shutdownVars>>

CountPending(r) ==
  /\ client[r] = "counting"
  /\ was_empty' = [was_empty EXCEPT ![r] = pending = {}]
  /\ Goto(r, "registering")
  /\ UNCHANGED <<routerVars, handleVars, writerVars, readerVars, serverVars,
                 request_id, cancelled, handshake, shutdownVars>>

RegisterRequest(r) ==
  /\ client[r] = "registering"
  /\ AllocateId(UpstreamOf[r])
  /\ request_id' = [request_id EXCEPT ![r] = next_request_id]
  /\ Goto(r, IF was_empty[r] THEN "notifying" ELSE "opening")
  /\ UNCHANGED <<state, taken, dropped, writerVars, readerVars, serverVars,
                 was_empty, cancelled, handshake, shutdownVars>>

CheckReady(r) ==
  /\ client[r] = "notifying"
  /\ Goto(r, IF state = "Ready" THEN "starting" ELSE "opening")
  /\ UNCHANGED <<routerVars, handleVars, writerVars, readerVars, serverVars,
                 request_id, was_empty, cancelled, handshake, shutdownVars>>

StartLiveness(r) ==
  /\ client[r] = "starting"
  /\ NotifyLivenessStart
  /\ Goto(r, "opening")
  /\ UNCHANGED <<routerVars, handleVars, writerVars, reader, frame, timer,
                 stop_note, liveness_failed, serverVars, request_id,
                 was_empty, cancelled, handshake, shutdownVars>>

(* ensure_document_opened: nothing to send, or a didOpen that is queued, or *)
(* an error (queue full or closed, or another task's didOpen under way).    *)
EnsureDocumentOpened(r) ==
  /\ client[r] = "opening"
  /\ \/ Goto(r, "sending") /\ UNCHANGED queue
     \/ Enqueue(Msg("didOpen", request_id[r])) /\ Goto(r, "sending")
     \/ Goto(r, "removing") /\ UNCHANGED queue
  /\ UNCHANGED <<routerVars, handleVars, writer, writing, readerVars,
                 serverVars, request_id, was_empty, cancelled, handshake,
                 shutdownVars>>

SendRequest(r) ==
  /\ client[r] = "sending"
  /\ \/ Enqueue(Msg("request", request_id[r])) /\ Goto(r, "waiting")
     \/ ~CanSend /\ Goto(r, "removing") /\ UNCHANGED queue
  /\ UNCHANGED <<routerVars, handleVars, writer, writing, readerVars,
                 serverVars, request_id, was_empty, cancelled, handshake,
                 shutdownVars>>

(* router.remove on an error, or after the 30 second request timeout. *)
RemoveRequest(r) ==
  /\ client[r] = "removing"
  /\ Remove(request_id[r])
  /\ Goto(r, "done")
  /\ UNCHANGED <<handleVars, writerVars, readerVars, serverVars, request_id,
                 was_empty, cancelled, handshake, shutdownVars>>

ReceiveAnswer(r) ==
  /\ client[r] = "waiting" /\ waiter[request_id[r]] \in Answers
  /\ Goto(r, "checking")
  /\ UNCHANGED <<routerVars, handleVars, writerVars, readerVars, serverVars,
                 request_id, was_empty, cancelled, handshake, shutdownVars>>

(* wait_for_response: the answer is in, was it the reader's failure? *)
CheckLivenessFailed(r) ==
  /\ client[r] = "checking"
  /\ IF liveness_failed = "sent"
     THEN liveness_failed' = "taken" /\ SetState("Failed")
     ELSE UNCHANGED <<liveness_failed, state>>
  /\ Goto(r, "done")
  /\ UNCHANGED <<routerVars, next_request_id, taken, dropped, writerVars,
                 reader, frame, timer, start_note, stop_note, serverVars,
                 request_id, was_empty, cancelled, handshake, shutdownVars>>

(* Mutant: no timeout once the reader has failed all requests. *)
RequestTimeoutWhileReading(r) ==
  /\ "timeouts" \in Environment /\ reader # "done"
  /\ client[r] = "waiting" /\ waiter[request_id[r]] = "waiting"
  /\ Goto(r, "removing")
  /\ UNCHANGED <<routerVars, handleVars, writerVars, readerVars, serverVars,
                 request_id, was_empty, cancelled, handshake, shutdownVars>>

RequestTimeout(r) ==
  /\ "timeouts" \in Environment
  /\ client[r] = "waiting" /\ waiter[request_id[r]] = "waiting"
  /\ Goto(r, "removing")
  /\ UNCHANGED <<routerVars, handleVars, writerVars, readerVars, serverVars,
                 request_id, was_empty, cancelled, handshake, shutdownVars>>

(* The future is dropped at an await, by the client's cancel or by the 5   *)
(* second timeout of a diagnostic request: no clean-up runs.               *)
AbortRequest(r) ==
  /\ "aborts" \in Environment /\ client[r] \in {"opening", "waiting"}
  /\ Goto(r, "done")
  /\ UNCHANGED <<routerVars, handleVars, writerVars, readerVars, serverVars,
                 request_id, was_empty, cancelled, handshake, shutdownVars>>

(* Mutant: the cancel names the latest request, whoever it is for. *)
ForwardCancelToLatest(u) ==
  /\ "cancels" \in Environment /\ u \notin cancelled
  /\ cancelled' = cancelled \cup {u}
  /\ IF state = "Ready" /\ ~dropped /\ pending # {} /\ CanSend
     THEN Enqueue(Msg("cancel", next_request_id - 1))
     ELSE UNCHANGED queue
  /\ UNCHANGED <<routerVars, handleVars, writer, writing, readerVars,
                 serverVars, clientVars, handshake, shutdownVars>>

(* forward_cancel, for the client's one $/cancelRequest of u: dropped when   *)
(* the connection is not Ready, the id unknown or the queue full.           *)
ForwardCancel(u) ==
  /\ "cancels" \in Environment /\ u \notin cancelled
  /\ cancelled' = cancelled \cup {u}
  /\ IF state = "Ready" /\ ~dropped /\ LookupDownstreamId(u) # None /\ CanSend
     THEN Enqueue(Msg("cancel", LookupDownstreamId(u)))
     ELSE UNCHANGED queue
  /\ UNCHANGED <<routerVars, handleVars, writer, writing, readerVars,
                 serverVars, clientVars, handshake, shutdownVars>>

ClientStep(r) ==
  \/ GetConnection(r) \/ CountPending(r) \/ RegisterRequest(r)
  \/ CheckReady(r) \/ StartLiveness(r)
  \/ EnsureDocumentOpened(r) \/ SendRequest(r)
  \/ RemoveRequest(r) \/ ReceiveAnswer(r) \/ CheckLivenessFailed(r)
  \/ RequestTimeout(r)

Client(r) == ClientStep(r) \/ AbortRequest(r)
-----------------------------------------------------------------------------
(* The handshake task.  It holds an Arc of the handle, writes through the  *)
(* same queue, and sets the state whatever it has become meanwhile.        *)

SendInitialize ==
  /\ handshake = "sending"
  /\ \/ Enqueue(Msg("initialize", 1)) /\ handshake' = "waiting"
        /\ UNCHANGED routerVars
     \/ ~CanSend /\ Remove(1) /\ handshake' = "failed" /\ UNCHANGED queue
  /\ UNCHANGED <<handleVars, writer, writing, readerVars, serverVars,
                 clientVars, cancelled, shutdownVars>>

(* The response is in; it may be an error or malformed.  When it is valid  *)
(* the initialized notification is queued.                                 *)
ReceiveInitialize ==
  /\ handshake = "waiting" /\ waiter[1] \in Answers
  /\ \/ /\ waiter[1] = "response"
        /\ Enqueue(Msg("initialized", None)) /\ handshake' = "ready"
     \/ handshake' = "failed" /\ UNCHANGED queue
  /\ UNCHANGED <<routerVars, handleVars, writer, writing, readerVars,
                 serverVars, clientVars, cancelled, shutdownVars>>

(* tokio::time::timeout around the handshake: id 1 stays registered. *)
InitTimeout ==
  /\ handshake = "waiting"
  /\ handshake' = "failed"
  /\ UNCHANGED <<routerVars, handleVars, writerVars, readerVars, serverVars,
                 clientVars, cancelled, shutdownVars>>

FinishHandshake ==
  /\ \/ handshake = "ready" /\ SetState("Ready")
     \/ handshake = "failed" /\ SetState("Failed")
  /\ handshake' = "done"
  /\ UNCHANGED <<routerVars, next_request_id, taken, dropped, writerVars,
                 readerVars, serverVars, clientVars, cancelled, shutdownVars>>

Handshake ==
  SendInitialize \/ ReceiveInitialize \/ InitTimeout \/ FinishHandshake
-----------------------------------------------------------------------------
(* The writer task. *)

(* The stop signal was sent when the WriterTaskHandle was taken; without   *)
(* it, dropping the ConnectionHandle drops the WriterTaskHandle, which     *)
(* cancels the task.                                                       *)
Stopped == taken
Cancelled == dropped /\ ~taken

WriterTake ==
  /\ writing = None /\ queue # <<>>
  /\ \/ writer = "loop" /\ ~Stopped /\ ~Cancelled
     \/ writer = "draining"
  /\ writing' = Head(queue) /\ queue' = Tail(queue)
  /\ UNCHANGED <<routerVars, handleVars, writer, readerVars, serverVars,
                 taskVars>>

(* Mutant: a request that could not be written counts as answered. *)
WriterWriteAnswers ==
  /\ writing # None
  /\ writing' = None
  /\ IF server = "up"
     THEN log' = Append(log, writing) /\ UNCHANGED routerVars
     ELSE /\ UNCHANGED log
          /\ IF writing.kind \in TrackedKinds
             THEN Route(writing.id) ELSE UNCHANGED routerVars
  /\ UNCHANGED <<handleVars, queue, writer, readerVars, server, answered,
                 server_requests, taskVars>>

(* write_message returns: the server has read the message, or it is gone   *)
(* and the waiter of a tracked message is failed.  While the server does   *)
(* not read its stdin, neither step is taken.                              *)
WriterWrite ==
  /\ writing # None
  /\ writing' = None
  /\ IF server = "up"
     THEN log' = Append(log, writing) /\ UNCHANGED routerVars
     ELSE /\ UNCHANGED log
          /\ IF writing.kind \in TrackedKinds
             THEN FailRequest(writing.id) ELSE UNCHANGED routerVars
  /\ UNCHANGED <<handleVars, queue, writer, readerVars, server, answered,
                 server_requests, taskVars>>

WriterStop ==
  /\ writer = "loop" /\ writing = None /\ Stopped
  /\ writer' = "draining"
  /\ UNCHANGED <<routerVars, handleVars, queue, writing, readerVars,
                 serverVars, taskVars>>

(* Mutant: the writer that nobody takes is dropped without a kill. *)
WriterHandBackWithoutKill ==
  /\ writer = "draining" /\ writing = None /\ queue = <<>>
  /\ writer' = "returning"
  /\ UNCHANGED <<routerVars, handleVars, queue, writing, readerVars,
                 serverVars, taskVars>>

(* The queue is drained: confirm that the task is idle and hand the writer *)
(* back.  If the task that asked for it was aborted, the writer is dropped *)
(* here, and its Drop kills the child.                                     *)
WriterHandBack ==
  /\ writer = "draining" /\ writing = None /\ queue = <<>>
  /\ writer' = "returning"
  /\ server' = IF \E s \in Shutdowns : shutdown[s] = "reclaiming"
               THEN server ELSE "dead"
  /\ UNCHANGED <<routerVars, handleVars, queue, writing, readerVars, log,
                 answered, server_requests, taskVars>>

FailQueued ==
  FailRequests({queue[i].id : i \in {j \in DOMAIN queue :
                                       queue[j].kind \in TrackedKinds}})

(* Dropping the handle drops the sender of the stop channel too, and the   *)
(* biased select! looks at that channel first: when the task wakes after   *)
(* both, it polls a finished receiver again and ends without the clean-up. *)
WriterCancel ==
  /\ writer = "loop" /\ writing = None /\ Cancelled
  /\ FailQueued \/ UNCHANGED routerVars
  /\ queue' = <<>>
  /\ writer' = "cancelled"
  /\ UNCHANGED <<handleVars, writing, readerVars, serverVars, taskVars>>

(* The task returns, and its receiver is dropped with whatever was queued  *)
(* since the drain.  A cancelled task still owns the writer.               *)
WriterReturn ==
  /\ writer \in {"returning", "cancelled"}
  /\ writer' = "done" /\ queue' = <<>>
  /\ server' = IF writer = "cancelled" THEN "dead" ELSE server
  /\ UNCHANGED <<routerVars, handleVars, writing, readerVars, log, answered,
                 server_requests, taskVars>>

Writer == WriterTake \/ WriterWrite \/ WriterStop \/ WriterHandBack
          \/ WriterCancel \/ WriterReturn
-----------------------------------------------------------------------------
(* The reader task: a biased select! of the timer, the two notes and       *)
(* read_message, in this order.  A future that loses the select! is        *)
(* dropped, so what read_message has consumed of a message is lost when a  *)
(* note interrupts it: read_line and read_exact keep their progress in     *)
(* locals of the dropped future.  That the first bytes had arrived shows   *)
(* only then, so their arrival is part of the interruption.                *)
CanRead == reader = "select" /\ ~start_note /\ ~stop_note
EndReader == reader' = "done" /\ timer' = FALSE /\ start_note' = FALSE
             /\ stop_note' = FALSE
Interrupt ==
  \/ UNCHANGED frame
  \/ "partialReads" \in Environment /\ server = "up" /\ frame' = "torn"

ReaderStart ==
  /\ reader = "select" /\ start_note
  /\ start_note' = FALSE /\ timer' = TRUE /\ Interrupt
  /\ UNCHANGED <<routerVars, handleVars, writerVars, reader, stop_note,
                 liveness_failed, serverVars, taskVars>>

ReaderStop ==
  /\ reader = "select" /\ ~start_note /\ stop_note
  /\ stop_note' = FALSE /\ timer' = FALSE /\ Interrupt
  /\ UNCHANGED <<routerVars, handleVars, writerVars, reader, start_note,
                 liveness_failed, serverVars, taskVars>>

(* The requests the server has read and not answered.  Writing an answer   *)
(* to stdout and the reader's reading it are one step: in between, only a  *)
(* death of the server would show, and it can as well come before.         *)
Owed == {log[i].id : i \in {j \in DOMAIN log : log[j].kind \in
                              TrackedKinds \cup {"shutdown"}}} \ answered

ReadResponse(d) ==
  /\ CanRead /\ server = "up" /\ frame # "torn" /\ d \in Owed
  /\ answered' = answered \cup {d}
  /\ Route(d)
  /\ reader' = "handled"
  /\ UNCHANGED <<handleVars, writerVars, frame, timerVars, server, log,
                 server_requests, taskVars>>

ReadNotification ==
  /\ CanRead /\ server = "up" /\ frame # "torn"
  /\ reader' = "handled"
  /\ UNCHANGED <<routerVars, handleVars, writerVars, frame, timerVars,
                 serverVars, taskVars>>

(* handle_server_request answers through the order queue. *)
ReadServerRequest ==
  /\ CanRead /\ server = "up" /\ frame # "torn"
  /\ server_requests < MaxServerRequests
  /\ server_requests' = server_requests + 1
  /\ reader' = "replying"
  /\ UNCHANGED <<routerVars, handleVars, writerVars, frame, timerVars, server,
                 log, answered, taskVars>>

(* send_timeout: the reader waits for room for 5 seconds, then drops the   *)
(* reply; its timer is not polled meanwhile.                               *)
Reply ==
  /\ reader = "replying"
  /\ \/ Enqueue(Msg("reply", None))
     \/ ~CanSend /\ UNCHANGED queue
  /\ reader' = "handled"
  /\ UNCHANGED <<routerVars, handleVars, writer, writing, frame, timerVars,
                 serverVars, taskVars>>

FinishMessage ==
  /\ reader = "handled"
  /\ timer' = (timer /\ pending # {})
  /\ reader' = "select"
  /\ UNCHANGED <<routerVars, handleVars, writerVars, frame, start_note,
                 stop_note, liveness_failed, serverVars, taskVars>>

(* The timer fires: first the waiters are failed, ... *)
LivenessExpired ==
  /\ reader = "select" /\ timer
  /\ FailAll
  /\ reader' = "expired"
  /\ UNCHANGED <<handleVars, writerVars, frame, timerVars, serverVars, taskVars>>

(* ... then the failure is signalled, and the task ends. *)
SignalLivenessFailed ==
  /\ reader = "expired"
  /\ liveness_failed' = "sent"
  /\ EndReader
  /\ UNCHANGED <<routerVars, handleVars, writerVars, frame, serverVars, taskVars>>

(* EOF, or bytes that are not a message: the task ends without a signal.   *)
ReadError ==
  /\ CanRead /\ (server = "dead" \/ frame = "torn")
  /\ FailAll
  /\ EndReader
  /\ UNCHANGED <<handleVars, writerVars, frame, liveness_failed, serverVars,
                 taskVars>>

Reader == ReaderStart \/ ReaderStop \/ ReadNotification
          \/ ReadServerRequest \/ Reply \/ FinishMessage \/ LivenessExpired
          \/ SignalLivenessFailed \/ ReadError \/ \E d \in Ids : ReadResponse(d)

ServerDies ==
  /\ "death" \in Environment /\ server = "up"
  /\ server' = "dead"
  /\ UNCHANGED <<routerVars, handleVars, writerVars, readerVars, log, answered,
                 server_requests, taskVars>>
-----------------------------------------------------------------------------
(* graceful_shutdown, called by shutdown_all (1) and again by              *)
(* force_kill_all (2) when the global timeout has aborted the first.       *)
ShutdownGoto(s, step) == shutdown' = [shutdown EXCEPT ![s] = step]

(* The first call is made for a live connection, the second for any that   *)
(* is not Closed.                                                          *)
BeginShutdown(s) ==
  /\ shutdown[s] = "off" /\ ~dropped
  /\ \/ s = 1 /\ state \in Live
     \/ s = 2 /\ 1 \in Shutdowns /\ shutdown[1] = "aborted" /\ state # "Closed"
  /\ NotifyLivenessStop
  /\ ShutdownGoto(s, "begun")
  /\ UNCHANGED <<routerVars, handleVars, writerVars, reader, frame, timer,
                 start_note, liveness_failed, serverVars, clientVars,
                 cancelled, handshake, shutdown_id, forced>>

EnterClosing(s) ==
  /\ shutdown[s] = "begun"
  /\ SetState("Closing")
  /\ ShutdownGoto(s, "taking")
  /\ UNCHANGED <<routerVars, next_request_id, taken, dropped, writerVars,
                 readerVars, serverVars, clientVars, cancelled, handshake,
                 shutdown_id, forced>>

(* shutdown_all closes a Failed connection without a handshake. *)
CloseFailed ==
  /\ 1 \in Shutdowns /\ shutdown[1] = "off" /\ ~dropped /\ state = "Failed"
  /\ SetState("Closed")
  /\ ShutdownGoto(1, "done")
  /\ UNCHANGED <<routerVars, next_request_id, taken, dropped, writerVars,
                 readerVars, serverVars, clientVars, cancelled, handshake,
                 shutdown_id, forced>>

(* Mutant: without a writer there is nothing left to do. *)
TakeWriterOrReturn(s) ==
  /\ shutdown[s] = "taking"
  /\ taken' = TRUE
  /\ ShutdownGoto(s, IF taken THEN "done" ELSE "reclaiming")
  /\ UNCHANGED <<routerVars, state, next_request_id, dropped, writerVars,
                 readerVars, serverVars, clientVars, cancelled, handshake,
                 shutdown_id, forced>>

(* writer_handle.take(), and the stop signal to the writer task.  A second *)
(* call finds no writer and skips to the end.                              *)
TakeWriter(s) ==
  /\ shutdown[s] = "taking"
  /\ taken' = TRUE
  /\ ShutdownGoto(s, IF taken THEN "closing" ELSE "reclaiming")
  /\ UNCHANGED <<routerVars, state, next_request_id, dropped, writerVars,
                 readerVars, serverVars, clientVars, cancelled, handshake,
                 shutdown_id, forced>>

(* Mutant: the writer is used without the idle confirmation. *)
ReclaimWriterAtOnce(s) ==
  /\ shutdown[s] = "reclaiming"
  /\ ShutdownGoto(s, "registering")
  /\ UNCHANGED <<routerVars, handleVars, writerVars, readerVars, serverVars,
                 clientVars, cancelled, handshake, shutdown_id, forced>>

ReclaimWriter(s) ==
  /\ shutdown[s] = "reclaiming" /\ writer \in {"returning", "done"}
  /\ ShutdownGoto(s, "registering")
  /\ UNCHANGED <<routerVars, handleVars, writerVars, readerVars, serverVars,
                 clientVars, cancelled, handshake, shutdown_id, forced>>

RegisterShutdown(s) ==
  /\ shutdown[s] = "registering"
  /\ AllocateId(None)
  /\ shutdown_id' = next_request_id
  /\ IF pending = {} /\ state = "Ready"
     THEN NotifyLivenessStart ELSE UNCHANGED start_note
  /\ ShutdownGoto(s, "writing")
  /\ UNCHANGED <<state, taken, dropped, writerVars, reader, frame, timer,
                 stop_note, liveness_failed, serverVars, clientVars, cancelled,
                 handshake, forced>>

(* Shutdown and exit are written directly, not through the queue. *)
WriteDirectly(k, d) ==
  log' = IF server = "up" THEN Append(log, Msg(k, d)) ELSE log

WriteShutdown(s) ==
  /\ shutdown[s] = "writing"
  /\ WriteDirectly("shutdown", shutdown_id)
  /\ ShutdownGoto(s, IF server = "up" THEN "waiting" ELSE "killing")
  /\ UNCHANGED <<routerVars, handleVars, writerVars, readerVars, server,
                 answered, server_requests, clientVars, cancelled, handshake,
                 shutdown_id, forced>>

(* No timeout of its own: the global one ends it. *)
AwaitShutdown(s) ==
  /\ shutdown[s] = "waiting" /\ waiter[shutdown_id] \in Answers
  /\ ShutdownGoto(s, "exiting")
  /\ UNCHANGED <<routerVars, handleVars, writerVars, readerVars, serverVars,
                 clientVars, cancelled, handshake, shutdown_id, forced>>

WriteExit(s) ==
  /\ shutdown[s] = "exiting"
  /\ WriteDirectly("exit", None)
  /\ ShutdownGoto(s, "killing")
  /\ UNCHANGED <<routerVars, handleVars, writerVars, readerVars, server,
                 answered, server_requests, clientVars, cancelled, handshake,
                 shutdown_id, forced>>

ForceKill(s) ==
  /\ shutdown[s] = "killing"
  /\ server' = "dead"
  /\ ShutdownGoto(s, "closing")
  /\ UNCHANGED <<routerVars, handleVars, writerVars, readerVars, log, answered,
                 server_requests, clientVars, cancelled, handshake,
                 shutdown_id, forced>>

CompleteShutdown(s) ==
  /\ shutdown[s] = "closing"
  /\ SetState("Closed")
  /\ ShutdownGoto(s, "done")
  /\ UNCHANGED <<routerVars, next_request_id, taken, dropped, writerVars,
                 readerVars, serverVars, clientVars, cancelled, handshake,
                 shutdown_id, forced>>

(* The global timeout aborts the task at an await.  If the writer had been *)
(* handed back to it, the writer is dropped and kills the child.           *)
GlobalTimeout ==
  /\ 1 \in Shutdowns
  /\ shutdown[1] \in {"reclaiming", "writing", "waiting", "exiting", "killing"}
  /\ ShutdownGoto(1, "aborted")
  /\ server' = IF shutdown[1] = "reclaiming" /\ writer \notin {"returning", "done"}
               THEN server ELSE "dead"
  /\ UNCHANGED <<routerVars, handleVars, writerVars, readerVars, log, answered,
                 server_requests, clientVars, cancelled, handshake,
                 shutdown_id, forced>>

(* force_kill_all waits 3 seconds for the second call, then marks the      *)
(* connection Closed; the call itself runs on, detached.                   *)
ForceKillTimeout ==
  /\ 2 \in Shutdowns /\ ~forced /\ shutdown[2] \notin {"off", "done"}
  /\ SetState("Closed")
  /\ forced' = TRUE
  /\ UNCHANGED <<routerVars, next_request_id, taken, dropped, writerVars,
                 readerVars, serverVars, clientVars, cancelled, handshake,
                 shutdown, shutdown_id>>

ShutdownStep(s) ==
  \/ EnterClosing(s) \/ TakeWriter(s) \/ ReclaimWriter(s)
  \/ RegisterShutdown(s) \/ WriteShutdown(s) \/ AwaitShutdown(s)
  \/ WriteExit(s) \/ ForceKill(s) \/ CompleteShutdown(s)

(* The pool replaces a Failed or Closed connection; once no task holds the *)
(* handle any more, it is dropped.                                         *)
DropHandle ==
  /\ ~dropped /\ state \in {"Failed", "Closed"}
  /\ \A r \in Requests : Finished(r)
  /\ handshake = "done"
  /\ \A s \in Shutdowns : shutdown[s] \in {"off", "done", "aborted"}
  /\ dropped' = TRUE
  /\ UNCHANGED <<routerVars, state, next_request_id, taken, writerVars,
                 readerVars, serverVars, taskVars>>
-----------------------------------------------------------------------------
Next ==
  \/ \E r \in Requests : Client(r)
  \/ \E u \in Upstreams : ForwardCancel(u)
  \/ Handshake \/ Writer \/ Reader \/ ServerDies
  \/ \E s \in Shutdowns : BeginShutdown(s) \/ ShutdownStep(s)
  \/ CloseFailed \/ GlobalTimeout \/ ForceKillTimeout \/ DropHandle

Spec == Init /\ [][Next]_vars

(* What the runtime guarantees: a task that can run is run, a timer that   *)
(* runs expires, a write to a dead process fails and a read of its stdout  *)
(* ends.  That a future is dropped is not assumed, and nothing is of the   *)
(* server: it may never answer, and it may never read its stdin.           *)
Fairness ==
  /\ \A r \in Requests : WF_vars(client[r] # "idle" /\ ClientStep(r))
  /\ WF_vars(Handshake)
  /\ WF_vars(WriterTake \/ WriterStop \/ WriterHandBack \/ WriterCancel
             \/ WriterReturn)
  /\ WF_vars(server = "dead" /\ WriterWrite)
  /\ WF_vars(ReaderStart \/ ReaderStop \/ Reply \/ FinishMessage
             \/ LivenessExpired \/ SignalLivenessFailed \/ ReadError)
  /\ \A s \in Shutdowns :
        /\ WF_vars(EnterClosing(s) \/ TakeWriter(s) \/ ReclaimWriter(s)
                   \/ RegisterShutdown(s) \/ AwaitShutdown(s)
                   \/ ForceKill(s) \/ CompleteShutdown(s))
        /\ WF_vars(server = "dead" /\ (WriteShutdown(s) \/ WriteExit(s)))
        /\ WF_vars(s = 2 /\ BeginShutdown(s))
  /\ WF_vars(GlobalTimeout) /\ WF_vars(ForceKillTimeout)

FairSpec == Spec /\ Fairness
-----------------------------------------------------------------------------
(* stdin has one user at a time: the writer task has handed the writer     *)
(* back before a graceful shutdown writes shutdown and exit directly, and  *)
(* of two graceful shutdowns only one gets it, so the bytes of two         *)
(* messages cannot mix.                                                    *)
Owners == {s \in Shutdowns : shutdown[s] \in
             {"registering", "writing", "waiting", "exiting", "killing"}}

OneWriterOfStdin ==
  /\ Owners # {} => writing = None /\ writer \in {"returning", "done"}
  /\ \A s, t \in Owners : s = t

(* An id is registered once: next_request_id is ahead of every id in use,  *)
(* so register_with_upstream never finds a duplicate and no answer can     *)
(* reach the task of another request.                                      *)
IdsAreFresh ==
  /\ \A d \in Ids : waiter[d] # "unregistered" => d < next_request_id
  /\ \A r, t \in Requests :
        (request_id[r] = request_id[t] /\ request_id[r] # None) => r = t

(* The handle of a connection keeps its types, its ids are fresh, and its  *)
(* stdin has one writer at a time.                                         *)
ConnectionSafe == TypeOK /\ IdsAreFresh /\ OneWriterOfStdin

(* What a server sees of the protocol, although handshake, requests,       *)
(* didOpens and the shutdown come from different tasks: nothing but the    *)
(* handshake before initialized, a request only after the didOpen that was *)
(* sent for it, and nothing but exit after shutdown.                       *)
ServerSeesProtocol ==
  /\ \A j \in DOMAIN log :
        log[j].kind \in {"didOpen", "request", "cancel"} =>
           \E i \in 1 .. (j - 1) : log[i].kind = "initialized"
  /\ \A i, j \in DOMAIN log :
        (log[i].kind = "shutdown" /\ i < j) => log[j].kind = "exit"
  /\ \A i, j \in DOMAIN log :
        (log[i].kind = "didOpen" /\ log[j] = Msg("request", log[i].id)) => i < j

(* A server is asked to cancel a request only if the client cancelled the  *)
(* request it serves, whatever was registered, answered or removed between *)
(* the lookup in the cancel map and the write.                             *)
CancelsAreTheClients ==
  \A i \in DOMAIN log : log[i].kind = "cancel" =>
     \E r \in Requests : request_id[r] = log[i].id /\ UpstreamOf[r] \in cancelled

(* The connection implements RequestService: what a waiter observes is the *)
(* outcome of its request, and the log says what the server received.      *)
Outcome(r) ==
  IF request_id[r] = None THEN "none"
  ELSE CASE waiter[request_id[r]] = "waiting"  -> "open"
         [] waiter[request_id[r]] = "response" -> "answered"
         [] OTHER -> "failed"

Service == INSTANCE RequestService WITH
  outcome  <- [r \in Requests |-> Outcome(r)],
  received <- {r \in Requests : request_id[r] # None /\
                 \E i \in DOMAIN log : log[i] = Msg("request", request_id[r])}

ImplementsRequestService == Service!Spec

(* A request that a task has begun ends, with an answer or an error,       *)
(* whatever the server does and in spite of shutdowns: no task waits on a  *)
(* oneshot that nobody will use (FairSpec).                                *)
EveryRequestEnds ==
  \A r \in Requests : client[r] = "counting" ~> client[r] = "done"

(* A shutdown that has begun closes the connection, also when the server   *)
(* is hung and the writer is stuck in a write, unless the pool has let go  *)
(* of it: a handshake that fails meanwhile makes it replaceable.  That is  *)
(* said of the first call, which the second one only ever follows          *)
(* (FairSpec).                                                             *)
ShutdownCompletes ==
  \A s \in Shutdowns \ {2} :
     shutdown[s] = "begun" ~> (state = "Closed" \/ dropped)

(* A server does not survive the shutdown unless it stopped reading its    *)
(* stdin, although the task that owns the writer may be aborted at any of  *)
(* its awaits: some owner of the writer kills the child, or drops the      *)
(* writer, or is stuck in a write for ever (FairSpec).                     *)
StuckWrite ==
  writing # None \/ \E s \in Shutdowns : shutdown[s] \in {"writing", "exiting"}

ServerEnds ==
  \A s \in Shutdowns \ {2} :
     shutdown[s] = "begun" ~> [](server = "dead" \/ StuckWrite)
-----------------------------------------------------------------------------
(* What a comment says of a connection that the code does not do.          *)

(* actor/writer.rs, of a write error: "Connection will transition to       *)
(* Failed via reader task".  The reader ends and leaves the state Ready.   *)
DeadServerFailsConnection == server = "dead" ~> state # "Ready"
=============================================================================
