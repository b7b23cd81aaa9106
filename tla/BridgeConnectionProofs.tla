------------------------ MODULE BridgeConnectionProofs ------------------------
(***************************************************************************)
(* Proofs about one connection, for any sets of requests and ids and any   *)
(* behaviour of the server.  They begin with the router alone: the lemmas  *)
(* about its single operations are what the connection's proofs cite.      *)
(***************************************************************************)
EXTENDS BridgeConnection, TLAPS

(* The inductive invariant: the three facts about the maps hold each other *)
(* up.  That a forward entry is cleaned when its request completes needs   *)
(* the reverse entry to be there (CancelTargetsPending); that the clean-up *)
(* of d cannot leave an entry to d behind needs the reverse map to hold    *)
(* pending ids only (ReverseMapOfPending).                                 *)
RouterInv ==
  /\ RouterTypeOK
  /\ NoWaiterForgotten
  /\ CancelTargetsPending
  /\ ReverseMapOfPending

LEMMA InitRouterInv ==
  ASSUME NEW S \in SUBSET Ids, RouterInit(S)
  PROVE  RouterInv
BY RouterAssumption
   DEF RouterInit, RouterInv, RouterTypeOK, NoWaiterForgotten, WaiterStates,
       Answers, CancelTargetsPending, ReverseMapOfPending

(* Using up one sender, with any answer. *)
LEMMA SettlePreserves ==
  ASSUME RouterInv, NEW d \in Ids, NEW a \in Answers, Settle(d, a)
  PROVE  RouterInv'
<1> USE RouterAssumption DEF RouterInv, Settle, RemoveCancelMapping, Answers
<1>1. RouterTypeOK'
  BY DEF RouterTypeOK, WaiterStates
<1>2. NoWaiterForgotten'
  BY DEF RouterTypeOK, NoWaiterForgotten, WaiterStates
<1>3. CancelTargetsPending'
  <2> SUFFICES ASSUME NEW u \in Upstreams, upstream_to_downstream'[u] # None
               PROVE  /\ upstream_to_downstream'[u] \in pending'
                      /\ downstream_to_upstream'[upstream_to_downstream'[u]] = u
    BY DEF CancelTargetsPending
  <2>1. /\ u # downstream_to_upstream[d]
        /\ upstream_to_downstream'[u] = upstream_to_downstream[u]
    OBVIOUS
  <2>2. /\ upstream_to_downstream[u] \in pending
        /\ downstream_to_upstream[upstream_to_downstream[u]] = u
    BY <2>1 DEF CancelTargetsPending
  <2> QED BY <2>1, <2>2 DEF RouterTypeOK
<1>4. ReverseMapOfPending'
  BY DEF RouterTypeOK, ReverseMapOfPending
<1> QED BY <1>1, <1>2, <1>3, <1>4

LEMMA RegisterPreserves ==
  ASSUME RouterInv, NEW d \in Ids, NEW u \in Upstreams \cup {None},
         RegisterWithUpstream(d, u)
  PROVE  RouterInv'
<1> USE RouterAssumption DEF RouterInv, RegisterWithUpstream
<1>1. RouterTypeOK'
  BY DEF RouterTypeOK, WaiterStates
<1>2. NoWaiterForgotten'
  BY DEF RouterTypeOK, NoWaiterForgotten, WaiterStates
<1>3. CancelTargetsPending'
  BY DEF RouterTypeOK, CancelTargetsPending
<1>4. ReverseMapOfPending'
  BY DEF RouterTypeOK, ReverseMapOfPending
<1> QED BY <1>1, <1>2, <1>3, <1>4

LEMMA RoutePreserves ==
  ASSUME RouterInv, NEW d \in Ids, Route(d) PROVE RouterInv'
BY SettlePreserves DEF Route, Answers

LEMMA FailRequestPreserves ==
  ASSUME RouterInv, NEW d \in Ids, FailRequest(d) PROVE RouterInv'
BY SettlePreserves DEF FailRequest, Answers

LEMMA UnchangedRouterPreserves ==
  ASSUME RouterInv, UNCHANGED routerVars PROVE RouterInv'
BY DEF RouterInv, routerVars, RouterTypeOK, NoWaiterForgotten,
       CancelTargetsPending, ReverseMapOfPending

LEMMA RemovePreserves ==
  ASSUME RouterInv, NEW d \in Ids, Remove(d) PROVE RouterInv'
<1>1. CASE d \in pending
  BY <1>1, SettlePreserves DEF Remove, Answers
<1>2. CASE d \notin pending
  BY <1>2, UnchangedRouterPreserves DEF Remove
<1> QED BY <1>1, <1>2

LEMMA FailAllPreserves ==
  ASSUME RouterInv, FailAll PROVE RouterInv'
BY RouterAssumption
   DEF RouterInv, FailAll, RouterTypeOK, NoWaiterForgotten, WaiterStates,
       Answers, CancelTargetsPending, ReverseMapOfPending

LEMMA FailRequestsPreserves ==
  ASSUME RouterInv, NEW S \in SUBSET Ids, FailRequests(S) PROVE RouterInv'
<1> USE RouterAssumption DEF RouterInv, FailRequests, RouterTypeOK
<1>1. RouterTypeOK' /\ NoWaiterForgotten' /\ ReverseMapOfPending'
  BY DEF NoWaiterForgotten, WaiterStates, Answers, ReverseMapOfPending
<1>2. CancelTargetsPending'
  <2> SUFFICES ASSUME NEW u \in Upstreams, upstream_to_downstream'[u] # None
               PROVE  /\ upstream_to_downstream'[u] \in pending'
                      /\ downstream_to_upstream'[upstream_to_downstream'[u]] = u
    BY DEF CancelTargetsPending
  <2>1. /\ upstream_to_downstream'[u] = upstream_to_downstream[u]
        /\ \A d \in S : downstream_to_upstream[d] # u
    OBVIOUS
  <2>2. /\ upstream_to_downstream[u] \in pending \ S
        /\ downstream_to_upstream[upstream_to_downstream[u]] = u
    BY <2>1 DEF CancelTargetsPending
  <2> QED BY <2>1, <2>2
<1> QED BY <1>1, <1>2

LEMMA RouterNextPreserves == RouterInv /\ [RouterNext]_routerVars => RouterInv'
<1> SUFFICES ASSUME RouterInv, [RouterNext]_routerVars PROVE RouterInv'
  OBVIOUS
<1>1. CASE \E d \in Ids, u \in Upstreams \cup {None} : RegisterWithUpstream(d, u)
  BY <1>1, RegisterPreserves
<1>2. CASE \E d \in Ids : Route(d) \/ FailRequest(d) \/ Remove(d)
  BY <1>2, RoutePreserves, FailRequestPreserves, RemovePreserves
<1>3. CASE FailAll
  BY <1>3, FailAllPreserves
<1>4. CASE UNCHANGED routerVars
  BY <1>4, UnchangedRouterPreserves
<1>5. CASE \E S \in SUBSET Ids : FailRequests(S)
  BY <1>5, FailRequestsPreserves
<1> QED BY <1>1, <1>2, <1>3, <1>4, <1>5 DEF RouterNext

LEMMA RouterInvariance == RouterSpec => []RouterInv
<1>1. RouterInit({}) => RouterInv
  BY InitRouterInv
<1> QED BY <1>1, RouterNextPreserves, PTL DEF RouterSpec

(* The router's maps and sets keep their types. *)
THEOREM RouterTypeCorrect == RouterSpec => []RouterTypeOK
BY RouterInvariance, PTL DEF RouterInv

(* No operation takes a request out of the router without waking its task, *)
(* whatever the number of requests and the order of the callers.           *)
THEOREM WaitersAccountedFor == RouterSpec => []NoWaiterForgotten
BY RouterInvariance, PTL DEF RouterInv

(* A cancel that the router translates names a request the server still    *)
(* owes an answer, although upstream ids may be shared.                    *)
THEOREM CancelIsSound == RouterSpec => []CancelMapsSound
BY RouterInvariance, PTL DEF RouterInv, CancelMapsSound

(* An answer is delivered once: later completions of the same id leave     *)
(* what its waiter received alone.                                         *)
THEOREM AnswersAreFinal == RouterSpec => SettledOnce
<1>1. RouterInv /\ [RouterNext]_routerVars =>
        [\A d \in Ids : waiter[d] \in Answers =>
                          waiter'[d] \in {waiter[d], "waiting"}]_routerVars
  <2> SUFFICES ASSUME RouterInv, RouterNext, NEW e \in Ids, waiter[e] \in Answers
               PROVE  waiter'[e] \in {waiter[e], "waiting"}
    OBVIOUS
  <2>0. e \notin pending
    BY DEF RouterInv, NoWaiterForgotten, Answers
  <2>1. CASE \E d \in Ids, u \in Upstreams \cup {None} : RegisterWithUpstream(d, u)
    BY <2>1 DEF RegisterWithUpstream, RouterInv, RouterTypeOK
  <2>2. ASSUME NEW d \in Ids, NEW a \in Answers, Settle(d, a)
        PROVE  waiter'[e] \in {waiter[e], "waiting"}
    BY <2>0, <2>2 DEF Settle, RouterInv, RouterTypeOK
  <2>3. CASE \E d \in Ids : Route(d) \/ FailRequest(d) \/ Remove(d)
    BY <2>2, <2>3 DEF Route, FailRequest, Remove, Answers, routerVars
  <2>4. CASE FailAll
    BY <2>0, <2>4 DEF FailAll
  <2>5. CASE \E S \in SUBSET Ids : FailRequests(S)
    BY <2>0, <2>5 DEF FailRequests
  <2> QED BY <2>1, <2>3, <2>4, <2>5 DEF RouterNext
<1> QED BY <1>1, RouterInvariance, PTL DEF RouterSpec, SettledOnce
-----------------------------------------------------------------------------
(* A task past its registration holds an id, and ids in use are behind the *)
(* counter.                                                                *)
HoldingId == ClientSteps \ {"idle", "counting", "registering", "done"}

RequestIdsInv ==
  \A r \in Requests :
     /\ client[r] \in HoldingId => request_id[r] # None
     /\ request_id[r] # None => request_id[r] < next_request_id

(* Who may use stdin.  A call of graceful_shutdown that has taken the      *)
(* WriterTaskHandle is the only one that has; the writer task is in the    *)
(* middle of a message only while it has not handed the writer back.       *)
Takers == {s \in Shutdowns : shutdown[s] \in
             {"reclaiming", "registering", "writing", "waiting", "exiting",
              "killing"}}

WriterInv ==
  /\ writing # None => writer \in {"loop", "draining"}
  /\ Takers # {} => taken
  /\ \A s, t \in Takers : s = t
  /\ Owners # {} => writer \in {"returning", "done"}

ConnectionInv ==
  /\ TypeOK
  /\ RouterInv
  /\ IdsAreFresh
  /\ RequestIdsInv
  /\ WriterInv

LEMMA InitConnectionInv == Init => ConnectionInv
<1> SUFFICES ASSUME Init PROVE ConnectionInv
  OBVIOUS
<1> USE ConnectionAssumption, RouterAssumption DEF Init
<1>1. RouterInv
  BY InitRouterInv
<1>2. TypeOK
  <2>1. queue \in Seq(Messages) /\ log \in Seq(Messages)
    OBVIOUS
  <2>2. client \in [Requests -> ClientSteps]
    BY DEF ClientSteps
  <2> QED BY <1>1, <2>1, <2>2 DEF RouterInv, TypeOK, HandleTypeOK, WriterTypeOK,
       ReaderTypeOK, ServerTypeOK, TaskTypeOK, ConnectionStates
<1>3. IdsAreFresh /\ RequestIdsInv /\ WriterInv
  BY DEF RouterInit, IdsAreFresh, RequestIdsInv, WriterInv, Takers, Owners,
         HoldingId, ClientSteps
<1> QED BY <1>1, <1>2, <1>3 DEF ConnectionInv

(* What a step does to the router and the id counter: a registration with  *)
(* the next id, or one of the operations that complete requests, or        *)
(* nothing.                                                                *)
Completion ==
  \/ \E d \in Ids : (ReadResponse(d) /\ Route(d)) \/ FailRequest(d) \/ Remove(d)
  \/ \E S \in SUBSET Ids : FailRequests(S)
  \/ FailAll

RouterStep ==
  \/ \E u \in Upstreams \cup {None} : AllocateId(u)
  \/ [Completion]_routerVars /\ UNCHANGED next_request_id

LEMMA StepsAreRouterSteps ==
  ASSUME ConnectionInv, [Next]_vars
  PROVE  RouterStep
<1> USE DEF ConnectionInv, RouterStep, Completion, handleVars
<1>1. ASSUME NEW r \in Requests, Client(r) PROVE RouterStep
  <2>1. CASE RegisterRequest(r)
    BY <2>1, ConnectionAssumption DEF RegisterRequest
  <2>2. CASE RemoveRequest(r)
    <3>1. request_id[r] \in Ids
      BY <2>2 DEF RemoveRequest, TypeOK, TaskTypeOK, RequestIdsInv, HoldingId,
             ClientSteps
    <3> QED BY <2>2, <3>1 DEF RemoveRequest
  <2>3. CASE ~RegisterRequest(r) /\ ~RemoveRequest(r)
    BY <1>1, <2>3
       DEF Client, ClientStep, GetConnection, CountPending, CheckReady, StartLiveness,
           EnsureDocumentOpened, SendRequest, ReceiveAnswer,
           CheckLivenessFailed, RequestTimeout, AbortRequest
  <2> QED BY <2>1, <2>2, <2>3
<1>2. CASE Handshake
  BY <1>2, ConnectionAssumption
     DEF Handshake, SendInitialize, ReceiveInitialize, InitTimeout,
         FinishHandshake
<1>3. CASE Writer
  <2>1. CASE WriterWrite /\ server # "up" /\ writing.kind \in TrackedKinds
    <3>1. writing.id \in Ids /\ FailRequest(writing.id)
      BY <2>1 DEF WriterWrite, TypeOK, WriterTypeOK, Messages
    <3> QED BY <2>1, <3>1 DEF WriterWrite
  <2>2. CASE WriterWrite /\ ~(server # "up" /\ writing.kind \in TrackedKinds)
    BY <2>2 DEF WriterWrite
  <2>3. CASE WriterCancel
    <3> DEFINE F == {queue[i].id : i \in {j \in DOMAIN queue :
                                            queue[j].kind \in TrackedKinds}}
    <3>1. F \in SUBSET Ids
      <4>1. ASSUME NEW j \in DOMAIN queue, queue[j].kind \in TrackedKinds
            PROVE  queue[j].id \in Ids
        <5>1. queue[j] \in Messages
          BY DEF TypeOK, WriterTypeOK
        <5> QED BY <5>1, <4>1 DEF Messages
      <4> QED BY <4>1
    <3>2. FailRequests(F) \/ UNCHANGED routerVars
      BY <2>3 DEF WriterCancel, FailQueued
    <3> QED BY <2>3, <3>1, <3>2 DEF WriterCancel
  <2>4. CASE WriterTake \/ WriterStop \/ WriterHandBack \/ WriterReturn
    BY <2>4 DEF WriterTake, WriterStop, WriterHandBack, WriterReturn
  <2> QED BY <1>3, <2>1, <2>2, <2>3, <2>4 DEF Writer
<1>4. CASE Reader
  BY <1>4
     DEF Reader, ReaderStart, ReaderStop, ReadNotification,
         ReadServerRequest, Reply, FinishMessage, LivenessExpired,
         SignalLivenessFailed, ReadError, ReadResponse
<1>5. ASSUME NEW s \in Shutdowns, BeginShutdown(s) \/ ShutdownStep(s)
      PROVE  RouterStep
  BY <1>5, ConnectionAssumption
     DEF BeginShutdown, ShutdownStep, EnterClosing, TakeWriter, ReclaimWriter,
         RegisterShutdown, WriteShutdown, AwaitShutdown, WriteExit,
         ForceKill, CompleteShutdown
<1>6. ASSUME NEW u \in Upstreams, ForwardCancel(u) PROVE RouterStep
  BY <1>6 DEF ForwardCancel
<1>7. CASE ServerDies \/ CloseFailed \/ GlobalTimeout \/ ForceKillTimeout
           \/ DropHandle
  BY <1>7 DEF ServerDies, CloseFailed, GlobalTimeout, ForceKillTimeout, DropHandle
<1>8. CASE UNCHANGED vars
  BY <1>8 DEF vars
<1> QED BY <1>1, <1>2, <1>3, <1>4, <1>5, <1>6, <1>7, <1>8 DEF Next

LEMMA StepsAreRouterNext ==
  ASSUME ConnectionInv, [Next]_vars
  PROVE  [RouterNext]_routerVars /\ RouterInv'
<1>1. [RouterNext]_routerVars
  BY StepsAreRouterSteps, ConnectionAssumption
     DEF RouterStep, Completion, RouterNext, AllocateId
<1> QED BY <1>1, RouterNextPreserves DEF ConnectionInv

(* Only a registration makes an id of a fresh one.                         *)
LEMMA CompletionsRegisterNothing ==
  ASSUME RouterInv, [Completion]_routerVars, NEW d \in Ids,
         waiter[d] = "unregistered"
  PROVE  waiter'[d] = "unregistered"
<1>1. d \notin pending
  BY DEF RouterInv, NoWaiterForgotten
<1>2. ASSUME NEW e \in Ids, NEW a, Settle(e, a) PROVE waiter'[d] = waiter[d]
  BY <1>1, <1>2 DEF Settle, RouterInv, RouterTypeOK
<1>3. CASE \E e \in Ids : Route(e) \/ FailRequest(e) \/ Remove(e)
  BY <1>2, <1>3 DEF Route, FailRequest, Remove, routerVars
<1>4. CASE FailAll \/ (\E S \in SUBSET Ids : FailRequests(S)) \/ UNCHANGED routerVars
  BY <1>1, <1>4 DEF FailAll, FailRequests, routerVars
<1> QED BY <1>3, <1>4 DEF Completion

(* The messages the tasks send are messages. *)
LEMMA MessageTypes ==
  /\ \A d \in Ids : \A k \in Kinds : Msg(k, d) \in Messages
  /\ \A k \in Kinds \ TrackedKinds : Msg(k, None) \in Messages
BY DEF Msg, Messages, Kinds, TrackedKinds

LEMMA EnqueueType ==
  ASSUME queue \in Seq(Messages), NEW m \in Messages, Enqueue(m)
  PROVE  queue' \in Seq(Messages)
BY DEF Enqueue

(* A part of the type invariant is disturbed only by a change of its       *)
(* variables.                                                              *)
LEMMA UnchangedTypes ==
  ASSUME TypeOK
  PROVE  /\ UNCHANGED handleVars => HandleTypeOK'
         /\ UNCHANGED writerVars => WriterTypeOK'
         /\ UNCHANGED readerVars => ReaderTypeOK'
         /\ UNCHANGED serverVars => ServerTypeOK'
         /\ UNCHANGED taskVars => TaskTypeOK'
<1> USE DEF TypeOK
<1>1. UNCHANGED handleVars => HandleTypeOK'
  BY DEF handleVars, HandleTypeOK
<1>2. UNCHANGED writerVars => WriterTypeOK'
  BY DEF writerVars, WriterTypeOK
<1>3. UNCHANGED readerVars => ReaderTypeOK'
  BY DEF readerVars, timerVars, ReaderTypeOK
<1>4. UNCHANGED serverVars => ServerTypeOK'
  BY DEF serverVars, ServerTypeOK
<1>5. UNCHANGED taskVars => TaskTypeOK'
  BY DEF taskVars, clientVars, shutdownVars, TaskTypeOK
<1> QED BY <1>1, <1>2, <1>3, <1>4, <1>5

(* Every step keeps the types.  RouterTypeOK is RouterInv's; of the others *)
(* only those a task can change need a look.                               *)
LEMMA ClientTypes ==
  ASSUME ConnectionInv, NEW r \in Requests, Client(r)
  PROVE  HandleTypeOK' /\ WriterTypeOK' /\ ReaderTypeOK' /\ ServerTypeOK'
         /\ TaskTypeOK'
<1> USE ConnectionAssumption, UnchangedTypes DEF ConnectionInv
<1>0. TypeOK
  OBVIOUS
<1>1. CASE RegisterRequest(r)
  BY <1>0, <1>1 DEF RegisterRequest, AllocateId, TypeOK, HandleTypeOK,
     TaskTypeOK, Goto, ClientSteps, shutdownVars
<1>2. CASE EnsureDocumentOpened(r) \/ SendRequest(r)
  <2>1. request_id[r] \in Ids
    BY <1>0, <1>2 DEF EnsureDocumentOpened, SendRequest, RequestIdsInv,
       HoldingId, ClientSteps, TypeOK, TaskTypeOK
  <2>2. queue' \in Seq(Messages)
    <3>1. queue \in Seq(Messages)
      BY <1>0 DEF TypeOK, WriterTypeOK
    <3>2. "didOpen" \in Kinds /\ "request" \in Kinds
      BY DEF Kinds, TrackedKinds
    <3> QED BY <1>2, <2>1, <3>1, <3>2, MessageTypes, EnqueueType
         DEF EnsureDocumentOpened, SendRequest
  <2>3. WriterTypeOK'
    BY <1>0, <1>2, <2>2 DEF EnsureDocumentOpened, SendRequest, TypeOK, WriterTypeOK
  <2>4. TaskTypeOK'
    BY <1>0, <1>2 DEF EnsureDocumentOpened, SendRequest, TypeOK, TaskTypeOK,
       Goto, ClientSteps, shutdownVars
  <2> QED BY <1>0, <1>2, <2>3, <2>4 DEF EnsureDocumentOpened, SendRequest
<1>3. CASE GetConnection(r) \/ CountPending(r) \/ CheckReady(r)
           \/ RemoveRequest(r) \/ ReceiveAnswer(r) \/ RequestTimeout(r)
           \/ AbortRequest(r)
  <2>1. TaskTypeOK'
    BY <1>0, <1>3 DEF GetConnection, CountPending, CheckReady, RemoveRequest,
       ReceiveAnswer, RequestTimeout, AbortRequest, TypeOK, TaskTypeOK, Goto,
       ClientSteps, shutdownVars
  <2> QED BY <1>0, <1>3, <2>1 DEF GetConnection, CountPending, CheckReady,
       RemoveRequest, ReceiveAnswer, RequestTimeout, AbortRequest
<1>4. CASE StartLiveness(r)
  BY <1>0, <1>4 DEF StartLiveness, NotifyLivenessStart, TypeOK, TaskTypeOK,
     ReaderTypeOK, Goto, ClientSteps, shutdownVars
<1>5. CASE CheckLivenessFailed(r)
  <2>1. HandleTypeOK'
    BY <1>0, <1>5 DEF CheckLivenessFailed, SetState, ConnectionStates, TypeOK,
       HandleTypeOK
  <2>2. ReaderTypeOK'
    BY <1>0, <1>5 DEF CheckLivenessFailed, TypeOK, ReaderTypeOK
  <2>3. TaskTypeOK'
    BY <1>0, <1>5 DEF CheckLivenessFailed, TypeOK, TaskTypeOK, Goto,
       ClientSteps, shutdownVars
  <2> QED BY <1>0, <1>5, <2>1, <2>2, <2>3 DEF CheckLivenessFailed
<1> QED BY <1>1, <1>2, <1>3, <1>4, <1>5 DEF Client, ClientStep

LEMMA HandshakeTypes ==
  ASSUME ConnectionInv, Handshake
  PROVE  HandleTypeOK' /\ WriterTypeOK' /\ ReaderTypeOK' /\ ServerTypeOK'
         /\ TaskTypeOK'
<1> USE ConnectionAssumption, UnchangedTypes DEF ConnectionInv
<1>0. TypeOK
  OBVIOUS
<1>1. CASE SendInitialize \/ ReceiveInitialize
  <2>1. queue' \in Seq(Messages)
    <3>1. queue \in Seq(Messages)
      BY <1>0 DEF TypeOK, WriterTypeOK
    <3>2. "initialize" \in Kinds /\ "initialized" \in Kinds \ TrackedKinds
      BY DEF Kinds, TrackedKinds
    <3> QED BY <1>1, <3>1, <3>2, MessageTypes, EnqueueType
         DEF SendInitialize, ReceiveInitialize
  <2> QED BY <1>0, <1>1, <2>1
       DEF SendInitialize, ReceiveInitialize, TypeOK, WriterTypeOK, TaskTypeOK,
           clientVars, shutdownVars
<1>2. CASE InitTimeout \/ FinishHandshake
  BY <1>0, <1>2 DEF InitTimeout, FinishHandshake, SetState, ConnectionStates,
     TypeOK, HandleTypeOK, TaskTypeOK, clientVars, shutdownVars
<1> QED BY <1>1, <1>2 DEF Handshake

LEMMA WriterTypes ==
  ASSUME ConnectionInv, Writer
  PROVE  HandleTypeOK' /\ WriterTypeOK' /\ ReaderTypeOK' /\ ServerTypeOK'
         /\ TaskTypeOK'
<1> USE UnchangedTypes DEF ConnectionInv
<1>0. TypeOK
  OBVIOUS
<1>1. CASE WriterTake
  <2>1. queue' \in Seq(Messages) /\ writing' \in Messages
    BY <1>0, <1>1 DEF WriterTake, TypeOK, WriterTypeOK
  <2> QED BY <1>0, <1>1, <2>1 DEF WriterTake, TypeOK, WriterTypeOK
<1>2. CASE WriterWrite
  <2>1. log' \in Seq(Messages)
    BY <1>0, <1>2 DEF WriterWrite, TypeOK, WriterTypeOK, ServerTypeOK
  <2>2. WriterTypeOK'
    BY <1>0, <1>2 DEF WriterWrite, TypeOK, WriterTypeOK
  <2>3. ServerTypeOK'
    BY <1>0, <1>2, <2>1 DEF WriterWrite, TypeOK, ServerTypeOK
  <2> QED BY <1>0, <1>2, <2>2, <2>3 DEF WriterWrite
<1>3. CASE WriterStop \/ WriterHandBack
  BY <1>0, <1>3 DEF WriterStop, WriterHandBack, TypeOK, WriterTypeOK,
     ServerTypeOK
<1>4. CASE WriterCancel \/ WriterReturn
  <2>0. queue' = <<>>
    BY <1>4 DEF WriterCancel, WriterReturn
  <2>1. queue' \in Seq(Messages)
    BY <2>0
  <2>2. WriterTypeOK'
    BY <1>0, <1>4, <2>1 DEF WriterCancel, WriterReturn, TypeOK, WriterTypeOK
  <2>3. ServerTypeOK'
    BY <1>0, <1>4 DEF WriterCancel, WriterReturn, TypeOK, ServerTypeOK, serverVars
  <2> QED BY <1>0, <1>4, <2>2, <2>3 DEF WriterCancel, WriterReturn
<1> QED BY <1>1, <1>2, <1>3, <1>4 DEF Writer

LEMMA ReaderTypes ==
  ASSUME ConnectionInv, Reader
  PROVE  HandleTypeOK' /\ WriterTypeOK' /\ ReaderTypeOK' /\ ServerTypeOK'
         /\ TaskTypeOK'
<1> USE UnchangedTypes DEF ConnectionInv
<1>0. TypeOK
  OBVIOUS
<1>1. CASE Reply
  <2>1. queue' \in Seq(Messages)
    <3>1. queue \in Seq(Messages)
      BY <1>0 DEF TypeOK, WriterTypeOK
    <3>2. "reply" \in Kinds \ TrackedKinds
      BY DEF Kinds, TrackedKinds
    <3> QED BY <1>1, <3>1, <3>2, MessageTypes, EnqueueType DEF Reply
  <2> QED BY <1>0, <1>1, <2>1
       DEF Reply, TypeOK, WriterTypeOK, ReaderTypeOK, timerVars
<1>2. CASE ~Reply
  <2>1. ReaderTypeOK'
    BY <1>0, <1>2
       DEF Reader, ReaderStart, ReaderStop, ReadNotification,
           ReadServerRequest, FinishMessage, LivenessExpired, Interrupt,
           SignalLivenessFailed, ReadError, EndReader, ReadResponse, TypeOK,
           ReaderTypeOK, timerVars
  <2>2. ServerTypeOK'
    BY <1>0, <1>2
       DEF Reader, ReaderStart, ReaderStop, ReadNotification,
           ReadServerRequest, FinishMessage, LivenessExpired,
           SignalLivenessFailed, ReadError, ReadResponse, TypeOK,
           ServerTypeOK, serverVars
  <2> QED BY <1>0, <1>2, <2>1, <2>2
       DEF Reader, ReaderStart, ReaderStop, ReadNotification,
           ReadServerRequest, FinishMessage, LivenessExpired,
           SignalLivenessFailed, ReadError, ReadResponse
<1> QED BY <1>1, <1>2

LEMMA ShutdownTypes ==
  ASSUME ConnectionInv, NEW s \in Shutdowns, BeginShutdown(s) \/ ShutdownStep(s)
  PROVE  HandleTypeOK' /\ WriterTypeOK' /\ ReaderTypeOK' /\ ServerTypeOK'
         /\ TaskTypeOK'
<1> USE ConnectionAssumption, UnchangedTypes DEF ConnectionInv
<1>0. TypeOK
  OBVIOUS
<1>1. CASE WriteShutdown(s) \/ WriteExit(s)
  <2>1. log' \in Seq(Messages)
    <3>1. Msg("shutdown", shutdown_id) \in Messages /\ Msg("exit", None) \in Messages
      BY <1>0, MessageTypes DEF Kinds, TrackedKinds, TypeOK, TaskTypeOK
    <3> QED BY <1>0, <1>1, <3>1
         DEF WriteShutdown, WriteExit, WriteDirectly, TypeOK, ServerTypeOK
  <2> QED BY <1>0, <1>1, <2>1
       DEF WriteShutdown, WriteExit, ShutdownGoto, TypeOK, ServerTypeOK,
           TaskTypeOK, clientVars
<1>2. CASE RegisterShutdown(s)
  <2>1. HandleTypeOK' /\ next_request_id \in Ids
    BY <1>0, <1>2 DEF RegisterShutdown, AllocateId, TypeOK, HandleTypeOK
  <2>2. ReaderTypeOK'
    BY <1>0, <1>2 DEF RegisterShutdown, NotifyLivenessStart, TypeOK, ReaderTypeOK
  <2>3. TaskTypeOK'
    BY <1>0, <1>2, <2>1 DEF RegisterShutdown, ShutdownGoto, TypeOK, TaskTypeOK,
       clientVars
  <2> QED BY <1>0, <1>2, <2>1, <2>2, <2>3 DEF RegisterShutdown
<1>3. CASE BeginShutdown(s) \/ EnterClosing(s) \/ TakeWriter(s)
           \/ ReclaimWriter(s) \/ AwaitShutdown(s) \/ ForceKill(s)
           \/ CompleteShutdown(s)
  <2> USE <1>0, <1>3 DEF BeginShutdown, EnterClosing, TakeWriter,
          ReclaimWriter, AwaitShutdown, ForceKill, CompleteShutdown
  <2>1. HandleTypeOK'
    BY DEF TypeOK, HandleTypeOK, SetState, ConnectionStates
  <2>2. ReaderTypeOK'
    BY DEF TypeOK, ReaderTypeOK, NotifyLivenessStop, readerVars, timerVars
  <2>3. ServerTypeOK'
    BY DEF TypeOK, ServerTypeOK, serverVars
  <2>4. TaskTypeOK'
    BY DEF TypeOK, TaskTypeOK, ShutdownGoto, clientVars
  <2> QED BY <2>1, <2>2, <2>3, <2>4
<1> QED BY <1>1, <1>2, <1>3 DEF ShutdownStep

LEMMA TypesPreserved ==
  ASSUME ConnectionInv, [Next]_vars
  PROVE  TypeOK'
<1> USE UnchangedTypes DEF ConnectionInv
<1>0. TypeOK /\ RouterTypeOK'
  BY StepsAreRouterNext DEF RouterInv
<1>1. ASSUME NEW r \in Requests, Client(r) PROVE TypeOK'
  BY <1>0, <1>1, ClientTypes DEF TypeOK
<1>2. ASSUME NEW u \in Upstreams, ForwardCancel(u) PROVE TypeOK'
  <2>1. queue \in Seq(Messages) /\ "cancel" \in Kinds
    BY <1>0 DEF TypeOK, WriterTypeOK, Kinds
  <2>2. LookupDownstreamId(u) # None => LookupDownstreamId(u) \in Ids
    BY <1>0 DEF TypeOK, RouterTypeOK, LookupDownstreamId
  <2>3. queue' \in Seq(Messages)
    BY <1>2, <2>1, <2>2, MessageTypes, EnqueueType DEF ForwardCancel
  <2> QED BY <1>0, <1>2, <2>3
       DEF ForwardCancel, TypeOK, WriterTypeOK, TaskTypeOK, clientVars, shutdownVars
<1>3. CASE Handshake
  BY <1>0, <1>3, HandshakeTypes DEF TypeOK
<1>4. CASE Writer
  BY <1>0, <1>4, WriterTypes DEF TypeOK
<1>5. CASE Reader
  BY <1>0, <1>5, ReaderTypes DEF TypeOK
<1>6. ASSUME NEW s \in Shutdowns, BeginShutdown(s) \/ ShutdownStep(s)
      PROVE  TypeOK'
  BY <1>0, <1>6, ShutdownTypes DEF TypeOK
<1>7. CASE ServerDies \/ CloseFailed \/ GlobalTimeout \/ ForceKillTimeout
           \/ DropHandle
  BY <1>0, <1>7 DEF ServerDies, CloseFailed, GlobalTimeout, ForceKillTimeout,
     DropHandle, TypeOK, HandleTypeOK, ServerTypeOK, TaskTypeOK, SetState,
     ConnectionStates, ShutdownGoto, clientVars
<1>8. CASE UNCHANGED vars
  BY <1>0, <1>8 DEF vars, TypeOK
<1> QED BY <1>1, <1>2, <1>3, <1>4, <1>5, <1>6, <1>7, <1>8 DEF Next

(* Only the tasks that execute requests move in their program, each for    *)
(* itself.                                                                 *)
LEMMA OthersLeaveClients ==
  ASSUME [Next]_vars, ~\E r \in Requests : Client(r)
  PROVE  UNCHANGED clientVars
BY DEF Next, vars, taskVars, ForwardCancel, Handshake, SendInitialize,
       ReceiveInitialize, InitTimeout, FinishHandshake, Writer, WriterTake,
       WriterWrite, WriterStop, WriterHandBack, WriterCancel, WriterReturn,
       Reader, ReaderStart, ReaderStop, ReadNotification,
       ReadServerRequest, Reply, FinishMessage, LivenessExpired,
       SignalLivenessFailed, ReadError, ReadResponse, ServerDies,
       BeginShutdown, ShutdownStep, EnterClosing, TakeWriter, ReclaimWriter,
       RegisterShutdown, WriteShutdown, AwaitShutdown, WriteExit, ForceKill,
       CompleteShutdown, CloseFailed, GlobalTimeout, ForceKillTimeout, DropHandle

LEMMA IdsPreserved ==
  ASSUME ConnectionInv, [Next]_vars
  PROVE  IdsAreFresh' /\ RequestIdsInv'
<1> USE DEF ConnectionInv
<1>0. TypeOK /\ TypeOK'
  BY TypesPreserved
<1>1. next_request_id' \in {next_request_id, next_request_id + 1}
      /\ next_request_id \in Nat
  BY <1>0, StepsAreRouterSteps DEF RouterStep, AllocateId, TypeOK, HandleTypeOK
<1>2. \A d \in Ids : waiter'[d] # "unregistered" => d < next_request_id'
  <2> SUFFICES ASSUME NEW d \in Ids, waiter'[d] # "unregistered"
               PROVE  d < next_request_id'
    OBVIOUS
  <2>1. CASE \E u \in Upstreams \cup {None} : AllocateId(u)
    BY <1>0, <1>1, <2>1, ConnectionAssumption
       DEF AllocateId, RegisterWithUpstream, IdsAreFresh, TypeOK, RouterTypeOK
  <2>2. CASE [Completion]_routerVars /\ UNCHANGED next_request_id
    BY <2>2, CompletionsRegisterNothing DEF IdsAreFresh
  <2> QED BY <2>1, <2>2, StepsAreRouterSteps DEF RouterStep
<1> DEFINE Distinct == \A r, t \in Requests :
             (request_id[r] = request_id[t] /\ request_id[r] # None) => r = t
<1>6. ASSUME UNCHANGED request_id,
             \A t \in Requests : client'[t] \in HoldingId => client[t] \in HoldingId
      PROVE  RequestIdsInv' /\ Distinct'
  <2>1. \A t \in Requests : request_id[t] # None => request_id[t] \in Nat
    BY <1>0, ConnectionAssumption DEF TypeOK, TaskTypeOK
  <2>2. \A t \in Requests : request_id[t] # None => request_id[t] < next_request_id'
    BY <1>1, <2>1 DEF RequestIdsInv
  <2> QED BY <1>6, <2>2 DEF RequestIdsInv, IdsAreFresh
<1>3. ASSUME NEW r \in Requests, RegisterRequest(r)
      PROVE  RequestIdsInv' /\ Distinct'
  <2>1. /\ request_id' = [request_id EXCEPT ![r] = next_request_id]
        /\ next_request_id \in Ids /\ next_request_id' = next_request_id + 1
    BY <1>3 DEF RegisterRequest, AllocateId
  <2>2. \A t \in Requests :
          request_id[t] # None => request_id[t] < next_request_id /\ request_id[t] \in Nat
    BY <1>0, ConnectionAssumption DEF RequestIdsInv, TypeOK, TaskTypeOK
  <2>3. Distinct'
    BY <1>0, <1>1, <2>1, <2>2 DEF IdsAreFresh, TypeOK, TaskTypeOK
  <2>4. \A t \in Requests : client'[t] \in HoldingId => request_id'[t] # None
    BY <1>0, <1>3, <2>1, RouterAssumption
       DEF RegisterRequest, Goto, RequestIdsInv, TypeOK, TaskTypeOK
  <2>5. \A t \in Requests : request_id'[t] # None => request_id'[t] < next_request_id'
    BY <1>0, <1>1, <2>1, <2>2 DEF TypeOK, TaskTypeOK
  <2> QED BY <2>3, <2>4, <2>5 DEF RequestIdsInv
<1>4. ASSUME NEW r \in Requests, Client(r), ~RegisterRequest(r)
      PROVE  RequestIdsInv' /\ Distinct'
  <2>1. UNCHANGED request_id
    BY <1>4 DEF Client, ClientStep, GetConnection, CountPending, CheckReady, StartLiveness,
       EnsureDocumentOpened, SendRequest, RemoveRequest, ReceiveAnswer,
       CheckLivenessFailed, RequestTimeout, AbortRequest
  <2>2. \A t \in Requests : client'[t] \in HoldingId => client[t] \in HoldingId
    BY <1>0, <1>4
       DEF Client, ClientStep, GetConnection, CountPending, CheckReady, StartLiveness,
       EnsureDocumentOpened, SendRequest, RemoveRequest, ReceiveAnswer,
       CheckLivenessFailed, RequestTimeout, AbortRequest, Goto, HoldingId,
       ClientSteps, TypeOK, TaskTypeOK
  <2> QED BY <1>6, <2>1, <2>2
<1>5. ASSUME ~\E r \in Requests : Client(r)
      PROVE  RequestIdsInv' /\ Distinct'
  BY <1>6, <1>5, OthersLeaveClients DEF clientVars
<1> QED BY <1>2, <1>3, <1>4, <1>5 DEF IdsAreFresh

(* stdin.  Only TakeWriter makes a taker, and only of the first call;      *)
(* only ReclaimWriter makes an owner, when the writer task is past its     *)
(* last write.                                                             *)
LEMMA WriterInvPreserved ==
  ASSUME ConnectionInv, [Next]_vars
  PROVE  WriterInv'
<1> USE DEF ConnectionInv, WriterInv, Takers, Owners
<1>0. TypeOK
  OBVIOUS
<1>1. CASE Writer
  BY <1>0, <1>1
     DEF Writer, WriterTake, WriterWrite, WriterStop, WriterHandBack,
         WriterCancel, WriterReturn, handleVars, taskVars, shutdownVars,
         Stopped, Cancelled, TypeOK, WriterTypeOK
<1>2. ASSUME NEW s \in Shutdowns, BeginShutdown(s) \/ ShutdownStep(s)
      PROVE  WriterInv'
  <2>0. shutdown = [t \in Shutdowns |-> shutdown[t]]
    BY <1>0 DEF TypeOK, TaskTypeOK
  <2>1. CASE TakeWriter(s)
    BY <2>0, <2>1 DEF TakeWriter, ShutdownGoto, writerVars
  <2>2. CASE ReclaimWriter(s)
    BY <2>0, <2>2 DEF ReclaimWriter, ShutdownGoto, handleVars, writerVars
  <2>3. CASE BeginShutdown(s) \/ EnterClosing(s)
    BY <2>0, <2>3 DEF BeginShutdown, EnterClosing, ShutdownGoto, handleVars,
       writerVars
  <2>4. CASE RegisterShutdown(s) \/ WriteShutdown(s) \/ AwaitShutdown(s)
             \/ WriteExit(s) \/ ForceKill(s) \/ CompleteShutdown(s)
    BY <2>0, <2>4 DEF RegisterShutdown, WriteShutdown, AwaitShutdown,
       WriteExit, ForceKill, CompleteShutdown, ShutdownGoto, handleVars, writerVars
  <2> QED BY <1>2, <2>1, <2>2, <2>3, <2>4 DEF ShutdownStep
<1>3. CASE GlobalTimeout \/ CloseFailed
  BY <1>0, <1>3 DEF GlobalTimeout, CloseFailed, ShutdownGoto, handleVars,
     writerVars, TypeOK, TaskTypeOK
<1>4. ASSUME UNCHANGED <<taken, writer, writing, shutdown>> PROVE WriterInv'
  BY <1>4
<1>5. ASSUME NEW r \in Requests, Client(r) PROVE WriterInv'
  BY <1>4, <1>5
     DEF Client, ClientStep, GetConnection, CountPending, RegisterRequest, CheckReady,
         StartLiveness, EnsureDocumentOpened, SendRequest, RemoveRequest,
         ReceiveAnswer, CheckLivenessFailed, RequestTimeout, AbortRequest,
         handleVars, writerVars, shutdownVars
<1>6. CASE Handshake \/ Reader
  BY <1>4, <1>6
     DEF Handshake, SendInitialize, ReceiveInitialize, InitTimeout,
         FinishHandshake, Reader, ReaderStart, ReaderStop,
         ReadNotification, ReadServerRequest, Reply, FinishMessage,
         LivenessExpired, SignalLivenessFailed, ReadError, ReadResponse,
         handleVars, writerVars, taskVars, shutdownVars
<1>7. CASE \/ \E u \in Upstreams : ForwardCancel(u)
           \/ ServerDies \/ ForceKillTimeout \/ DropHandle \/ UNCHANGED vars
  BY <1>4, <1>7
     DEF ForwardCancel, ServerDies, ForceKillTimeout, DropHandle, vars,
         handleVars, writerVars, taskVars, shutdownVars
<1> QED BY <1>1, <1>2, <1>3, <1>5, <1>6, <1>7 DEF Next

LEMMA ConnectionInvariance == Spec => []ConnectionInv
<1>1. ConnectionInv /\ [Next]_vars => ConnectionInv'
  BY TypesPreserved, StepsAreRouterNext, IdsPreserved, WriterInvPreserved
     DEF ConnectionInv
<1> QED BY <1>1, InitConnectionInv, PTL DEF Spec
-----------------------------------------------------------------------------
(* The variables of the connection keep their types.                       *)
THEOREM ConnectionTypeCorrect == Spec => []TypeOK
BY ConnectionInvariance, PTL DEF ConnectionInv

(* Whatever the connection's tasks do to the router, and in which order,   *)
(* no waiter is forgotten: a pending id has a waiter and a waiter's id is  *)
(* pending.                                                                *)
THEOREM ConnectionForgetsNoWaiter == Spec => []NoWaiterForgotten
BY ConnectionInvariance, PTL DEF ConnectionInv, RouterInv

(* Request ids are never reused, so an answer cannot be delivered to the   *)
(* task of another request.                                                *)
THEOREM ConnectionIdsAreFresh == Spec => []IdsAreFresh
BY ConnectionInvariance, PTL DEF ConnectionInv

(* The writer task and a graceful shutdown, or two graceful shutdowns,     *)
(* never use stdin at once.                                                *)
THEOREM StdinHasOneWriter == Spec => []OneWriterOfStdin
<1>1. WriterInv => OneWriterOfStdin
  BY DEF WriterInv, OneWriterOfStdin, Owners, Takers
<1> QED BY <1>1, ConnectionInvariance, PTL DEF ConnectionInv

(* The three together: types, fresh ids and one writer of stdin, for any   *)
(* number of requests and calls of graceful_shutdown.                      *)
THEOREM ConnectionIsSafe == Spec => []ConnectionSafe
BY ConnectionTypeCorrect, ConnectionIdsAreFresh, StdinHasOneWriter, PTL
   DEF ConnectionSafe

(* The cancel maps of the connection's router are those of open requests   *)
(* of the client that cancels, whatever its tasks do.                      *)
THEOREM ConnectionCancelsAreSound == Spec => []CancelMapsSound
BY ConnectionInvariance, PTL DEF ConnectionInv, RouterInv, CancelMapsSound
-----------------------------------------------------------------------------
(* The way of a message: a task sends it, the writer takes it from the     *)
(* queue and writes it.  Which task sends which message, in which state.   *)
Sender(m) ==
  \/ \E r \in Requests :
        EnsureDocumentOpened(r) /\ m = Msg("didOpen", request_id[r])
  \/ \E r \in Requests :
        /\ SendRequest(r) /\ m = Msg("request", request_id[r])
        /\ client' = [client EXCEPT ![r] = "waiting"]
  \/ \E u \in Upstreams :
        /\ ForwardCancel(u) /\ state = "Ready" /\ LookupDownstreamId(u) # None
        /\ m = Msg("cancel", LookupDownstreamId(u))
  \/ SendInitialize /\ m = Msg("initialize", 1)
  \/ /\ ReceiveInitialize /\ handshake' = "ready"
     /\ m = Msg("initialized", None)
  \/ Reply /\ m = Msg("reply", None)

Sends(m) == queue' = Append(queue, m) /\ UNCHANGED <<log, writing>>

(* What a step does to the messages on their way.  The writer task, once   *)
(* it has ended its loop, does not come back, and a dead server reads      *)
(* nothing.                                                                *)
FlowStep ==
  \/ \E m \in Messages : Sends(m) /\ Sender(m)
  \/ WriterTake
  \/ WriterWrite
  \/ \E s \in Shutdowns : WriteShutdown(s) \/ WriteExit(s)
  \/ queue' = <<>> /\ UNCHANGED <<log, writing>> /\ writer' \in {"cancelled", "done"}
  \/ UNCHANGED <<queue, writing, log>>

LEMMA StepsAreFlowSteps ==
  ASSUME ConnectionInv, [Next]_vars
  PROVE  FlowStep
<1> USE ConnectionAssumption DEF ConnectionInv
<1>0. /\ queue \in Seq(Messages)
      /\ \A d \in Ids : \A k \in {"didOpen", "request", "cancel", "initialize"} :
            Msg(k, d) \in Messages
      /\ Msg("initialized", None) \in Messages /\ Msg("reply", None) \in Messages
  BY MessageTypes DEF TypeOK, WriterTypeOK, Kinds, TrackedKinds
<1>1. ASSUME NEW r \in Requests, Client(r) PROVE FlowStep
  <2>1. CASE EnsureDocumentOpened(r) \/ SendRequest(r)
    <3>1. request_id[r] \in Ids
      BY <2>1 DEF EnsureDocumentOpened, SendRequest, RequestIdsInv, HoldingId,
         ClientSteps, TypeOK, TaskTypeOK
    <3>2. CASE UNCHANGED queue
      BY <2>1, <3>2 DEF EnsureDocumentOpened, SendRequest, FlowStep, serverVars
    <3>3. CASE EnsureDocumentOpened(r) /\ Enqueue(Msg("didOpen", request_id[r]))
      <4>1. Sends(Msg("didOpen", request_id[r]))
        BY <3>3 DEF EnsureDocumentOpened, Enqueue, Sends, serverVars
      <4> QED BY <1>0, <3>1, <3>3, <4>1 DEF Sender, FlowStep
    <3>4. CASE SendRequest(r) /\ Enqueue(Msg("request", request_id[r]))
      <4>1. Sends(Msg("request", request_id[r]))
        BY <3>4 DEF SendRequest, Enqueue, Sends, serverVars
      <4>2. CASE client' = [client EXCEPT ![r] = "waiting"]
        BY <1>0, <3>1, <3>4, <4>1, <4>2 DEF Sender, FlowStep
      <4>3. CASE ~CanSend
        BY <3>4, <4>3 DEF Enqueue
      <4> QED BY <3>4, <4>2, <4>3 DEF SendRequest, Goto
    <3> QED BY <2>1, <3>2, <3>3, <3>4 DEF EnsureDocumentOpened, SendRequest
  <2>2. CASE ~(EnsureDocumentOpened(r) \/ SendRequest(r))
    BY <1>1, <2>2
       DEF Client, ClientStep, GetConnection, CountPending, RegisterRequest,
           CheckReady, StartLiveness, RemoveRequest, ReceiveAnswer,
           CheckLivenessFailed, RequestTimeout, AbortRequest, FlowStep,
           writerVars, serverVars
  <2> QED BY <2>1, <2>2
<1>2. ASSUME NEW u \in Upstreams, ForwardCancel(u) PROVE FlowStep
  <2>1. CASE UNCHANGED queue
    BY <1>2, <2>1 DEF ForwardCancel, FlowStep, serverVars
  <2>2. CASE state = "Ready" /\ LookupDownstreamId(u) # None
             /\ Enqueue(Msg("cancel", LookupDownstreamId(u)))
    <3>1. LookupDownstreamId(u) \in Ids
      BY <2>2 DEF TypeOK, RouterTypeOK, LookupDownstreamId
    <3>2. Sends(Msg("cancel", LookupDownstreamId(u)))
      BY <1>2, <2>2 DEF ForwardCancel, Enqueue, Sends, serverVars
    <3> QED BY <1>0, <1>2, <2>2, <3>1, <3>2 DEF Sender, FlowStep
  <2> QED BY <1>2, <2>1, <2>2 DEF ForwardCancel
<1>3. CASE SendInitialize \/ ReceiveInitialize \/ Reply
  <2>1. CASE UNCHANGED queue
    BY <1>3, <2>1 DEF SendInitialize, ReceiveInitialize, Reply, FlowStep, serverVars
  <2>2. CASE SendInitialize /\ Enqueue(Msg("initialize", 1))
    <3>1. Sends(Msg("initialize", 1))
      BY <2>2 DEF SendInitialize, Enqueue, Sends, serverVars
    <3> QED BY <1>0, <2>2, <3>1 DEF Sender, FlowStep
  <2>3. CASE ReceiveInitialize /\ Enqueue(Msg("initialized", None))
             /\ handshake' = "ready"
    <3>1. Sends(Msg("initialized", None))
      BY <2>3 DEF ReceiveInitialize, Enqueue, Sends, serverVars
    <3> QED BY <1>0, <2>3, <3>1 DEF Sender, FlowStep
  <2>4. CASE Reply /\ Enqueue(Msg("reply", None))
    <3>1. Sends(Msg("reply", None))
      BY <2>4 DEF Reply, Enqueue, Sends, serverVars
    <3> QED BY <1>0, <2>4, <3>1 DEF Sender, FlowStep
  <2> QED BY <1>3, <2>1, <2>2, <2>3, <2>4 DEF SendInitialize, ReceiveInitialize, Reply
<1>4. CASE InitTimeout \/ FinishHandshake
  BY <1>4 DEF InitTimeout, FinishHandshake, FlowStep, writerVars, serverVars
<1>5. CASE Writer
  BY <1>5 DEF Writer, WriterStop, WriterHandBack, WriterCancel, WriterReturn,
     FlowStep, serverVars
<1>6. CASE Reader /\ ~Reply
  BY <1>6
     DEF Reader, ReaderStart, ReaderStop, ReadNotification,
         ReadServerRequest, FinishMessage, LivenessExpired,
         SignalLivenessFailed, ReadError, ReadResponse, FlowStep,
         writerVars, serverVars
<1>7. ASSUME NEW s \in Shutdowns, BeginShutdown(s) \/ ShutdownStep(s)
      PROVE  FlowStep
  BY <1>7
     DEF BeginShutdown, ShutdownStep, EnterClosing, TakeWriter, ReclaimWriter,
         RegisterShutdown, AwaitShutdown, ForceKill, CompleteShutdown, FlowStep,
         writerVars, serverVars
<1>8. CASE ServerDies \/ CloseFailed \/ GlobalTimeout \/ ForceKillTimeout
           \/ DropHandle \/ UNCHANGED vars
  BY <1>8 DEF ServerDies, CloseFailed, GlobalTimeout, ForceKillTimeout,
     DropHandle, vars, FlowStep, writerVars, serverVars
<1> QED BY <1>1, <1>2, <1>3, <1>4, <1>5, <1>6, <1>7, <1>8 DEF Next, Handshake

LEMMA EndsAreFinal ==
  ASSUME ConnectionInv, [Next]_vars
  PROVE  /\ writer \in {"returning", "cancelled", "done"} =>
              writer' \in {writer, "done"}
         /\ server = "dead" => server' = "dead" /\ log' = log
         /\ taken => taken'
<1> USE DEF ConnectionInv
<1>1. ASSUME NEW r \in Requests, Client(r)
      PROVE  UNCHANGED <<writer, taken, serverVars>>
  BY <1>1 DEF Client, ClientStep, GetConnection, CountPending, RegisterRequest,
     CheckReady, StartLiveness, EnsureDocumentOpened, SendRequest,
     RemoveRequest, ReceiveAnswer, CheckLivenessFailed, RequestTimeout,
     AbortRequest, handleVars, writerVars
<1>2. CASE Handshake \/ \E u \in Upstreams : ForwardCancel(u)
  BY <1>2 DEF Handshake, SendInitialize, ReceiveInitialize, InitTimeout,
     FinishHandshake, ForwardCancel, handleVars, writerVars, serverVars
<1>3. CASE Writer
  BY <1>3 DEF Writer, WriterTake, WriterWrite, WriterStop, WriterHandBack,
     WriterCancel, WriterReturn, handleVars, serverVars
<1>4. CASE Reader
  BY <1>4 DEF Reader, ReaderStart, ReaderStop, ReadNotification,
     ReadServerRequest, Reply, FinishMessage, LivenessExpired,
     SignalLivenessFailed, ReadError, ReadResponse, handleVars, writerVars,
     serverVars
<1>5. ASSUME NEW s \in Shutdowns, BeginShutdown(s) \/ ShutdownStep(s)
      PROVE  /\ UNCHANGED writer /\ (taken => taken')
             /\ server = "dead" => server' = "dead" /\ log' = log
  BY <1>5 DEF BeginShutdown, ShutdownStep, EnterClosing, TakeWriter,
     ReclaimWriter, RegisterShutdown, WriteShutdown, AwaitShutdown, WriteExit,
     WriteDirectly, ForceKill, CompleteShutdown, handleVars, writerVars, serverVars
<1>6. CASE ServerDies \/ CloseFailed \/ GlobalTimeout \/ ForceKillTimeout
           \/ DropHandle \/ UNCHANGED vars
  BY <1>6 DEF ServerDies, CloseFailed, GlobalTimeout, ForceKillTimeout,
     DropHandle, vars, handleVars, writerVars, serverVars
<1>7. CASE \/ \E r \in Requests : Client(r)
           \/ \E s \in Shutdowns : BeginShutdown(s) \/ ShutdownStep(s)
  BY <1>1, <1>5, <1>7 DEF serverVars
<1> QED BY <1>2, <1>3, <1>4, <1>6, <1>7 DEF Next

(* The elements of a sequence that has grown by one. *)
Grown(q, p, x) ==
  /\ DOMAIN q = 1 .. Len(q) /\ Len(q) \in Nat
  /\ DOMAIN p = 1 .. Len(q) + 1
  /\ p[Len(q) + 1] = x
  /\ \A i \in DOMAIN q : p[i] = q[i]
  /\ \A i \in DOMAIN p : \/ i = Len(q) + 1 /\ p[i] = x
                         \/ i \in DOMAIN q /\ p[i] = q[i]

LEMMA AppendGrows ==
  ASSUME NEW q \in Seq(Messages), NEW x \in Messages, NEW p, p = Append(q, x)
  PROVE  Grown(q, p, x)
<1>1. p \in Seq(Messages) /\ Len(p) = Len(q) + 1 /\ Len(q) \in Nat
  OBVIOUS
<1>2. DOMAIN p = 1 .. Len(p) /\ DOMAIN q = 1 .. Len(q)
  BY <1>1
<1>3. p[Len(q) + 1] = x /\ \A i \in 1 .. Len(q) : p[i] = q[i]
  OBVIOUS
<1>4. \A i \in 1 .. Len(q) + 1 : i = Len(q) + 1 \/ i \in 1 .. Len(q)
  BY <1>1
<1>5. \A i \in DOMAIN p : \/ i = Len(q) + 1 /\ p[i] = x
                          \/ i \in DOMAIN q /\ p[i] = q[i]
  <2> TAKE i \in DOMAIN p
  <2>1. i \in 1 .. Len(q) + 1
    BY <1>1, <1>2
  <2>2. CASE i = Len(q) + 1
    BY <1>3, <2>2
  <2>3. CASE i \in 1 .. Len(q)
    BY <1>2, <1>3, <2>3
  <2> QED BY <1>4, <2>1, <2>2, <2>3
<1>6. DOMAIN p = 1 .. Len(q) + 1
  BY <1>1, <1>2
<1> QED BY <1>1, <1>2, <1>3, <1>5, <1>6 DEF Grown

(* What each kind of step does to the messages, one by one. *)
Taken ==
  /\ writing = None /\ log' = log
  /\ 1 \in DOMAIN queue /\ writing' = queue[1]
  /\ \A i \in DOMAIN queue' : i \in Nat \ {0} /\ i + 1 \in DOMAIN queue
                               /\ queue'[i] = queue[i + 1]
  /\ \A i \in DOMAIN queue : i = 1 \/ (i - 1 \in DOMAIN queue' /\ i \in Nat)

Wrote ==
  /\ WriterWrite
  /\ writing \in Messages /\ writing # None /\ writing' = None /\ queue' = queue
  /\ writer \in {"loop", "draining"}
  /\ \/ server = "up" /\ Grown(log, log', writing)
     \/ server = "dead" /\ log' = log

WroteDirectly(m) == Grown(log, log', m) /\ UNCHANGED <<queue, writing>>

LEMMA FlowShapes ==
  ASSUME ConnectionInv, [Next]_vars
  PROVE  \/ \E m \in Messages : /\ Grown(queue, queue', m) /\ Sender(m)
                                /\ UNCHANGED <<log, writing>>
         \/ Taken
         \/ Wrote
         \/ \E s \in Shutdowns :
               \/ WriteShutdown(s) /\ WroteDirectly(Msg("shutdown", shutdown_id))
               \/ WriteExit(s) /\ WroteDirectly(Msg("exit", None))
         \/ /\ queue' = <<>> /\ UNCHANGED <<log, writing>>
            /\ writer' \in {"cancelled", "done"}
         \/ UNCHANGED <<queue, writing, log>>
<1> USE DEF ConnectionInv
<1>0. /\ queue \in Seq(Messages) /\ log \in Seq(Messages)
      /\ writing \in Messages \cup {None} /\ server \in {"up", "dead"}
      /\ Msg("shutdown", shutdown_id) \in Messages /\ Msg("exit", None) \in Messages
  BY MessageTypes DEF TypeOK, WriterTypeOK, ServerTypeOK, TaskTypeOK, Kinds,
     TrackedKinds
<1>1. ASSUME NEW m \in Messages, Sends(m)
      PROVE  Grown(queue, queue', m) /\ UNCHANGED <<log, writing>>
  BY <1>0, <1>1, AppendGrows DEF Sends
<1>2. CASE WriterTake
  <2>1. queue # <<>> /\ writing' = Head(queue) /\ queue' = Tail(queue)
    BY <1>2 DEF WriterTake
  <2>2. 1 \in DOMAIN queue /\ writing' = queue[1]
    BY <1>0, <2>1
  <2>3. \A i \in DOMAIN queue' : i \in Nat \ {0} /\ i + 1 \in DOMAIN queue
                                 /\ queue'[i] = queue[i + 1]
    BY <1>0, <2>1
  <2>4. \A i \in DOMAIN queue : i = 1 \/ (i - 1 \in DOMAIN queue' /\ i \in Nat)
    BY <1>0, <2>1
  <2> QED BY <1>2, <2>2, <2>3, <2>4 DEF WriterTake, Taken, serverVars
<1>3. CASE WriterWrite
  <2>1. writing \in Messages
    BY <1>0, <1>3 DEF WriterWrite
  <2>2. CASE server = "up"
    BY <1>0, <1>3, <2>1, <2>2, AppendGrows DEF WriterWrite, Wrote, WriterInv
  <2>3. CASE server = "dead"
    BY <1>3, <2>1, <2>3 DEF WriterWrite, Wrote, WriterInv
  <2> QED BY <1>0, <2>2, <2>3
<1>4. ASSUME NEW s \in Shutdowns, WriteShutdown(s) \/ WriteExit(s)
      PROVE  \/ WriteShutdown(s) /\ WroteDirectly(Msg("shutdown", shutdown_id))
             \/ WriteExit(s) /\ WroteDirectly(Msg("exit", None))
             \/ UNCHANGED <<queue, writing, log>>
  BY <1>0, <1>4, AppendGrows
     DEF WriteShutdown, WriteExit, WriteDirectly, WroteDirectly, writerVars
<1> QED BY <1>1, <1>2, <1>3, <1>4, StepsAreFlowSteps DEF FlowStep

(* The messages that are on their way or have been read by the server. *)
Flow == {log[i] : i \in DOMAIN log} \cup {queue[i] : i \in DOMAIN queue}
        \cup {m \in {writing} : m # None}

LEMMA FlowGrows ==
  ASSUME ConnectionInv, [Next]_vars, NEW m \in Flow'
  PROVE  \/ m \in Flow
         \/ m \in Messages /\ Sender(m)
         \/ \E s \in Shutdowns : WriteShutdown(s) /\ m = Msg("shutdown", shutdown_id)
         \/ m = Msg("exit", None)
<1>1. CASE \E n \in Messages : /\ Grown(queue, queue', n) /\ Sender(n)
                               /\ UNCHANGED <<log, writing>>
  BY <1>1 DEF Grown, Flow
<1>2. CASE Taken
  BY <1>2 DEF Taken, Flow
<1>3. CASE Wrote
  BY <1>3 DEF Wrote, Grown, Flow
<1>4. ASSUME NEW n, WroteDirectly(n) PROVE m \in Flow \/ m = n
  BY <1>4 DEF WroteDirectly, Grown, Flow
<1>5. CASE queue' = <<>> /\ UNCHANGED <<log, writing>>
  BY <1>5 DEF Flow
<1>6. CASE UNCHANGED <<queue, writing, log>>
  BY <1>6 DEF Flow
<1> QED BY <1>1, <1>2, <1>3, <1>4, <1>5, <1>6, FlowShapes

LEMMA FlowIsOfMessages ==
  ASSUME ConnectionInv, NEW m \in Flow
  PROVE  m \in Messages
BY DEF ConnectionInv, TypeOK, WriterTypeOK, ServerTypeOK, Flow

(* What the messages of Flow refer to, whatever has happened since they    *)
(* were sent.  A request whose message has been sent does not go back to   *)
(* where it would open its document.                                       *)
Issued == {"waiting", "checking", "removing", "done"}

MessageSound(m) ==
  /\ m.kind = "initialize" => m.id = 1
  /\ m.kind = "shutdown" =>
        /\ m.id \in Ids /\ 1 < m.id /\ m.id < next_request_id
        /\ \A r \in Requests : request_id[r] # m.id
  /\ m.kind = "request" =>
        \E r \in Requests : request_id[r] = m.id /\ client[r] \in Issued
  /\ m.kind = "cancel" =>
        /\ m.id \in Ids
        /\ \E r \in Requests : request_id[r] = m.id /\ UpstreamOf[r] \in cancelled

(* The forward map names requests of the client that cancels. *)
MapsOfRequests ==
  \A u \in Upstreams : upstream_to_downstream[u] # None =>
     \E r \in Requests : /\ request_id[r] = upstream_to_downstream[u]
                         /\ UpstreamOf[r] = u

(* An id belongs to one request, or to the shutdown, or to initialize. *)
IdsOfRequests ==
  /\ next_request_id > 1
  /\ \A r \in Requests :
        /\ client[r] \in {"idle", "counting", "registering"} => request_id[r] = None
        /\ request_id[r] # 1
  /\ \A s \in Shutdowns : shutdown[s] = "writing" => shutdown_id # None
  /\ shutdown_id # None =>
        /\ 1 < shutdown_id /\ shutdown_id < next_request_id
        /\ \A r \in Requests : request_id[r] # shutdown_id

FlowInv ==
  MapsOfRequests /\ IdsOfRequests /\ \A m \in Flow : MessageSound(m)

LEMMA InitFlowInv == Init => FlowInv
<1> SUFFICES ASSUME Init PROVE FlowInv
  OBVIOUS
<1>1. MapsOfRequests /\ Flow = {}
  BY DEF Init, RouterInit, MapsOfRequests, Flow
<1>2. IdsOfRequests
  BY RouterAssumption, ConnectionAssumption DEF Init, IdsOfRequests
<1> QED BY <1>1, <1>2 DEF FlowInv

(* A task gets its id once and moves forward; cancels are not taken back. *)
LEMMA RequestsProceed ==
  ASSUME ConnectionInv, FlowInv, [Next]_vars
  PROVE  /\ \A r \in Requests :
               /\ \/ request_id'[r] = request_id[r]
                  \/ /\ RegisterRequest(r) /\ request_id[r] = None
                     /\ request_id'[r] = next_request_id
               /\ client[r] \in Issued => client'[r] \in Issued
               /\ client'[r] \in {"idle", "counting", "registering"} =>
                     client[r] \in {"idle", "counting", "registering"}
                     /\ request_id'[r] = request_id[r]
         /\ cancelled \subseteq cancelled'
<1> USE DEF ConnectionInv
<1>0. TypeOK
  OBVIOUS
<1>1. ASSUME NEW r \in Requests, Client(r)
      PROVE  /\ client' = [client EXCEPT ![r] = client'[r]]
             /\ \/ UNCHANGED request_id /\ ~RegisterRequest(r)
                \/ /\ RegisterRequest(r) /\ client[r] = "registering"
                   /\ request_id' = [request_id EXCEPT ![r] = next_request_id]
             /\ client[r] \in Issued => client'[r] \in Issued
             /\ client'[r] \in {"idle", "counting", "registering"} =>
                     client[r] \in {"idle", "counting", "registering"}
                     /\ UNCHANGED request_id
             /\ UNCHANGED cancelled
  BY <1>0, <1>1 DEF Client, ClientStep, GetConnection, CountPending,
     RegisterRequest, CheckReady, StartLiveness, EnsureDocumentOpened,
     SendRequest, RemoveRequest, ReceiveAnswer, CheckLivenessFailed,
     RequestTimeout, AbortRequest, Goto, Issued, TypeOK, TaskTypeOK
<1>2. CASE \E r \in Requests : Client(r)
  <2>1. PICK r \in Requests : Client(r)
    BY <1>2
  <2>2. RegisterRequest(r) => request_id[r] = None
    BY <1>1, <2>1 DEF FlowInv, IdsOfRequests
  <2> QED BY <1>0, <1>1, <2>1, <2>2 DEF TypeOK, TaskTypeOK
<1>3. CASE ~\E r \in Requests : Client(r)
  <2>1. UNCHANGED clientVars
    BY <1>3, OthersLeaveClients
  <2>2. cancelled \subseteq cancelled'
    BY <1>3 DEF Next, vars, taskVars, ForwardCancel, Handshake,
       SendInitialize, ReceiveInitialize, InitTimeout, FinishHandshake,
       Writer, WriterTake, WriterWrite, WriterStop, WriterHandBack,
       WriterCancel, WriterReturn, Reader, ReaderStart, ReaderStop,
       ReadNotification, ReadServerRequest, Reply, FinishMessage,
       LivenessExpired, SignalLivenessFailed, ReadError, ReadResponse,
       ServerDies, BeginShutdown, ShutdownStep, EnterClosing, TakeWriter,
       ReclaimWriter, RegisterShutdown, WriteShutdown, AwaitShutdown,
       WriteExit, ForceKill, CompleteShutdown, CloseFailed, GlobalTimeout,
       ForceKillTimeout, DropHandle
  <2> QED BY <2>1, <2>2 DEF clientVars
<1> QED BY <1>2, <1>3

(* Completions only take entries out of the forward map. *)
LEMMA CompletionsMapNothing ==
  ASSUME RouterInv, [Completion]_routerVars, NEW u \in Upstreams
  PROVE  upstream_to_downstream'[u] \in {None, upstream_to_downstream[u]}
<1> USE DEF RouterInv, RouterTypeOK
<1>1. ASSUME NEW d \in Ids, NEW a, Settle(d, a)
      PROVE  upstream_to_downstream'[u] \in {None, upstream_to_downstream[u]}
  BY <1>1 DEF Settle, RemoveCancelMapping
<1>2. CASE \E d \in Ids : Route(d) \/ FailRequest(d) \/ Remove(d)
  BY <1>1, <1>2 DEF Route, FailRequest, Remove, routerVars
<1>3. CASE FailAll \/ (\E S \in SUBSET Ids : FailRequests(S)) \/ UNCHANGED routerVars
  BY <1>3 DEF FailAll, FailRequests, routerVars
<1> QED BY <1>2, <1>3 DEF Completion

(* Only the registrations of requests and of shutdowns use up an id. *)
LEMMA RegistrationsAllocate ==
  ASSUME ConnectionInv, [Next]_vars, next_request_id' # next_request_id
  PROVE  \/ \E r \in Requests : RegisterRequest(r)
         \/ \E s \in Shutdowns : RegisterShutdown(s)
<1>1. ASSUME NEW r \in Requests, Client(r) PROVE RegisterRequest(r)
  BY <1>1 DEF Client, ClientStep, GetConnection, CountPending, CheckReady,
     StartLiveness, EnsureDocumentOpened, SendRequest, RemoveRequest,
     ReceiveAnswer, CheckLivenessFailed, RequestTimeout, AbortRequest, handleVars
<1>2. ASSUME NEW s \in Shutdowns, BeginShutdown(s) \/ ShutdownStep(s)
      PROVE  RegisterShutdown(s)
  BY <1>2 DEF BeginShutdown, ShutdownStep, EnterClosing, TakeWriter,
     ReclaimWriter, WriteShutdown, AwaitShutdown, WriteExit, ForceKill,
     CompleteShutdown, handleVars
<1>3. CASE \/ Handshake \/ Writer \/ Reader \/ ServerDies \/ CloseFailed
           \/ GlobalTimeout \/ ForceKillTimeout \/ DropHandle \/ UNCHANGED vars
           \/ \E v \in Upstreams : ForwardCancel(v)
  BY <1>3 DEF vars, Handshake, SendInitialize, ReceiveInitialize,
     InitTimeout, FinishHandshake, Writer, WriterTake, WriterWrite,
     WriterStop, WriterHandBack, WriterCancel, WriterReturn, Reader,
     ReaderStart, ReaderStop, ReadNotification, ReadServerRequest, Reply,
     FinishMessage, LivenessExpired, SignalLivenessFailed, ReadError,
     ReadResponse, ServerDies, CloseFailed, GlobalTimeout,
     ForceKillTimeout, DropHandle, ForwardCancel, handleVars
<1> QED BY <1>1, <1>2, <1>3 DEF Next

(* A registration under a client's id is that of a request of this client. *)
LEMMA AllocationsAreRequests ==
  ASSUME ConnectionInv, [Next]_vars, NEW u \in Upstreams, AllocateId(u)
  PROVE  \E r \in Requests : RegisterRequest(r) /\ UpstreamOf[r] = u
<1> USE RouterAssumption, ConnectionAssumption DEF ConnectionInv
<1>0. /\ next_request_id \in Nat /\ next_request_id' = next_request_id + 1
      /\ downstream_to_upstream \in [Ids -> Upstreams \cup {None}]
      /\ next_request_id \in Ids /\ downstream_to_upstream'[next_request_id] = u
  BY DEF AllocateId, RegisterWithUpstream, TypeOK, HandleTypeOK, RouterTypeOK
<1>1. ASSUME NEW r \in Requests, RegisterRequest(r) PROVE UpstreamOf[r] = u
  <2>1. RegisterWithUpstream(next_request_id, UpstreamOf[r]) /\ UpstreamOf[r] # None
    BY <1>1 DEF RegisterRequest, AllocateId
  <2> QED BY <1>0, <2>1 DEF RegisterWithUpstream
<1>2. ASSUME NEW s \in Shutdowns, RegisterShutdown(s) PROVE FALSE
  <2>1. RegisterWithUpstream(next_request_id, None)
    BY <1>2 DEF RegisterShutdown, AllocateId
  <2>2. UNCHANGED downstream_to_upstream /\ next_request_id \notin pending
    BY <2>1 DEF RegisterWithUpstream
  <2>3. downstream_to_upstream[next_request_id] = None
    BY <1>0, <2>2 DEF RouterInv, ReverseMapOfPending
  <2> QED BY <1>0, <2>2, <2>3
<1> QED BY <1>0, <1>1, <1>2, RegistrationsAllocate

LEMMA MapsOfRequestsPreserved ==
  ASSUME ConnectionInv, FlowInv, [Next]_vars
  PROVE  MapsOfRequests'
<1> USE ConnectionAssumption DEF ConnectionInv
<1> SUFFICES ASSUME NEW u \in Upstreams, upstream_to_downstream'[u] # None
             PROVE  \E r \in Requests :
                       /\ request_id'[r] = upstream_to_downstream'[u]
                       /\ UpstreamOf[r] = u
  BY DEF MapsOfRequests
<1>1. CASE upstream_to_downstream'[u] = upstream_to_downstream[u]
  <2>1. PICK r \in Requests : /\ request_id[r] = upstream_to_downstream[u]
                              /\ UpstreamOf[r] = u
    BY <1>1 DEF FlowInv, MapsOfRequests
  <2>2. request_id'[r] = request_id[r]
    BY <1>1, <2>1, RequestsProceed
  <2> QED BY <1>1, <2>1, <2>2
<1>2. CASE AllocateId(u)
  <2>1. PICK r \in Requests : RegisterRequest(r) /\ UpstreamOf[r] = u
    BY <1>2, AllocationsAreRequests
  <2>2. request_id'[r] = next_request_id
    BY <2>1 DEF RegisterRequest, TypeOK, TaskTypeOK
  <2>3. upstream_to_downstream'[u] = next_request_id
    BY <1>2, RouterAssumption
       DEF AllocateId, RegisterWithUpstream, TypeOK, RouterTypeOK
  <2> QED BY <2>1, <2>2, <2>3
<1>3. CASE \E v \in Upstreams \cup {None} : v # u /\ AllocateId(v)
  <2>1. upstream_to_downstream'[u] = upstream_to_downstream[u]
    BY <1>3 DEF AllocateId, RegisterWithUpstream, TypeOK, RouterTypeOK
  <2> QED BY <1>1, <2>1
<1>4. CASE [Completion]_routerVars
  BY <1>1, <1>4, CompletionsMapNothing
<1> QED BY <1>2, <1>3, <1>4, StepsAreRouterSteps DEF RouterStep

(* Shutdowns get their id when they register, and keep it. *)
LEMMA ShutdownIdsProceed ==
  ASSUME ConnectionInv, [Next]_vars
  PROVE  /\ \/ shutdown_id' = shutdown_id
            \/ /\ shutdown_id' = next_request_id /\ next_request_id \in Ids
               /\ next_request_id' = next_request_id + 1
               /\ UNCHANGED request_id
         /\ \A s \in Shutdowns : shutdown'[s] = "writing" =>
               \/ shutdown[s] = "writing" /\ shutdown_id' = shutdown_id
               \/ shutdown_id' = next_request_id /\ next_request_id \in Ids
<1> USE DEF ConnectionInv
<1>0. shutdown = [t \in Shutdowns |-> shutdown[t]]
  BY DEF TypeOK, TaskTypeOK
<1>1. ASSUME NEW s \in Shutdowns, RegisterShutdown(s)
      PROVE  /\ shutdown_id' = next_request_id /\ next_request_id \in Ids
             /\ next_request_id' = next_request_id + 1
             /\ UNCHANGED request_id
  BY <1>1 DEF RegisterShutdown, AllocateId, clientVars
<1>2. ASSUME NEW s \in Shutdowns, BeginShutdown(s) \/ ShutdownStep(s),
             ~RegisterShutdown(s)
      PROVE  /\ shutdown_id' = shutdown_id
             /\ \A t \in Shutdowns : shutdown'[t] = "writing" => shutdown[t] = "writing"
  BY <1>0, <1>2 DEF BeginShutdown, ShutdownStep, EnterClosing, TakeWriter,
     ReclaimWriter, WriteShutdown, AwaitShutdown, WriteExit, ForceKill,
     CompleteShutdown, ShutdownGoto
<1>3. CASE GlobalTimeout \/ CloseFailed
  BY <1>0, <1>3 DEF GlobalTimeout, CloseFailed, ShutdownGoto
<1>4. ASSUME NEW r \in Requests, Client(r) PROVE UNCHANGED <<shutdown, shutdown_id>>
  BY <1>4 DEF Client, ClientStep, GetConnection, CountPending, RegisterRequest,
     CheckReady, StartLiveness, EnsureDocumentOpened, SendRequest,
     RemoveRequest, ReceiveAnswer, CheckLivenessFailed, RequestTimeout,
     AbortRequest, shutdownVars
<1>5. CASE \/ Handshake \/ Writer \/ Reader \/ ServerDies \/ ForceKillTimeout
           \/ DropHandle \/ UNCHANGED vars
           \/ \E v \in Upstreams : ForwardCancel(v)
  BY <1>5 DEF vars, Handshake, SendInitialize, ReceiveInitialize,
     InitTimeout, FinishHandshake, Writer, WriterTake, WriterWrite,
     WriterStop, WriterHandBack, WriterCancel, WriterReturn, Reader,
     ReaderStart, ReaderStop, ReadNotification, ReadServerRequest, Reply,
     FinishMessage, LivenessExpired, SignalLivenessFailed, ReadError,
     ReadResponse, ServerDies, ForceKillTimeout, DropHandle, ForwardCancel,
     taskVars, shutdownVars
<1> QED BY <1>1, <1>2, <1>3, <1>4, <1>5 DEF Next

LEMMA IdsOfRequestsPreserved ==
  ASSUME ConnectionInv, FlowInv, [Next]_vars
  PROVE  IdsOfRequests'
<1> USE ConnectionAssumption, RouterAssumption DEF ConnectionInv
<1>0. /\ next_request_id \in Nat
      /\ next_request_id' \in {next_request_id, next_request_id + 1}
      /\ shutdown_id \in Nat \cup {None}
      /\ \A r \in Requests : request_id[r] \in Ids \cup {None}
  BY StepsAreRouterSteps DEF RouterStep, AllocateId, TypeOK, HandleTypeOK,
     TaskTypeOK
<1>1. next_request_id' > 1 /\ next_request_id > 1
  BY <1>0 DEF FlowInv, IdsOfRequests
<1>2. \A r \in Requests :
        /\ client'[r] \in {"idle", "counting", "registering"} => request_id'[r] = None
        /\ request_id'[r] # 1
  <2> TAKE r \in Requests
  <2>1. /\ client'[r] \in {"idle", "counting", "registering"} =>
              client[r] \in {"idle", "counting", "registering"}
              /\ request_id'[r] = request_id[r]
        /\ request_id'[r] \in {request_id[r], next_request_id}
    BY RequestsProceed
  <2> QED BY <1>1, <2>1 DEF FlowInv, IdsOfRequests
<1>3. \A s \in Shutdowns : shutdown'[s] = "writing" => shutdown_id' # None
  BY ShutdownIdsProceed DEF FlowInv, IdsOfRequests
<1>4. shutdown_id' # None =>
        /\ 1 < shutdown_id' /\ shutdown_id' < next_request_id'
        /\ \A r \in Requests : request_id'[r] # shutdown_id'
  <2>1. CASE shutdown_id' = shutdown_id /\ shutdown_id # None
    <3>1. \A r \in Requests : request_id'[r] \in {request_id[r], next_request_id}
      BY RequestsProceed
    <3> QED BY <1>0, <2>1, <3>1 DEF FlowInv, IdsOfRequests
  <2>2. CASE /\ shutdown_id' = next_request_id /\ next_request_id \in Ids
             /\ next_request_id' = next_request_id + 1
             /\ UNCHANGED request_id
    <3>1. \A r \in Requests : request_id[r] # None => request_id[r] < next_request_id
      BY DEF RequestIdsInv
    <3> QED BY <1>0, <1>1, <2>2, <3>1
  <2> QED BY <2>1, <2>2, ShutdownIdsProceed
<1> QED BY <1>1, <1>2, <1>3, <1>4 DEF IdsOfRequests

(* A sound message stays sound: what it refers to is not taken back. *)
LEMMA MessagesStaySound ==
  ASSUME ConnectionInv, FlowInv, [Next]_vars, NEW m \in Messages, MessageSound(m)
  PROVE  MessageSound(m)'
<1> USE ConnectionAssumption, RouterAssumption DEF ConnectionInv
<1>0. /\ next_request_id \in Nat
      /\ next_request_id' \in {next_request_id, next_request_id + 1}
  BY StepsAreRouterSteps DEF RouterStep, AllocateId, TypeOK, HandleTypeOK
<1>1. m.kind = "shutdown" =>
        /\ m.id \in Ids /\ 1 < m.id /\ m.id < next_request_id'
        /\ \A r \in Requests : request_id'[r] # m.id
  <2> HAVE m.kind = "shutdown"
  <2>1. \A r \in Requests : request_id'[r] \in {request_id[r], next_request_id}
    BY RequestsProceed
  <2>2. /\ m.id \in Ids /\ 1 < m.id /\ m.id < next_request_id
        /\ \A r \in Requests : request_id[r] # m.id
    BY DEF MessageSound
  <2>3. m.id \in Nat
    BY <2>2
  <2>4. m.id < next_request_id' /\ m.id # next_request_id
    BY <1>0, <2>2, <2>3
  <2> QED BY <2>1, <2>2, <2>4
<1>2. \A r \in Requests :
        request_id[r] = m.id /\ m.id # None => request_id'[r] = m.id
  BY RequestsProceed
<1>3. m.kind = "request" =>
        \E r \in Requests : request_id'[r] = m.id /\ client'[r] \in Issued
  <2> HAVE m.kind = "request"
  <2>1. m.id # None
    BY DEF Messages, TrackedKinds
  <2> QED BY <1>2, <2>1, RequestsProceed DEF MessageSound
<1>4. m.kind = "cancel" =>
        /\ m.id \in Ids
        /\ \E r \in Requests :
              request_id'[r] = m.id /\ UpstreamOf[r] \in cancelled'
  BY <1>2, RequestsProceed DEF MessageSound
<1>5. m.kind = "initialize" => m.id = 1
  BY DEF MessageSound
<1> QED BY <1>1, <1>3, <1>4, <1>5 DEF MessageSound

(* A message is sound when it is sent. *)
LEMMA SentMessagesAreSound ==
  ASSUME ConnectionInv, FlowInv, [Next]_vars, NEW m, Sender(m)
  PROVE  MessageSound(m)'
<1> USE ConnectionAssumption, RouterAssumption DEF ConnectionInv, Msg
<1>1. ASSUME NEW r \in Requests, SendRequest(r),
             m = Msg("request", request_id[r]),
             client' = [client EXCEPT ![r] = "waiting"]
      PROVE  MessageSound(m)'
  <2>1. client'[r] = "waiting" /\ request_id'[r] = request_id[r]
    BY <1>1 DEF SendRequest, TypeOK, TaskTypeOK
  <2> QED BY <1>1, <2>1 DEF MessageSound, Issued
<1>2. ASSUME NEW u \in Upstreams, ForwardCancel(u), LookupDownstreamId(u) # None,
             m = Msg("cancel", LookupDownstreamId(u))
      PROVE  MessageSound(m)'
  <2>1. PICK r \in Requests : /\ request_id[r] = LookupDownstreamId(u)
                              /\ UpstreamOf[r] = u
    BY <1>2 DEF FlowInv, MapsOfRequests, LookupDownstreamId
  <2>2. u \in cancelled' /\ request_id'[r] = request_id[r]
    BY <1>2 DEF ForwardCancel, clientVars
  <2>3. LookupDownstreamId(u) \in Ids
    BY <1>2 DEF TypeOK, RouterTypeOK, LookupDownstreamId
  <2> QED BY <1>2, <2>1, <2>2, <2>3 DEF MessageSound
<1>3. CASE \/ \E r \in Requests : m = Msg("didOpen", request_id[r])
           \/ m \in {Msg("initialize", 1), Msg("initialized", None), Msg("reply", None)}
  BY <1>3 DEF MessageSound
<1> QED BY <1>1, <1>2, <1>3 DEF Sender

LEMMA FlowInvariance == Spec => []FlowInv
<1>1. ConnectionInv /\ FlowInv /\ [Next]_vars => FlowInv'
  <2> SUFFICES ASSUME ConnectionInv, FlowInv, [Next]_vars PROVE FlowInv'
    OBVIOUS
  <2>1. MapsOfRequests' /\ IdsOfRequests'
    BY MapsOfRequestsPreserved, IdsOfRequestsPreserved
  <2>2. ASSUME NEW m \in Flow' PROVE MessageSound(m)'
    <3>1. CASE m \in Flow
      BY <3>1, FlowIsOfMessages, MessagesStaySound DEF FlowInv
    <3>2. CASE Sender(m)
      BY <3>2, SentMessagesAreSound
    <3>3. ASSUME NEW s \in Shutdowns, WriteShutdown(s),
                 m = Msg("shutdown", shutdown_id)
          PROVE  MessageSound(m)'
      <4>1. shutdown_id \in Ids /\ shutdown_id' = shutdown_id
            /\ UNCHANGED <<next_request_id, request_id>>
        BY <3>3 DEF WriteShutdown, FlowInv, IdsOfRequests, ConnectionInv,
           TypeOK, TaskTypeOK, handleVars, clientVars
      <4>2. /\ 1 < shutdown_id /\ shutdown_id < next_request_id
            /\ \A r \in Requests : request_id[r] # shutdown_id
        BY <4>1, RouterAssumption DEF FlowInv, IdsOfRequests
      <4>3. m.kind = "shutdown" /\ m.id = shutdown_id
        BY <3>3 DEF Msg
      <4> QED BY <4>1, <4>2, <4>3 DEF MessageSound
    <3>4. CASE m = Msg("exit", None)
      BY <3>4 DEF MessageSound, Msg
    <3> QED BY <3>1, <3>2, <3>3, <3>4, FlowGrows
  <2> QED BY <2>1, <2>2 DEF FlowInv
<1> QED BY <1>1, InitFlowInv, ConnectionInvariance, PTL DEF Spec

(* A server is asked to cancel a request only if the client cancelled the  *)
(* request it serves, for any number of requests that share a client's id  *)
(* and whatever happens between lookup and write.                          *)
THEOREM CancelsAreForwardedForTheClient == Spec => []CancelsAreTheClients
<1>1. FlowInv => CancelsAreTheClients
  BY DEF FlowInv, Flow, MessageSound, CancelsAreTheClients
<1> QED BY <1>1, FlowInvariance, PTL
-----------------------------------------------------------------------------
(* The order of the messages.  What is said of the log must have been true *)
(* already when the later of two messages was queued: nothing overtakes in *)
(* the queue, and what is written beside it comes when nobody reads it any *)
(* more.                                                                   *)

(* A didOpen comes before the request it is sent for. *)
OpensBefore ==
  /\ \A i, j \in DOMAIN log :
        (log[i].kind = "didOpen" /\ log[j] = Msg("request", log[i].id)) => i < j
  /\ (writing # None /\ writing.kind = "didOpen") =>
        \A j \in DOMAIN log : log[j] # Msg("request", writing.id)
  /\ \A i \in DOMAIN queue : queue[i].kind = "didOpen" =>
        /\ \A j \in DOMAIN log : log[j] # Msg("request", queue[i].id)
        /\ writing # None => writing # Msg("request", queue[i].id)
        /\ \A j \in DOMAIN queue : j < i => queue[j] # Msg("request", queue[i].id)

(* initialized comes before what only a Ready connection sends. *)
AfterInitialized == {"didOpen", "request", "cancel"}
Opened(n) == \E i \in DOMAIN log : i <= n /\ log[i].kind = "initialized"
Written == \/ server = "dead" \/ Opened(Len(log))
           \/ writer \in {"returning", "cancelled", "done"}
Serving == \/ state = "Ready" \/ handshake = "ready"
           \/ \E r \in Requests : client[r] \notin {"idle", "done"}

HandshakeFirst ==
  /\ Serving =>
        \/ Written
        \/ writing # None /\ writing.kind = "initialized"
        \/ \E i \in DOMAIN queue : queue[i].kind = "initialized"
  /\ \A i \in DOMAIN queue : queue[i].kind \in AfterInitialized =>
        \/ Written
        \/ writing # None /\ writing.kind = "initialized"
        \/ \E j \in DOMAIN queue : j < i /\ queue[j].kind = "initialized"
  /\ (writing # None /\ writing.kind \in AfterInitialized) => Written
  /\ \A j \in DOMAIN log : log[j].kind \in AfterInitialized => Opened(j - 1)

(* shutdown comes last but for exit: it is written when the writer task    *)
(* writes no more, by the only call that has taken the writer.             *)
QueueKinds == Kinds \ {"shutdown", "exit"}
ShutdownLast ==
  /\ \A i \in DOMAIN queue : queue[i].kind \in QueueKinds
  /\ writing # None => writing.kind \in QueueKinds
  /\ \A i, j \in DOMAIN log :
        (log[i].kind = "shutdown" /\ i < j) => log[j].kind = "exit"
  /\ (\E i \in DOMAIN log : log[i].kind = "shutdown") =>
        /\ taken /\ writer \in {"returning", "done"}
        /\ \A s \in Shutdowns :
              shutdown[s] \notin {"reclaiming", "registering", "writing"}

OrderInv == OpensBefore /\ HandshakeFirst /\ ShutdownLast

LEMMA InitOrderInv == Init => OrderInv
<1> SUFFICES ASSUME Init PROVE OrderInv
  OBVIOUS
<1>1. DOMAIN log = {} /\ DOMAIN queue = {}
  BY DEF Init
<1>2. OpensBefore
  BY <1>1 DEF Init, OpensBefore
<1>3. ~Serving
  BY DEF Init, Serving
<1>4. HandshakeFirst
  BY <1>1, <1>3 DEF Init, HandshakeFirst
<1>5. ShutdownLast
  BY <1>1 DEF Init, ShutdownLast
<1> QED BY <1>2, <1>4, <1>5 DEF OrderInv

LEMMA OpensBeforePreserved ==
  ASSUME ConnectionInv, FlowInv, OpensBefore, [Next]_vars
  PROVE  OpensBefore'
<1>1. ASSUME NEW m \in Messages, Grown(queue, queue', m), Sender(m),
             UNCHANGED <<log, writing>>
      PROVE  OpensBefore'
  <2>1. m.kind = "didOpen" => Msg("request", m.id) \notin Flow
    <3> SUFFICES ASSUME m.kind = "didOpen", Msg("request", m.id) \in Flow
                 PROVE  FALSE
      OBVIOUS
    <3>1. PICK r \in Requests :
             EnsureDocumentOpened(r) /\ m = Msg("didOpen", request_id[r])
      BY <1>1 DEF Sender, Msg
    <3>2. m.id = request_id[r] /\ client[r] = "opening" /\ request_id[r] # None
      BY <3>1 DEF Msg, EnsureDocumentOpened, ConnectionInv, RequestIdsInv,
         HoldingId, ClientSteps
    <3>3. PICK t \in Requests : request_id[t] = m.id /\ client[t] \in Issued
      BY DEF FlowInv, MessageSound, Msg
    <3>4. t = r
      BY <3>2, <3>3 DEF ConnectionInv, IdsAreFresh
    <3> QED BY <3>2, <3>3, <3>4 DEF Issued
  <2>2. \A i \in DOMAIN queue' : queue'[i].kind = "didOpen" =>
          /\ \A j \in DOMAIN log : log[j] # Msg("request", queue'[i].id)
          /\ writing # None => writing # Msg("request", queue'[i].id)
          /\ \A j \in DOMAIN queue' : j < i => queue'[j] # Msg("request", queue'[i].id)
    <3> TAKE i \in DOMAIN queue'
    <3>1. CASE i \in DOMAIN queue
      BY <1>1, <3>1 DEF Grown, OpensBefore
    <3>2. CASE i = Len(queue) + 1 /\ queue'[i] = m
      BY <1>1, <2>1, <3>2 DEF Grown, Flow
    <3> QED BY <1>1, <3>1, <3>2 DEF Grown
  <2> QED BY <1>1, <2>2 DEF OpensBefore
<1>2. CASE Taken
  <2>1. (writing' # None /\ writing'.kind = "didOpen") =>
           \A j \in DOMAIN log' : log'[j] # Msg("request", writing'.id)
    BY <1>2 DEF Taken, OpensBefore
  <2>2. \A i \in DOMAIN queue' : queue'[i].kind = "didOpen" =>
          /\ \A j \in DOMAIN log' : log'[j] # Msg("request", queue'[i].id)
          /\ writing' # None => writing' # Msg("request", queue'[i].id)
          /\ \A j \in DOMAIN queue' : j < i => queue'[j] # Msg("request", queue'[i].id)
    <3> SUFFICES ASSUME NEW i \in DOMAIN queue', queue'[i].kind = "didOpen"
                 PROVE  /\ \A j \in DOMAIN log' : log'[j] # Msg("request", queue'[i].id)
                        /\ writing' # Msg("request", queue'[i].id)
                        /\ \A j \in DOMAIN queue' : j < i =>
                              queue'[j] # Msg("request", queue'[i].id)
      OBVIOUS
    <3>1. i \in Nat \ {0} /\ i + 1 \in DOMAIN queue /\ queue'[i] = queue[i + 1]
          /\ 1 \in DOMAIN queue /\ writing' = queue[1] /\ log' = log
      BY <1>2 DEF Taken
    <3>2. 1 < i + 1
      BY <3>1
    <3>3. \A j \in DOMAIN queue' : j < i =>
             j + 1 \in DOMAIN queue /\ queue'[j] = queue[j + 1] /\ j + 1 < i + 1
      BY <1>2, <3>1 DEF Taken
    <3> QED BY <3>1, <3>2, <3>3 DEF OpensBefore
  <2> QED BY <1>2, <2>1, <2>2 DEF Taken, OpensBefore
<1>3. CASE Wrote
  <2>1. CASE log' = log
    BY <1>3, <2>1 DEF Wrote, OpensBefore
  <2>2. CASE Grown(log, log', writing)
    <3>1. \A i, j \in DOMAIN log' :
             (log'[i].kind = "didOpen" /\ log'[j] = Msg("request", log'[i].id)) => i < j
      <4> SUFFICES ASSUME NEW i \in DOMAIN log', NEW j \in DOMAIN log',
                          log'[i].kind = "didOpen",
                          log'[j] = Msg("request", log'[i].id)
                   PROVE  i < j
        OBVIOUS
      <4>1. CASE i \in DOMAIN log /\ j \in DOMAIN log
        BY <2>2, <4>1 DEF Grown, OpensBefore
      <4>2. CASE i \in DOMAIN log /\ j = Len(log) + 1
        BY <2>2, <4>2 DEF Grown
      <4>3. CASE i = Len(log) + 1 /\ j \in DOMAIN log
        BY <1>3, <2>2, <4>3 DEF Grown, Wrote, OpensBefore
      <4>4. CASE i = Len(log) + 1 /\ j = Len(log) + 1
        BY <2>2, <4>4 DEF Grown, Msg
      <4> QED BY <2>2, <4>1, <4>2, <4>3, <4>4 DEF Grown
    <3>2. \A i \in DOMAIN queue' : queue'[i].kind = "didOpen" =>
            \A j \in DOMAIN log' : log'[j] # Msg("request", queue'[i].id)
      BY <1>3, <2>2 DEF Grown, Wrote, OpensBefore
    <3> QED BY <1>3, <3>1, <3>2 DEF Wrote, OpensBefore
  <2> QED BY <1>3, <2>1, <2>2 DEF Wrote
<1>4. ASSUME NEW n, WroteDirectly(n), n.kind \in {"shutdown", "exit"}
      PROVE  OpensBefore'
  <2>1. \A d : n # Msg("request", d)
    BY <1>4 DEF Msg
  <2>2. \A i, j \in DOMAIN log' :
           (log'[i].kind = "didOpen" /\ log'[j] = Msg("request", log'[i].id)) =>
              i \in DOMAIN log /\ j \in DOMAIN log
    BY <1>4, <2>1 DEF WroteDirectly, Grown
  <2> QED BY <1>4, <2>1, <2>2 DEF WroteDirectly, Grown, OpensBefore
<1>5. CASE queue' = <<>> /\ UNCHANGED <<log, writing>>
  BY <1>5 DEF OpensBefore
<1>6. CASE UNCHANGED <<queue, writing, log>>
  BY <1>6 DEF OpensBefore
<1> QED BY <1>1, <1>2, <1>3, <1>4, <1>5, <1>6, FlowShapes DEF Msg

(* Requests are served only when initialized is queued. *)
LEMMA ServingStarts ==
  ASSUME ConnectionInv, [Next]_vars, Serving', ~Serving
  PROVE  ReceiveInitialize /\ handshake' = "ready"
<1> USE DEF ConnectionInv
<1>0. client = [r \in Requests |-> client[r]]
  BY DEF TypeOK, TaskTypeOK
<1>1. ASSUME NEW r \in Requests, Client(r) PROVE FALSE
  <2>1. client[r] \in {"idle", "done"} /\ state # "Ready"
    BY DEF Serving
  <2> QED BY <1>1, <2>1 DEF Client, ClientStep, GetConnection, CountPending,
       RegisterRequest, CheckReady, StartLiveness, EnsureDocumentOpened,
       SendRequest, RemoveRequest, ReceiveAnswer, CheckLivenessFailed,
       RequestTimeout, AbortRequest
<1>2. ASSUME NEW s \in Shutdowns, BeginShutdown(s) \/ ShutdownStep(s)
      PROVE  FALSE
  <2>1. UNCHANGED <<client, handshake>> /\ (state' = "Ready" => state = "Ready")
    BY <1>2 DEF BeginShutdown, ShutdownStep, EnterClosing, TakeWriter,
       ReclaimWriter, RegisterShutdown, WriteShutdown, AwaitShutdown,
       WriteExit, ForceKill, CompleteShutdown, SetState, handleVars, clientVars
  <2> QED BY <2>1 DEF Serving
<1>3. CASE CloseFailed \/ ForceKillTimeout \/ GlobalTimeout \/ DropHandle
           \/ ServerDies \/ Writer \/ Reader \/ UNCHANGED vars
           \/ \E u \in Upstreams : ForwardCancel(u)
  <2>1. UNCHANGED <<client, handshake>> /\ (state' = "Ready" => state = "Ready")
    BY <1>3 DEF CloseFailed, ForceKillTimeout, GlobalTimeout, DropHandle,
       ServerDies, Writer, WriterTake, WriterWrite, WriterStop,
       WriterHandBack, WriterCancel, WriterReturn, Reader, ReaderStart,
       ReaderStop, ReadNotification, ReadServerRequest, Reply, FinishMessage,
       LivenessExpired, SignalLivenessFailed, ReadError, ReadResponse,
       ForwardCancel, vars, SetState, handleVars, taskVars, clientVars
  <2> QED BY <2>1 DEF Serving
<1>4. CASE Handshake
  BY <1>4 DEF Handshake, SendInitialize, ReceiveInitialize, InitTimeout,
     FinishHandshake, SetState, Serving, handleVars, clientVars
<1> QED BY <1>1, <1>2, <1>3, <1>4 DEF Next

LEMMA WrittenStays ==
  ASSUME ConnectionInv, [Next]_vars
  PROVE  /\ Written => Written'
         /\ \A n : Opened(n) => Opened(n)'
<1>0. log \in Seq(Messages)
  BY DEF ConnectionInv, TypeOK, ServerTypeOK
<1>1. /\ \A i \in DOMAIN log : i \in DOMAIN log' /\ log'[i] = log[i]
      /\ Len(log) \in Nat /\ Len(log') \in Nat /\ Len(log) <= Len(log')
  <2>1. CASE log' = log
    BY <1>0, <2>1
  <2>2. ASSUME NEW m, Grown(log, log', m)
        PROVE  \A i \in DOMAIN log : i \in DOMAIN log' /\ log'[i] = log[i]
    BY <2>2 DEF Grown
  <2>3. \A i \in DOMAIN log : i \in DOMAIN log' /\ log'[i] = log[i]
    BY <2>1, <2>2, FlowShapes DEF Taken, Wrote, WroteDirectly
  <2>4. log' \in Seq(Messages)
    BY TypesPreserved DEF TypeOK, ServerTypeOK
  <2>5. /\ DOMAIN log = 1 .. Len(log) /\ DOMAIN log' = 1 .. Len(log')
        /\ Len(log) \in Nat /\ Len(log') \in Nat
    BY <1>0, <2>4
  <2>6. Len(log) <= Len(log')
    <3>1. CASE Len(log) = 0
      BY <2>5, <3>1
    <3>2. CASE Len(log) > 0
      <4>1. Len(log) \in DOMAIN log'
        BY <2>3, <2>5, <3>2
      <4> QED BY <2>5, <4>1
    <3> QED BY <2>5, <3>1, <3>2
  <2> QED BY <2>3, <2>5, <2>6
<1>2. ASSUME NEW n, Opened(n) PROVE Opened(n)'
  BY <1>1, <1>2 DEF Opened
<1>3. Opened(Len(log)) => Opened(Len(log))'
  <2> SUFFICES ASSUME Opened(Len(log))
               PROVE  \E i \in DOMAIN log' : i <= Len(log') /\ log'[i].kind = "initialized"
    BY DEF Opened
  <2>1. PICK i \in DOMAIN log : i <= Len(log) /\ log[i].kind = "initialized"
    BY DEF Opened
  <2>2. i \in Nat
    BY <1>0
  <2> QED BY <1>1, <2>1, <2>2
<1>4. Written => Written'
  BY <1>3, EndsAreFinal DEF Written, Opened
<1> QED BY <1>2, <1>4

LEMMA HandshakeFirstPreserved ==
  ASSUME ConnectionInv, HandshakeFirst, [Next]_vars
  PROVE  HandshakeFirst'
<1> USE NoneIsNoMessage
<1> DEFINE Writing == writing # None /\ writing.kind = "initialized"
           UnderWay == \/ Written \/ Writing
                       \/ \E i \in DOMAIN queue : queue[i].kind = "initialized"
           Before(i) == \/ Written \/ Writing
                        \/ \E j \in DOMAIN queue : j < i /\ queue[j].kind = "initialized"
           Kept == /\ Serving' => UnderWay'
                   /\ \A i \in DOMAIN queue' :
                         queue'[i].kind \in AfterInitialized => Before(i)'
                   /\ (writing' # None /\ writing'.kind \in AfterInitialized) => Written'
<1>0. /\ log \in Seq(Messages) /\ queue \in Seq(Messages)
      /\ DOMAIN queue \subseteq Nat /\ DOMAIN log \subseteq Nat
      /\ Serving => UnderWay
      /\ \A i \in DOMAIN queue : queue[i].kind \in AfterInitialized => Before(i)
      /\ (writing # None /\ writing.kind \in AfterInitialized) => Written
  BY DEF ConnectionInv, TypeOK, WriterTypeOK, ServerTypeOK, HandshakeFirst
<1>1. Written => Written'
  BY WrittenStays
<1>2. ASSUME NEW m \in Messages, Grown(queue, queue', m), Sender(m),
             UNCHANGED <<log, writing>>
      PROVE  Kept
  <2>1. UnderWay => UnderWay'
    BY <1>1, <1>2 DEF Grown
  <2>2. Serving' => UnderWay'
    <3>1. CASE Serving
      BY <1>0, <2>1, <3>1
    <3>2. CASE Serving' /\ ~Serving
      <4>1. m = Msg("initialized", None)
        <5>1. ReceiveInitialize /\ handshake' = "ready"
          BY <3>2, ServingStarts
        <5>2. client' = client /\ state' = state /\ cancelled' = cancelled
              /\ reader' = reader
          BY <5>1 DEF ReceiveInitialize, handleVars, clientVars, readerVars
        <5>3. client = [r \in Requests |-> client[r]]
          BY DEF ConnectionInv, TypeOK, TaskTypeOK
        <5> QED BY <1>2, <5>1, <5>2, <5>3
             DEF Sender, EnsureDocumentOpened, SendRequest, ForwardCancel,
                 SendInitialize, ReceiveInitialize, Reply, Goto
      <4>2. m.kind = "initialized"
        BY <4>1 DEF Msg
      <4> QED BY <1>2, <4>2 DEF Grown
    <3> QED BY <3>1, <3>2
  <2>3. m.kind \in AfterInitialized => Serving
    <3>1. ASSUME NEW r \in Requests, EnsureDocumentOpened(r) \/ SendRequest(r)
          PROVE  Serving
      BY <3>1 DEF EnsureDocumentOpened, SendRequest, Serving
    <3>2. ASSUME NEW u \in Upstreams, state = "Ready" PROVE Serving
      BY <3>2 DEF Serving
    <3>3. CASE m \in {Msg("initialize", 1), Msg("initialized", None), Msg("reply", None)}
      BY <3>3 DEF Msg, AfterInitialized
    <3> QED BY <1>2, <3>1, <3>2, <3>3 DEF Sender
  <2>4. ASSUME NEW i \in DOMAIN queue', queue'[i].kind \in AfterInitialized
        PROVE  Before(i)'
    <3>1. CASE i \in DOMAIN queue
      <4>1. Before(i) /\ queue'[i] = queue[i]
        BY <1>0, <1>2, <2>4, <3>1 DEF Grown
      <4> QED BY <1>1, <1>2, <4>1 DEF Grown
    <3>2. CASE i = Len(queue) + 1 /\ queue'[i] = m
      <4>1. UnderWay
        BY <1>0, <2>3, <2>4, <3>2
      <4>2. \A j \in DOMAIN queue : j < i /\ j \in DOMAIN queue' /\ queue'[j] = queue[j]
        BY <1>0, <1>2, <3>2 DEF Grown
      <4> QED BY <1>1, <1>2, <4>1, <4>2
    <3> QED BY <1>2, <3>1, <3>2 DEF Grown
  <2>5. (writing' # None /\ writing'.kind \in AfterInitialized) => Written'
    BY <1>0, <1>1, <1>2
  <2> QED BY <2>2, <2>4, <2>5
<1>3. ASSUME Taken PROVE Kept
  <2>0. \A i \in DOMAIN queue : queue[i] # None
    BY <1>0
  <2>1. UnderWay => UnderWay'
    <3>1. CASE \E i \in DOMAIN queue : queue[i].kind = "initialized"
      <4>1. PICK i \in DOMAIN queue : queue[i].kind = "initialized"
        BY <3>1
      <4>2. CASE i = 1
        BY <1>3, <2>0, <4>1, <4>2 DEF Taken
      <4>3. CASE i - 1 \in DOMAIN queue' /\ i \in Nat
        <5>1. queue'[i - 1] = queue[i - 1 + 1] /\ i - 1 + 1 = i
          BY <1>3, <4>3 DEF Taken
        <5> QED BY <4>1, <4>3, <5>1
      <4> QED BY <1>3, <4>1, <4>2, <4>3 DEF Taken
    <3> QED BY <1>1, <1>3, <3>1 DEF Taken
  <2>2. ASSUME NEW i \in DOMAIN queue', queue'[i].kind \in AfterInitialized
        PROVE  Before(i)'
    <3>1. i \in Nat \ {0} /\ i + 1 \in DOMAIN queue /\ queue'[i] = queue[i + 1]
      BY <1>3 DEF Taken
    <3>2. Before(i + 1) /\ ~Writing
      BY <1>0, <1>3, <2>2, <3>1 DEF Taken
    <3>3. CASE \E j \in DOMAIN queue : j < i + 1 /\ queue[j].kind = "initialized"
      <4>1. PICK j \in DOMAIN queue : j < i + 1 /\ queue[j].kind = "initialized"
        BY <3>3
      <4>2. CASE j = 1
        BY <1>3, <2>0, <4>1, <4>2 DEF Taken
      <4>3. CASE j - 1 \in DOMAIN queue' /\ j \in Nat
        <5>1. queue'[j - 1] = queue[j - 1 + 1] /\ j - 1 + 1 = j
          BY <1>3, <4>3 DEF Taken
        <5>2. j - 1 < i
          BY <3>1, <4>1, <4>3
        <5> QED BY <4>1, <4>3, <5>1, <5>2
      <4> QED BY <1>3, <4>1, <4>2, <4>3 DEF Taken
    <3> QED BY <1>1, <3>2, <3>3
  <2>3. (writing' # None /\ writing'.kind \in AfterInitialized) => Written'
    <3> SUFFICES ASSUME writing'.kind \in AfterInitialized PROVE Written'
      OBVIOUS
    <3>1. Before(1) /\ ~Writing
      BY <1>0, <1>3 DEF Taken
    <3>2. ~\E j \in DOMAIN queue : j < 1
      BY <1>0
    <3> QED BY <1>1, <3>1, <3>2
  <2>4. Serving' => Serving
    <3>1. ~(ReceiveInitialize /\ handshake' = "ready")
      <4> SUFFICES ASSUME ReceiveInitialize, handshake' = "ready" PROVE FALSE
        OBVIOUS
      <4>1. writing' = writing
        BY DEF ReceiveInitialize
      <4> QED BY <1>3, <2>0, <4>1 DEF Taken
    <3> QED BY <3>1, ServingStarts
  <2> QED BY <1>0, <2>1, <2>2, <2>3, <2>4
<1>4. ASSUME Wrote PROVE Kept
  <2>1. Writing => Written'
    <3> SUFFICES ASSUME Writing, server = "up" PROVE Opened(Len(log))'
      BY <1>4, EndsAreFinal DEF Wrote, Written
    <3>1. Grown(log, log', writing)
      BY <1>4 DEF Wrote
    <3>2. Len(log) + 1 \in DOMAIN log' /\ log'[Len(log) + 1] = writing
      BY <3>1 DEF Grown
    <3>3. DOMAIN log' = 1 .. Len(log')
      <4>1. log' \in Seq(Messages)
        BY TypesPreserved DEF TypeOK, ServerTypeOK
      <4> QED BY <4>1
    <3>4. Len(log) + 1 <= Len(log')
      BY <3>2, <3>3
    <3> QED BY <3>2, <3>4 DEF Opened
  <2>2. Serving' => Serving
    <3>1. ~(ReceiveInitialize /\ handshake' = "ready")
      BY <1>4 DEF ReceiveInitialize, Wrote
    <3> QED BY <3>1, ServingStarts
  <2> QED BY <1>0, <1>1, <1>4, <2>1, <2>2 DEF Wrote
<1>5. ASSUME UNCHANGED <<queue, writing>> PROVE Kept
  <2>1. Serving' => UnderWay'
    <3>1. CASE Serving
      BY <1>0, <1>1, <1>5, <3>1
    <3>2. CASE Serving' /\ ~Serving
      <4>1. Enqueue(Msg("initialized", None))
        BY <3>2, ServingStarts DEF ReceiveInitialize
      <4>2. FALSE
        <5>1. Grown(queue, queue', Msg("initialized", None))
          BY <1>0, <4>1, AppendGrows, MessageTypes DEF Enqueue, Kinds, TrackedKinds
        <5> QED BY <1>5, <5>1 DEF Grown
      <4> QED BY <4>2
    <3> QED BY <3>1, <3>2
  <2> QED BY <1>0, <1>1, <1>5, <2>1
<1>6. ASSUME queue' = <<>>, UNCHANGED <<log, writing>>,
             writer' \in {"cancelled", "done"}
      PROVE  Kept
  BY <1>6 DEF Written
<1>7. \A j \in DOMAIN log' : log'[j].kind \in AfterInitialized => Opened(j - 1)'
  <2> SUFFICES ASSUME NEW j \in DOMAIN log', log'[j].kind \in AfterInitialized
               PROVE  Opened(j - 1)'
    OBVIOUS
  <2>1. CASE j \in DOMAIN log /\ log'[j] = log[j]
    <3>1. Opened(j - 1)
      BY <2>1 DEF HandshakeFirst
    <3> QED BY <3>1, WrittenStays
  <2>2. CASE Wrote /\ j \notin DOMAIN log
    <3>1. Grown(log, log', writing) /\ server = "up" /\ writer \in {"loop", "draining"}
          /\ writing # None
      BY <2>2 DEF Wrote
    <3>2. j = Len(log) + 1 /\ log'[j] = writing /\ Len(log) \in Nat
      BY <2>2, <3>1 DEF Grown
    <3>3. Opened(Len(log))
      BY <1>0, <3>1, <3>2 DEF Written
    <3>4. j - 1 = Len(log)
      BY <3>2
    <3> QED BY <3>3, <3>4, WrittenStays
  <2>3. ASSUME NEW n, WroteDirectly(n), n.kind \in {"shutdown", "exit"}
        PROVE  j \in DOMAIN log /\ log'[j] = log[j]
    BY <2>3 DEF WroteDirectly, Grown, AfterInitialized
  <2>4. Msg("shutdown", shutdown_id).kind = "shutdown" /\ Msg("exit", None).kind = "exit"
    BY DEF Msg
  <2>5. CASE UNCHANGED log
    BY <2>1, <2>5
  <2>6. CASE Wrote /\ j \in DOMAIN log
    BY <2>1, <2>6 DEF Wrote, Grown
  <2> QED BY <2>1, <2>2, <2>3, <2>4, <2>5, <2>6, FlowShapes DEF Taken
<1>8. Kept
  BY <1>2, <1>3, <1>4, <1>5, <1>6, FlowShapes DEF WroteDirectly
<1> QED BY <1>7, <1>8 DEF HandshakeFirst

(* Only a call that takes the writer can get to use it. *)
LEMMA TakersProceed ==
  ASSUME ConnectionInv, [Next]_vars, NEW s \in Shutdowns,
         shutdown'[s] \in {"reclaiming", "registering", "writing"}
  PROVE  shutdown[s] \in {"reclaiming", "registering", "writing"} \/ ~taken
<1>0. shutdown = [t \in Shutdowns |-> shutdown[t]]
  BY DEF ConnectionInv, TypeOK, TaskTypeOK
<1>1. ASSUME NEW t \in Shutdowns, BeginShutdown(t) \/ ShutdownStep(t)
      PROVE  shutdown[s] \in {"reclaiming", "registering", "writing"} \/ ~taken
  BY <1>0, <1>1 DEF BeginShutdown, ShutdownStep, EnterClosing, TakeWriter,
     ReclaimWriter, RegisterShutdown, WriteShutdown, AwaitShutdown, WriteExit,
     ForceKill, CompleteShutdown, ShutdownGoto
<1>2. CASE GlobalTimeout \/ CloseFailed
  BY <1>0, <1>2 DEF GlobalTimeout, CloseFailed, ShutdownGoto
<1>3. ASSUME NEW r \in Requests, Client(r) PROVE UNCHANGED shutdown
  BY <1>3 DEF Client, ClientStep, GetConnection, CountPending, RegisterRequest,
     CheckReady, StartLiveness, EnsureDocumentOpened, SendRequest,
     RemoveRequest, ReceiveAnswer, CheckLivenessFailed, RequestTimeout,
     AbortRequest, shutdownVars
<1>4. CASE \/ Handshake \/ Writer \/ Reader \/ ServerDies \/ ForceKillTimeout
           \/ DropHandle \/ UNCHANGED vars
           \/ \E v \in Upstreams : ForwardCancel(v)
  BY <1>4 DEF vars, Handshake, SendInitialize, ReceiveInitialize,
     InitTimeout, FinishHandshake, Writer, WriterTake, WriterWrite,
     WriterStop, WriterHandBack, WriterCancel, WriterReturn, Reader,
     ReaderStart, ReaderStop, ReadNotification, ReadServerRequest, Reply,
     FinishMessage, LivenessExpired, SignalLivenessFailed, ReadError,
     ReadResponse, ServerDies, ForceKillTimeout, DropHandle, ForwardCancel,
     taskVars, shutdownVars
<1> QED BY <1>1, <1>2, <1>3, <1>4 DEF Next

LEMMA ShutdownLastPreserved ==
  ASSUME ConnectionInv, ShutdownLast, [Next]_vars
  PROVE  ShutdownLast'
<1> DEFINE Shut == \E i \in DOMAIN log : log[i].kind = "shutdown"
           Owned == /\ taken /\ writer \in {"returning", "done"}
                    /\ \A s \in Shutdowns :
                          shutdown[s] \notin {"reclaiming", "registering", "writing"}
           Last == \A i, j \in DOMAIN log :
                      (log[i].kind = "shutdown" /\ i < j) => log[j].kind = "exit"
<1>0. /\ \A i \in DOMAIN queue : queue[i].kind \in QueueKinds
      /\ writing # None => writing.kind \in QueueKinds
      /\ Last /\ (Shut => Owned)
      /\ DOMAIN log \subseteq Nat
  BY DEF ShutdownLast, ConnectionInv, TypeOK, ServerTypeOK
<1>1. \A i \in DOMAIN queue' : queue'[i].kind \in QueueKinds
  <2>1. ASSUME NEW m, Sender(m) PROVE m.kind \in QueueKinds
    BY <2>1 DEF Sender, Msg, QueueKinds, Kinds, TrackedKinds
  <2> QED BY <1>0, <2>1, FlowShapes DEF Grown, Taken, Wrote, WroteDirectly
<1>2. writing' # None => writing'.kind \in QueueKinds
  BY <1>0, FlowShapes DEF Taken, Wrote, WroteDirectly
<1>3. Owned => Owned'
  <2>1. Owned => taken' /\ writer' \in {"returning", "done"}
    BY EndsAreFinal
  <2> QED BY <2>1, TakersProceed
<1>4. CASE UNCHANGED log
  <2>1. Last' /\ (Shut' => Owned')
    BY <1>0, <1>3, <1>4
  <2> QED BY <1>1, <1>2, <2>1 DEF ShutdownLast
<1>5. CASE Wrote
  <2>1. CASE Grown(log, log', writing)
    <3>1. ~Shut
      BY <1>0, <1>5 DEF Wrote
    <3>2. writing.kind # "shutdown"
      BY <1>0, <1>5 DEF Wrote, QueueKinds
    <3>3. ~Shut'
      BY <2>1, <3>1, <3>2 DEF Grown
    <3> QED BY <1>1, <1>2, <3>3 DEF ShutdownLast
  <2> QED BY <1>4, <1>5, <2>1 DEF Wrote
<1>6. ASSUME NEW s \in Shutdowns, WriteShutdown(s),
             WroteDirectly(Msg("shutdown", shutdown_id))
      PROVE  ShutdownLast'
  <2>1. ~Shut
    BY <1>0, <1>6 DEF WriteShutdown
  <2>2. \A i, j \in DOMAIN log' : (log'[i].kind = "shutdown" /\ i < j) => FALSE
    <3> SUFFICES ASSUME NEW i \in DOMAIN log', NEW j \in DOMAIN log',
                        log'[i].kind = "shutdown", i < j
                 PROVE  FALSE
      OBVIOUS
    <3>1. i = Len(log) + 1 /\ j \in 1 .. Len(log) + 1 /\ Len(log) \in Nat
      BY <1>6, <2>1 DEF WroteDirectly, Grown
    <3> QED BY <3>1
  <2>3. Owned'
    <3>1. taken /\ writer \in {"returning", "done"}
          /\ \A t \in Shutdowns : t # s =>
                shutdown[t] \notin {"reclaiming", "registering", "writing"}
      BY <1>6 DEF WriteShutdown, ConnectionInv, WriterInv, Takers, Owners
    <3>2. shutdown' = [shutdown EXCEPT ![s] = IF server = "up" THEN "waiting" ELSE "killing"]
          /\ UNCHANGED <<taken, writer>>
      BY <1>6 DEF WriteShutdown, ShutdownGoto, handleVars, writerVars
    <3>3. shutdown = [t \in Shutdowns |-> shutdown[t]]
      BY DEF ConnectionInv, TypeOK, TaskTypeOK
    <3> QED BY <3>1, <3>2, <3>3
  <2> QED BY <1>1, <1>2, <2>2, <2>3 DEF ShutdownLast
<1>7. ASSUME NEW s \in Shutdowns, WriteExit(s), WroteDirectly(Msg("exit", None))
      PROVE  ShutdownLast'
  <2>1. \A j \in DOMAIN log' : log'[j].kind = "exit"
                               \/ (j \in DOMAIN log /\ log'[j] = log[j])
    BY <1>7 DEF WroteDirectly, Grown, Msg
  <2>2. \A i \in DOMAIN log' : log'[i].kind = "shutdown" =>
           i \in DOMAIN log /\ log'[i] = log[i]
    BY <2>1
  <2>3. Last' /\ (Shut' => Owned')
    BY <1>0, <1>3, <2>1, <2>2
  <2> QED BY <1>1, <1>2, <2>3 DEF ShutdownLast
<1> QED BY <1>4, <1>5, <1>6, <1>7, FlowShapes DEF Taken

LEMMA OrderInvariance == Spec => []OrderInv
<1>1. ConnectionInv /\ FlowInv /\ OrderInv /\ [Next]_vars => OrderInv'
  BY OpensBeforePreserved, HandshakeFirstPreserved, ShutdownLastPreserved
     DEF OrderInv
<1> QED BY <1>1, InitOrderInv, ConnectionInvariance, FlowInvariance, PTL DEF Spec

(* What the server reads is a session of the protocol, although its        *)
(* messages come from tasks that run concurrently: initialized first, a    *)
(* didOpen before its request, and nothing but exit after shutdown.        *)
THEOREM SessionsAreOrderly == Spec => []ServerSeesProtocol
<1>1. ConnectionInv /\ OrderInv => ServerSeesProtocol
  <2> SUFFICES ASSUME ConnectionInv, OrderInv PROVE ServerSeesProtocol
    OBVIOUS
  <2>1. DOMAIN log \subseteq Nat \ {0} /\ DOMAIN log = 1 .. Len(log)
    BY DEF ConnectionInv, TypeOK, ServerTypeOK
  <2>2. ASSUME NEW j \in DOMAIN log, log[j].kind \in AfterInitialized
        PROVE  \E i \in 1 .. (j - 1) : log[i].kind = "initialized"
    <3>1. PICK i \in DOMAIN log : i <= j - 1 /\ log[i].kind = "initialized"
      BY <2>2 DEF OrderInv, HandshakeFirst, Opened
    <3>2. i \in 1 .. (j - 1)
      BY <2>1, <3>1
    <3> QED BY <3>1, <3>2
  <2> QED BY <2>2 DEF OrderInv, OpensBefore, ShutdownLast, ServerSeesProtocol,
       AfterInitialized
<1> QED BY <1>1, ConnectionInvariance, OrderInvariance, PTL
-----------------------------------------------------------------------------
(* The refinement of RequestService.  A step of the connection either      *)
(* registers a request, or lets the server read one, or settles waiters;   *)
(* no step does two of these.                                              *)
Outcomes == [r \in Requests |-> Outcome(r)]
Received == {r \in Requests : request_id[r] # None /\
               \E i \in DOMAIN log : log[i] = Msg("request", request_id[r])}

(* A waiter is settled once, and with a response only when one is read. *)
LEMMA WaitersProceed ==
  ASSUME RouterInv, [Completion]_routerVars, NEW d \in Ids
  PROVE  \/ waiter'[d] = waiter[d]
         \/ waiter[d] = "waiting" /\ waiter'[d] \in {"error", "dropped"}
         \/ waiter[d] = "waiting" /\ waiter'[d] = "response" /\ ReadResponse(d)
<1> USE DEF RouterInv, RouterTypeOK
<1>0. d \in pending <=> waiter[d] = "waiting"
  BY DEF NoWaiterForgotten
<1>1. ASSUME NEW e \in Ids, NEW a, Settle(e, a)
      PROVE  \/ waiter'[d] = waiter[d]
             \/ waiter[d] = "waiting" /\ e = d /\ waiter'[d] = a
  BY <1>0, <1>1 DEF Settle
<1>2. CASE \E e \in Ids : FailRequest(e) \/ Remove(e)
  BY <1>1, <1>2 DEF FailRequest, Remove, routerVars
<1>3. CASE \E e \in Ids : ReadResponse(e) /\ Route(e)
  BY <1>1, <1>3 DEF Route
<1>4. CASE FailAll \/ (\E S \in SUBSET Ids : FailRequests(S)) \/ UNCHANGED routerVars
  BY <1>0, <1>4 DEF FailAll, FailRequests, routerVars
<1> QED BY <1>2, <1>3, <1>4 DEF Completion

(* An answered request is one the server has read. *)
LEMMA OwedRequestsAreReceived ==
  ASSUME ConnectionInv, FlowInv, NEW r \in Requests, request_id[r] \in Owed,
         request_id[r] # None
  PROVE  r \in Received
<1>1. PICK i \in DOMAIN log : /\ log[i].id = request_id[r]
                              /\ log[i].kind \in TrackedKinds \cup {"shutdown"}
  BY DEF Owed
<1>2. log[i] \in Flow /\ log[i] \in Messages /\ MessageSound(log[i])
  BY <1>1, FlowIsOfMessages DEF Flow, FlowInv
<1>3. log[i].kind = "request"
  BY <1>1, <1>2 DEF TrackedKinds, MessageSound, FlowInv, IdsOfRequests
<1>4. log[i] = Msg("request", request_id[r])
  BY <1>1, <1>2, <1>3 DEF Messages, Msg
<1> QED BY <1>4 DEF Received

(* Only these steps show the server a request. *)
LEMMA ReceivedGrows ==
  ASSUME ConnectionInv, FlowInv, [Next]_vars, UNCHANGED request_id
  PROVE  \/ Received' = Received
         \/ \E r \in Requests : /\ Received' = Received \cup {r}
                                /\ request_id[r] # None /\ UNCHANGED routerVars
<1>1. CASE UNCHANGED log
  BY <1>1 DEF Received
<1>2. ASSUME NEW m, Grown(log, log', m)
      PROVE  Received' = Received \cup
                {r \in Requests : request_id[r] # None /\ m = Msg("request", request_id[r])}
  BY <1>2 DEF Grown, Received
<1>3. ASSUME NEW m, WroteDirectly(m), m.kind \in {"shutdown", "exit"}
      PROVE  Received' = Received
  BY <1>2, <1>3 DEF WroteDirectly, Msg
<1>4. Msg("shutdown", shutdown_id).kind = "shutdown" /\ Msg("exit", None).kind = "exit"
  BY DEF Msg
<1>5. CASE Wrote /\ Grown(log, log', writing) /\ server = "up"
  <2>1. UNCHANGED routerVars
    BY <1>5 DEF WriterWrite, Wrote
  <2>2. CASE \E r \in Requests : request_id[r] # None /\ writing = Msg("request", request_id[r])
    <3>1. PICK r \in Requests : /\ request_id[r] # None
                                /\ writing = Msg("request", request_id[r])
      BY <2>2
    <3>2. \A t \in Requests : writing = Msg("request", request_id[t]) => t = r
      BY <3>1 DEF Msg, ConnectionInv, IdsAreFresh
    <3> QED BY <1>2, <1>5, <2>1, <3>1, <3>2
  <2> QED BY <1>2, <1>5, <2>2
<1> QED BY <1>1, <1>3, <1>4, <1>5, FlowShapes DEF Taken, Wrote

LEMMA ServiceStep ==
  ASSUME ConnectionInv, FlowInv, [Next]_vars
  PROVE  [Service!Next]_<<Outcomes, Received>>
<1> USE ConnectionAssumption, RouterAssumption DEF ConnectionInv
<1>0. /\ waiter \in [Ids -> WaiterStates]
      /\ request_id \in [Requests -> Ids \cup {None}]
      /\ \A r, t \in Requests : (request_id[r] = request_id[t] /\ request_id[r] # None) => r = t
  BY DEF TypeOK, RouterTypeOK, TaskTypeOK, IdsAreFresh
<1>1. CASE \E u \in Upstreams \cup {None} : AllocateId(u)
  <2>1. /\ next_request_id \in Ids /\ next_request_id # None
        /\ waiter' = [waiter EXCEPT ![next_request_id] = "waiting"]
        /\ next_request_id' = next_request_id + 1
    BY <1>1 DEF AllocateId, RegisterWithUpstream
  <2>2. ASSUME NEW r \in Requests, request_id[r] = next_request_id PROVE FALSE
    <3>1. next_request_id < next_request_id
      BY <2>1, <2>2 DEF RequestIdsInv
    <3> QED BY <2>1, <3>1
  <2>3. Msg("request", next_request_id) \notin Flow
    BY <2>1, <2>2 DEF FlowInv, MessageSound, Msg
  <2>4. \A i \in DOMAIN log : log[i] # Msg("request", next_request_id)
    BY <2>3 DEF Flow
  <2>5. ASSUME NEW r \in Requests, RegisterRequest(r)
        PROVE  Service!Issue(r)
    <3>1. /\ request_id' = [request_id EXCEPT ![r] = next_request_id]
          /\ log' = log /\ request_id[r] = None
      BY <2>5 DEF RegisterRequest, serverVars, FlowInv, IdsOfRequests
    <3>2. \A t \in Requests : Outcome(t)' = IF t = r THEN "open" ELSE Outcome(t)
      BY <1>0, <2>1, <2>2, <3>1 DEF Outcome
    <3>3. Received' = Received
      BY <1>0, <2>1, <2>4, <3>1 DEF Received
    <3>4. Outcomes[r] = "none"
      BY <3>1 DEF Outcomes, Outcome
    <3>5. Outcomes' = [Outcomes EXCEPT ![r] = "open"]
      BY <3>2 DEF Outcomes
    <3> QED BY <3>3, <3>4, <3>5 DEF Service!Issue, Outcomes, Received
  <2>6. ASSUME NEW s \in Shutdowns, RegisterShutdown(s)
        PROVE  UNCHANGED <<Outcomes, Received>>
    <3>1. UNCHANGED <<request_id, log>>
      BY <2>6 DEF RegisterShutdown, serverVars, clientVars
    <3>2. \A t \in Requests : Outcome(t)' = Outcome(t)
      BY <1>0, <2>1, <2>2, <3>1 DEF Outcome
    <3> QED BY <3>1, <3>2 DEF Outcomes, Received
  <2>7. next_request_id' # next_request_id
    BY <2>1 DEF TypeOK, HandleTypeOK
  <2> QED BY <2>5, <2>6, <2>7, RegistrationsAllocate DEF Service!Next
<1>2. CASE [Completion]_routerVars /\ UNCHANGED next_request_id
  <2>0. UNCHANGED request_id
    <3>1. \A r \in Requests : ~RegisterRequest(r)
      BY <1>2 DEF RegisterRequest, AllocateId, TypeOK, HandleTypeOK
    <3>2. \A r \in Requests : request_id'[r] = request_id[r]
      BY <3>1, RequestsProceed
    <3>3. request_id' \in [Requests -> Ids \cup {None}]
      BY TypesPreserved DEF TypeOK, TaskTypeOK
    <3> QED BY <1>0, <3>2, <3>3
  <2>1. ASSUME NEW r \in Requests
        PROVE  \/ Outcome(r)' = Outcome(r)
               \/ Outcome(r) = "open" /\ Outcome(r)' = "failed"
               \/ /\ Outcome(r) = "open" /\ Outcome(r)' = "answered"
                  /\ ReadResponse(request_id[r]) /\ request_id[r] # None
    <3>1. CASE request_id[r] = None
      BY <2>0, <3>1 DEF Outcome
    <3>2. CASE request_id[r] # None
      <4>1. request_id[r] \in Ids
        BY <1>0, <3>2
      <4>2. \/ waiter'[request_id[r]] = waiter[request_id[r]]
            \/ /\ waiter[request_id[r]] = "waiting"
               /\ waiter'[request_id[r]] \in {"error", "dropped"}
            \/ /\ waiter[request_id[r]] = "waiting" /\ ReadResponse(request_id[r])
               /\ waiter'[request_id[r]] = "response"
        BY <1>2, <4>1, WaitersProceed
      <4> QED BY <2>0, <3>2, <4>2 DEF Outcome
    <3> QED BY <3>1, <3>2
  <2>2. CASE \E r \in Requests : Outcome(r) = "open" /\ Outcome(r)' = "answered"
    <3>1. PICK r \in Requests : Outcome(r) = "open" /\ Outcome(r)' = "answered"
      BY <2>2
    <3>2. ReadResponse(request_id[r]) /\ request_id[r] # None
      BY <2>1, <3>1
    <3>3. r \in Received /\ Received' = Received
      BY <2>0, <3>2, OwedRequestsAreReceived DEF ReadResponse, Received
    <3>4. waiter' = [waiter EXCEPT ![request_id[r]] =
                       IF request_id[r] \in pending THEN "response" ELSE @]
      BY <3>2 DEF ReadResponse, Route, Settle
    <3>5. \A t \in Requests : t # r => Outcome(t)' = Outcome(t)
      BY <1>0, <2>0, <3>2, <3>4 DEF Outcome
    <3>6. Outcomes' = [Outcomes EXCEPT ![r] = "answered"] /\ Outcomes[r] = "open"
      BY <3>1, <3>5 DEF Outcomes
    <3>7. Service!Answer(r)
      BY <3>3, <3>6 DEF Service!Answer, Outcomes, Received
    <3> QED BY <3>7 DEF Service!Next
  <2>3. CASE ~\E r \in Requests : Outcome(r) = "open" /\ Outcome(r)' = "answered"
    <3> DEFINE S == {r \in Requests : Outcome(r) = "open" /\ Outcome(r)' = "failed"}
    <3>1. \A r \in Requests : Outcome(r)' = IF r \in S THEN "failed" ELSE Outcome(r)
      BY <2>1, <2>3
    <3>2. Outcomes' = [r \in Requests |-> IF r \in S THEN "failed" ELSE Outcomes[r]]
          /\ \A r \in S : Outcomes[r] = "open"
      BY <3>1 DEF Outcomes
    <3>3. CASE Received' = Received
      <4>1. Service!Fail(S)
        BY <3>2, <3>3 DEF Service!Fail, Outcomes, Received
      <4> QED BY <4>1 DEF Service!Next
    <3>4. CASE \E r \in Requests : /\ Received' = Received \cup {r}
                                   /\ request_id[r] # None /\ UNCHANGED routerVars
      <4>1. PICK r \in Requests : /\ Received' = Received \cup {r}
                                  /\ request_id[r] # None /\ UNCHANGED routerVars
        BY <3>4
      <4>2. Outcomes' = Outcomes
        BY <2>0, <4>1 DEF Outcomes, Outcome, routerVars
      <4>3. CASE r \in Received
        BY <4>1, <4>2, <4>3
      <4>4. CASE r \notin Received
        <5>1. Outcomes[r] # "none"
          BY <4>1 DEF Outcomes, Outcome
        <5>2. Service!Receive(r)
          BY <4>1, <4>2, <4>4, <5>1 DEF Service!Receive, Outcomes, Received
        <5> QED BY <5>2 DEF Service!Next
      <4> QED BY <4>3, <4>4
    <3> QED BY <2>0, <3>3, <3>4, ReceivedGrows
  <2> QED BY <2>2, <2>3
<1> QED BY <1>1, <1>2, StepsAreRouterSteps DEF RouterStep

(* The connection implements RequestService: a request is answered only    *)
(* after the server read it, and its outcome is final.                     *)
THEOREM ConnectionImplementsService == Spec => ImplementsRequestService
<1>1. Init => Service!Init
  <2> SUFFICES ASSUME Init PROVE Service!Init
    OBVIOUS
  <2>1. \A r \in Requests : Outcome(r) = "none" /\ request_id[r] = None
    BY DEF Init, Outcome
  <2> QED BY <2>1 DEF Service!Init
<1>2. ConnectionInv /\ FlowInv /\ [Next]_vars => [Service!Next]_<<Outcomes, Received>>
  BY ServiceStep
<1> QED BY <1>1, <1>2, ConnectionInvariance, FlowInvariance, PTL
     DEF Spec, ImplementsRequestService, Service!Spec, Service!serviceVars,
         Outcomes, Received
=============================================================================
