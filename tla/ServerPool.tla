----------------------------- MODULE ServerPool -----------------------------
(***************************************************************************)
(* The pool of downstream servers (bridge/pool.rs): which connection a     *)
(* request for a server gets, when a server is started (again), the life   *)
(* of a request in the pool (pool/execute.rs), the registry by which a     *)
(* client's cancel finds the servers (request_id.rs).  BridgeConnection    *)
(* has the inside of one connection, its router and the shutdown.          *)
(*                                                                         *)
(* A caller is one call for one server: a request of a region, or a start  *)
(* in advance, which has no upstream id.  Its future may be dropped at     *)
(* every await.  Callers run in parallel: what is behind a lock of its own *)
(* is a step of its own, the connections, the counts of panics, the state  *)
(* of each connection.                                                     *)
(***************************************************************************)
EXTENDS Naturals, FiniteSets

CONSTANTS
  Servers, Upstreams,
  MaxCallers,     (* bound on the calls                              *)
  MaxPanics,      (* MAX_CONSECUTIVE_PANICS                          *)
  None

Callers == 1..MaxCallers
Connections == 1..MaxCallers   (* a call starts one server at most *)

(* Closing and Closed come with the shutdown, which is not modelled here.   *)
States == {"Initializing", "Ready", "Failed"}

ASSUME PoolAssumption ==
  /\ MaxCallers \in Nat /\ MaxPanics \in Nat \ {0}
  /\ None \notin Nat /\ None \notin Upstreams /\ None \notin Servers
  /\ None \notin States

VARIABLES
  connections,     (* LanguageServerPool.connections                        *)
  state,           (* ConnectionHandle.state of each                        *)
  server_of,       (* the server of each connection                         *)
  handshake,       (* its handshake task                                    *)
  panic_count,     (* consecutive_panic_counts                              *)
  registry,        (* upstream_request_registry                             *)
  downstream,      (* of each router: the request an upstream id maps to    *)
  hung,            (* those whose liveness failure has yet to be noticed    *)
  pc, call,        (* where each caller is, and what it calls for and has   *)
  counted,         (* history: panics since the last success, in fact       *)
  overtaken        (* history: a start of which was counted before one      *)
                   (* that had ended earlier                                *)

poolVars == <<connections, state, server_of, handshake, panic_count, hung,
              counted, overtaken>>
cancelVars == <<registry, downstream>>
callerVars == <<pc, call>>
vars == <<poolVars, cancelVars, callerVars>>

Places == {"idle", "deciding", "joining", "counting", "looking", "watching",
           "holding", "sent", "settled", "done"}
Call == [server : Servers, upstream : Upstreams \cup {None}, wait : BOOLEAN,
         panics : Nat, conn : Connections \cup {None},
         fate : {"none", "ended", "dropped"}]

(* None is no call. *)
ASSUME NoneIsNoCall == None \notin Call

TypeOK ==
  /\ connections \in [Servers -> Connections \cup {None}]
  /\ state \in [Connections -> States \cup {None}]
  /\ server_of \in [Connections -> Servers \cup {None}]
  /\ handshake \in [Connections ->
                     {"none", "running", "ok", "error", "panic", "joined"}]
  /\ panic_count \in [Servers -> Nat] /\ hung \subseteq Connections
  /\ counted \in [Servers -> Nat] /\ overtaken \subseteq Servers
  /\ registry \in [Upstreams -> SUBSET Servers]
  /\ downstream \in [Connections -> [Upstreams -> Callers \cup {None}]]
  /\ pc \in [Callers -> Places]
  /\ call \in [Callers -> Call \cup {None}]

Init ==
  /\ connections = [s \in Servers |-> None]
  /\ state = [n \in Connections |-> None]
  /\ server_of = [n \in Connections |-> None]
  /\ handshake = [n \in Connections |-> "none"]
  /\ panic_count = [s \in Servers |-> 0] /\ hung = {}
  /\ counted = panic_count /\ overtaken = {}
  /\ registry = [u \in Upstreams |-> {}]
  /\ downstream = [n \in Connections |-> [u \in Upstreams |-> None]]
  /\ pc = [c \in Callers |-> "idle"]
  /\ call = [c \in Callers |-> None]
-----------------------------------------------------------------------------
Goto(c, l) == pc' = [pc EXCEPT ![c] = l]

(* The caller returns, or its future is dropped.                           *)
Return(c, f) ==
  /\ Goto(c, "done")
  /\ call' = [call EXCEPT ![c].wait = FALSE, ![c].panics = 0, ![c].conn = None,
                          ![c].fate = f]

(* Who has a handle goes on, or waits for Ready.                           *)
Obtained(c) == IF call[c].wait THEN "watching" ELSE "holding"

Enter(c, l, n) ==
  /\ Goto(c, l)
  /\ call' = [call EXCEPT ![c].panics = 0, ![c].conn = n]

StateOf(s) == IF connections[s] = None THEN None ELSE state[connections[s]]

(* The lock of the connections: a caller that decides has it.              *)
PoolIsFree == \A c \in Callers : pc[c] # "deciding"

(* Mutant: one more panic is allowed.                                      *)
DisabledLater(c) == call[c].panics > MaxPanics

(* decide_connection_action: the panics come first, as they were read.     *)
Disabled(c) == call[c].panics >= MaxPanics

(* Mutant: a server that is being started is started again.                *)
SpawnsAnyway(c) ==
  ~Disabled(c) /\ StateOf(call[c].server) \in {None, "Initializing", "Failed"}

SpawnsNew(c) == ~Disabled(c) /\ StateOf(call[c].server) \in {None, "Failed"}
IsInitializing(c) == ~Disabled(c) /\ StateOf(call[c].server) = "Initializing"

(* A new connection in place of the one before, with its handshake task.   *)
SpawnServer(s, n) ==
  /\ state[n] = None /\ \A m \in 1..(n - 1) : state[m] # None
  /\ connections' = [connections EXCEPT ![s] = n]
  /\ state' = [state EXCEPT ![n] = "Initializing"]
  /\ server_of' = [server_of EXCEPT ![n] = s]
  /\ handshake' = [handshake EXCEPT ![n] = "running"]
  /\ UNCHANGED <<panic_count, hung, counted, overtaken>>

(* The program cannot be started; what was Failed is gone.                 *)
SpawnFails(s) ==
  /\ connections' = [connections EXCEPT ![s] = None]
  /\ UNCHANGED <<state, server_of, handshake, panic_count, hung, counted, overtaken>>

(* get_or_create_connection: it has the lock and reads the count.          *)
TakeLock(c) ==
  /\ pc[c] = "idle" /\ \A d \in 1..(c - 1) : pc[d] # "idle"
  /\ PoolIsFree /\ Goto(c, "deciding")
  /\ \E s \in Servers, u \in Upstreams \cup {None}, w \in BOOLEAN :
        /\ u = None => ~w
        /\ call' = [call EXCEPT ![c] =
             [server |-> s, upstream |-> u, wait |-> w, panics |-> panic_count[s],
              conn |-> None, fate |-> "none"]]
  /\ UNCHANGED <<poolVars, cancelVars>>

(* The rest of what it does under the lock, from its look at the state.    *)
GetOrCreate(c) ==
  LET s == call[c].server IN
  /\ pc[c] = "deciding"
  /\ \/ SpawnsNew(c) /\ \E n \in Connections :
           SpawnServer(s, n) /\ Enter(c, "joining", n)
     \/ SpawnsNew(c) /\ SpawnFails(s) /\ Return(c, "ended")
     \/ /\ ~Disabled(c) /\ StateOf(s) = "Ready"
        /\ Enter(c, Obtained(c), connections[s])
        /\ UNCHANGED poolVars
     \/ /\ call[c].wait /\ IsInitializing(c) /\ Enter(c, "looking", None)
        /\ UNCHANGED poolVars
     \/ /\ Disabled(c) \/ (IsInitializing(c) /\ ~call[c].wait)
        /\ Return(c, "ended")
        /\ UNCHANGED poolVars
  /\ UNCHANGED cancelVars

(* get_or_create_connection_wait_ready takes the lock again.               *)
LookAgain(c) ==
  LET n == connections[call[c].server] IN
  /\ pc[c] = "looking" /\ PoolIsFree
  /\ \/ n = None /\ Return(c, "ended")
     \/ n # None /\ Enter(c, "watching", n)
  /\ UNCHANGED <<poolVars, cancelVars>>
-----------------------------------------------------------------------------
(* The handshake task sets the state, whatever it is by then; if it        *)
(* panics, it does not.                                                    *)
HandshakeEnds(n) ==
  /\ handshake[n] = "running"
  /\ \/ /\ handshake' = [handshake EXCEPT ![n] = "ok"]
        /\ state' = [state EXCEPT ![n] = "Ready"]
        /\ counted' = [counted EXCEPT ![server_of[n]] = 0]
     \/ /\ handshake' = [handshake EXCEPT ![n] = "error"]
        /\ state' = [state EXCEPT ![n] = "Failed"]
        /\ UNCHANGED counted
     \/ /\ handshake' = [handshake EXCEPT ![n] = "panic"]
        /\ counted' = [counted EXCEPT ![server_of[n]] = @ + 1]
        /\ UNCHANGED state
  /\ UNCHANGED <<connections, server_of, panic_count, hung, overtaken, cancelVars,
                 callerVars>>

(* Mutant: every failure counts.                                           *)
CountFailures(k, outcome) == IF outcome = "ok" THEN 0 ELSE k + 1

(* What a start that ended makes of the count.                             *)
CountPanics(k, outcome) ==
  CASE outcome = "ok" -> 0 [] outcome = "panic" -> k + 1 [] OTHER -> k

Uncounted(s) == {n \in Connections :
                   server_of[n] = s /\ handshake[n] \in {"ok", "panic"}}

CountStart(c) ==
  LET s == call[c].server
      n == call[c].conn
  IN
  /\ panic_count' = [panic_count EXCEPT ![s] = CountPanics(@, handshake[n])]
  /\ handshake' = [handshake EXCEPT ![n] = "joined"]
  /\ overtaken' = IF \E m \in Uncounted(s) : m < n THEN overtaken \cup {s}
                                                  ELSE overtaken

(* Mutant: the state is left to the handshake task.                        *)
NoFailure(n) == UNCHANGED state

SetFailed(n) == state' = [state EXCEPT ![n] = "Failed"]

(* The caller that started the server learns how that went.  If the task   *)
(* has panicked it sets the state first ...                                *)
Join(c) ==
  LET n == call[c].conn IN
  /\ pc[c] = "joining"
  /\ \/ /\ handshake[n] = "ok" /\ CountStart(c)
        /\ Goto(c, Obtained(c)) /\ UNCHANGED <<state, call>>
     \/ /\ handshake[n] = "error" /\ CountStart(c)
        /\ Return(c, "ended") /\ UNCHANGED state
     \/ /\ handshake[n] = "panic" /\ SetFailed(n)
        /\ Goto(c, "counting") /\ UNCHANGED <<handshake, panic_count, overtaken, call>>
  /\ UNCHANGED <<connections, server_of, hung, counted, cancelVars>>

(* ... and counts the panic then, whatever others did in between.          *)
CountPanic(c) ==
  /\ pc[c] = "counting"
  /\ CountStart(c) /\ Return(c, "ended")
  /\ UNCHANGED <<connections, state, server_of, hung, counted, cancelVars>>

(* wait_for_ready: the state of the handle, or a timeout.                  *)
WaitForReady(c) ==
  /\ pc[c] = "watching"
  /\ \/ state[call[c].conn] = "Ready" /\ Goto(c, "holding") /\ UNCHANGED call
     \/ state[call[c].conn] # "Ready" /\ Return(c, "ended")
  /\ UNCHANGED <<poolVars, cancelVars>>
-----------------------------------------------------------------------------
(* execute_bridge_request_with_handle.                                     *)

(* A start in advance has nothing to send.                                 *)
StartedInAdvance(c) ==
  /\ pc[c] = "holding" /\ call[c].upstream = None
  /\ Return(c, "ended")
  /\ UNCHANGED <<poolVars, cancelVars>>

(* The registry first, then the router, whatever the state is by now.      *)
Send(c) ==
  LET u == call[c].upstream IN
  /\ pc[c] = "holding" /\ u # None
  /\ registry' = [registry EXCEPT ![u] = @ \cup {call[c].server}]
  /\ downstream' = [downstream EXCEPT ![call[c].conn][u] = c]
  /\ Goto(c, "sent")
  /\ UNCHANGED <<poolVars, call>>

(* The router is done with the request: an answer, a timeout, an error, or *)
(* it could not be sent.                                                   *)
Settle(c) ==
  /\ pc[c] = "sent" /\ Goto(c, "settled")
  /\ downstream' = [downstream EXCEPT ![call[c].conn][call[c].upstream] = None]
  /\ UNCHANGED <<poolVars, registry, call>>

(* The reader's liveness timeout: it fails all that wait, says so and ends. *)
LivenessTimeout(n) ==
  LET waiting == {c \in Callers : pc[c] = "sent" /\ call[c].conn = n} IN
  /\ state[n] = "Ready" /\ n \notin hung /\ waiting # {}
  /\ downstream' = [downstream EXCEPT ![n] = [u \in Upstreams |-> None]]
  /\ pc' = [c \in Callers |-> IF c \in waiting THEN "settled" ELSE pc[c]]
  /\ hung' = hung \cup {n}
  /\ UNCHANGED <<connections, state, server_of, handshake, panic_count, counted,
                 overtaken, registry, call>>

(* wait_for_response: one of those that waited notices, if any does.       *)
NoticeHung(c) ==
  LET n == call[c].conn IN
  /\ pc[c] = "settled" /\ n \in hung
  /\ hung' = hung \ {n} /\ state' = [state EXCEPT ![n] = "Failed"]
  /\ UNCHANGED <<connections, server_of, handshake, panic_count, counted, overtaken,
                 cancelVars, callerVars>>

(* Mutant: the entry of the upstream id goes.                              *)
UnregisterAll(c) == registry' = [registry EXCEPT ![call[c].upstream] = {}]

UnregisterUpstream(c) ==
  registry' = [registry EXCEPT ![call[c].upstream] = @ \ {call[c].server}]

Finish(c) ==
  /\ pc[c] = "settled"
  /\ UnregisterUpstream(c)
  /\ Return(c, "ended")
  /\ UNCHANGED <<poolVars, downstream>>

(* The future is dropped at one of its awaits: what runs in other tasks    *)
(* goes on, what was registered stays.                                     *)
DropFuture(c) ==
  /\ pc[c] \in {"joining", "looking", "watching", "sent"}
  /\ Return(c, "dropped")
  /\ UNCHANGED <<poolVars, cancelVars>>
-----------------------------------------------------------------------------
(* $/cancelRequest: the registry tells the servers (forward_cancel_by_     *)
(* upstream_id), and of each the connection that the pool has now, if it   *)
(* is Ready, is looked up in its router (forward_cancel).                  *)
ReachedByCancel(u) ==
  {downstream[connections[s]][u] : s \in {t \in registry[u] : StateOf(t) = "Ready"}}
-----------------------------------------------------------------------------
Advance(c) ==
  \/ GetOrCreate(c) \/ LookAgain(c) \/ Join(c) \/ CountPanic(c) \/ WaitForReady(c)
  \/ StartedInAdvance(c) \/ Send(c) \/ Settle(c) \/ Finish(c)

Next ==
  \/ \E c \in Callers : TakeLock(c) \/ Advance(c) \/ NoticeHung(c) \/ DropFuture(c)
  \/ \E n \in Connections : HandshakeEnds(n) \/ LivenessTimeout(n)

Spec == Init /\ [][Next]_vars

(* A handshake, a wait for Ready and a request have their timeouts; what   *)
(* can step does.                                                          *)
FairSpec ==
  /\ Spec
  /\ \A c \in Callers : WF_vars(Advance(c))
  /\ \A n \in Connections : WF_vars(HandshakeEnds(n))
-----------------------------------------------------------------------------
(* The pool implements the breaker of each server: one start at a time,    *)
(* none by a caller that had seen MaxPanics panics counted when it took    *)
(* the lock, and every panic that ends a start is counted once, however    *)
(* callers wait, meet, return and go.                                      *)
Breaker ==
  INSTANCE CircuitBreaker WITH
    starting <- {s \in Servers : StateOf(s) = "Initializing"},
    count <- panic_count,
    uncounted <- [s \in Servers |->
                   Cardinality({c \in Callers : pc[c] = "counting" /\ call[c].server = s})],
    asking <- {s \in Servers : \E c \in Callers :
                 pc[c] = "deciding" /\ call[c].server = s /\ ~Disabled(c)}

ImplementsBreaker == Breaker!Spec

(* The connections that start or serve are those in the pool: a server is  *)
(* never started next to another of its name, and a handle of a connection *)
(* that serves is the one that other requests and cancels find.            *)
OneOfEachServer ==
  \A n \in Connections :
     state[n] \in {"Initializing", "Ready"} => connections[server_of[n]] = n

(* The pool keeps its types and has one connection of each server.         *)
PoolSafe == TypeOK /\ OneOfEachServer

(* While every start has somebody who waits for it, and they count in the  *)
(* order in which the starts ended, the count is that of the panics since  *)
(* the last success, and not of other failures.                            *)
CountIsConsecutive ==
  \A s \in Servers :
     panic_count[s] = counted[s] \/ Uncounted(s) # {} \/ s \in overtaken

Joined(n) == \E c \in Callers : pc[c] = "joining" /\ call[c].conn = n

(* A start comes to an end that the pool sees, also when its caller was    *)
(* dropped; only a panic that nobody waits for leaves the connection       *)
(* Initializing, and every later call for the server fails or times out.   *)
StartsEnd ==
  \A n \in Connections :
     state[n] = "Initializing" ~>
        state[n] # "Initializing" \/ (handshake[n] = "panic" /\ ~Joined(n))

(* The registry, the pool and the router agree on a request that waits for *)
(* its answer from a server that is Ready, so that a cancel of its upstream *)
(* id reaches it, whatever connections of that server were before: if it   *)
(* is the only request of that id for that server.                         *)
RequestsCancellable ==
  \A c \in Callers :
     /\ pc[c] = "sent" /\ state[call[c].conn] = "Ready"
     /\ \A d \in Callers \ {c} :
           \/ pc[d] = "idle" \/ call[d].upstream # call[c].upstream
           \/ call[d].server # call[c].server
     => c \in ReachedByCancel(call[c].upstream)

(* Nothing but a call that was dropped leaves traces: when all calls have  *)
(* returned, no upstream id is registered and no request is looked for.    *)
NothingLeftBehind ==
  (\A c \in Callers : pc[c] \in {"idle", "done"}) =>
     \A u \in Upstreams :
        \/ registry[u] = {} /\ \A n \in Connections : downstream[n][u] = None
        \/ \E c \in Callers : call[c] # None /\ call[c].upstream = u
                              /\ call[c].fate = "dropped"

(* What a client's cancel is looked up in is exact.                        *)
RegistryExact == RequestsCancellable /\ NothingLeftBehind
=============================================================================
