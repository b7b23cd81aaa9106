-------------------------- MODULE ServerPoolProofs --------------------------
(***************************************************************************)
(* For any servers, callers and number of panics: the pool of ServerPool   *)
(* never has two connections of a server that start or serve, it           *)
(* implements the circuit breaker and counts panics in a row, and its      *)
(* registry leads a cancel to the request.                                 *)
(***************************************************************************)
EXTENDS ServerPool, FiniteSetTheorems, TLAPS

HasHandle == {"joining", "counting", "watching", "holding", "sent", "settled"}

(* Who calls has a call; who has a handle, one of a connection that was     *)
(* started for its server; who counts a panic has set the state.            *)
CallsKnown ==
  \A c \in Callers :
     /\ pc[c] # "idle" => call[c] \in Call
     /\ pc[c] \in HasHandle => /\ call[c].conn \in Connections
                               /\ server_of[call[c].conn] = call[c].server
                               /\ state[call[c].conn] # None
     /\ pc[c] \in {"sent", "settled"} => call[c].upstream \in Upstreams
     /\ pc[c] = "counting" => /\ handshake[call[c].conn] = "panic"
                              /\ state[call[c].conn] = "Failed"

(* One caller waits for a handshake, and one has the lock of the pool.      *)
OneJoins ==
  \A c, d \in Callers :
     /\ pc[c] \in {"joining", "counting"} /\ pc[d] \in {"joining", "counting"}
     /\ call[c].conn = call[d].conn
     => c = d

OneDecides ==
  \A c, d \in Callers : pc[c] = "deciding" /\ pc[d] = "deciding" => c = d

(* A handshake belongs to a connection that was started; the connection is  *)
(* Initializing while it runs, and after a panic until somebody joins it.   *)
(* What is hung has been Ready.                                             *)
HandshakeOfStart ==
  \A n \in Connections :
     /\ state[n] = None <=> handshake[n] = "none"
     /\ state[n] # None => server_of[n] \in Servers
     /\ handshake[n] = "running" => state[n] = "Initializing"
     /\ state[n] = "Initializing" => handshake[n] \in {"running", "panic"}
     /\ handshake[n] = "panic" => state[n] \in {"Initializing", "Failed"}
     /\ n \in hung => state[n] = "Ready"

(* A panic that the state shows is about to be counted.                     *)
PanicSeen ==
  \A n \in Connections :
     handshake[n] = "panic" /\ state[n] = "Failed" =>
        \E c \in Callers : pc[c] = "counting" /\ call[c].conn = n

(* What the pool has under a name was started for that name.                *)
PoolByName ==
  \A s \in Servers :
     connections[s] # None => /\ state[connections[s]] # None
                              /\ server_of[connections[s]] = s

PoolInv == HandshakeOfStart /\ PoolByName /\ OneOfEachServer

CallersInv == CallsKnown /\ OneJoins /\ OneDecides

IInv == TypeOK /\ PoolInv /\ CallersInv /\ PanicSeen

LEMMA NoneApart ==
  /\ None \notin Connections /\ None \notin Servers /\ None \notin Upstreams
  /\ None \notin States
BY PoolAssumption DEF Connections

LEMMA InitInv == Init => IInv
BY NoneApart, PoolAssumption
   DEF Init, IInv, TypeOK, PoolInv, CallersInv, CallsKnown, HandshakeOfStart,
       PoolByName, OneOfEachServer, OneJoins, OneDecides, PanicSeen, HasHandle,
       Places, States

LEMMA Types ==
  ASSUME IInv
  PROVE  /\ connections \in [Servers -> Connections \cup {None}]
         /\ state \in [Connections -> States \cup {None}]
         /\ server_of \in [Connections -> Servers \cup {None}]
         /\ handshake \in [Connections ->
                            {"none", "running", "ok", "error", "panic", "joined"}]
         /\ panic_count \in [Servers -> Nat] /\ hung \subseteq Connections
         /\ counted \in [Servers -> Nat] /\ overtaken \subseteq Servers
         /\ registry \in [Upstreams -> SUBSET Servers]
         /\ downstream \in [Connections -> [Upstreams -> Callers \cup {None}]]
         /\ pc \in [Callers -> Places] /\ call \in [Callers -> Call \cup {None}]
BY DEF IInv, TypeOK

(* A caller and what it has.                                                *)
LEMMA HandleFacts ==
  ASSUME IInv, NEW c \in Callers
  PROVE  /\ pc[c] # "idle" => call[c] \in Call /\ call[c].server \in Servers
         /\ pc[c] \in HasHandle => /\ call[c].conn \in Connections
                                   /\ server_of[call[c].conn] = call[c].server
                                   /\ state[call[c].conn] # None
         /\ pc[c] \in {"sent", "settled"} => call[c].upstream \in Upstreams
BY DEF IInv, CallersInv, CallsKnown, Call
-----------------------------------------------------------------------------
(* A caller moves on.                                                       *)
Moves(c, l, new) ==
  /\ pc' = [pc EXCEPT ![c] = l] /\ call' = [call EXCEPT ![c] = new]

SameCall(c, new) ==
  new \in Call /\ new.server = call[c].server /\ new.upstream = call[c].upstream

LEMMA GoesTo ==
  ASSUME IInv, NEW c \in Callers, pc[c] # "idle", NEW l, Goto(c, l), UNCHANGED call
  PROVE  Moves(c, l, call[c]) /\ SameCall(c, call[c])
BY Types, HandleFacts DEF Goto, Moves, SameCall

LEMMA Returns ==
  ASSUME IInv, NEW c \in Callers, pc[c] # "idle",
         NEW f \in {"ended", "dropped"}, Return(c, f)
  PROVE  \E new : Moves(c, "done", new) /\ SameCall(c, new) /\ new.fate = f
<1> DEFINE new == [call[c] EXCEPT !.wait = FALSE, !.panics = 0, !.conn = None,
                                  !.fate = f]
<1>1. call \in [Callers -> Call \cup {None}] /\ call[c] \in Call
  BY Types, HandleFacts
<1>2. /\ new \in Call /\ new.fate = f /\ new.upstream = call[c].upstream
      /\ new.server = call[c].server
  BY <1>1 DEF Call
<1>3. Moves(c, "done", new)
  BY <1>1 DEF Return, Goto, Moves
<1> HIDE DEF new
<1>4. QED
  BY <1>2, <1>3 DEF SameCall

LEMMA Enters ==
  ASSUME IInv, NEW c \in Callers, pc[c] # "idle", NEW l,
         NEW n \in Connections \cup {None}, Enter(c, l, n)
  PROVE  \E new : Moves(c, l, new) /\ SameCall(c, new) /\ new.conn = n
<1> DEFINE new == [call[c] EXCEPT !.panics = 0, !.conn = n]
<1>1. call \in [Callers -> Call \cup {None}] /\ call[c] \in Call
  BY Types, HandleFacts
<1>2. /\ new \in Call /\ new.conn = n /\ new.upstream = call[c].upstream
      /\ new.server = call[c].server
  BY <1>1 DEF Call
<1>3. Moves(c, l, new)
  BY <1>1 DEF Enter, Goto, Moves
<1> HIDE DEF new
<1>4. QED
  BY <1>2, <1>3 DEF SameCall

(* A connection that was started keeps its server.                          *)
StartedStay ==
  \A n \in Connections :
     state[n] # None => state'[n] # None /\ server_of'[n] = server_of[n]

(* Those that count a panic find it as it was.                              *)
PanicsStay(n) == handshake'[n] = handshake[n] /\ (state[n] = "Failed" => state'[n] = "Failed")

(* What holds of the callers after one of them moved.                       *)
LEMMA MoveKeepsCallers ==
  ASSUME IInv, NEW c \in Callers, NEW l \in Places \ {"idle"}, NEW new \in Call,
         Moves(c, l, new), StartedStay,
         l \in HasHandle => /\ new.conn \in Connections
                            /\ server_of'[new.conn] = new.server
                            /\ state'[new.conn] # None,
         l \in {"sent", "settled"} => new.upstream \in Upstreams,
         l = "counting" => handshake'[new.conn] = "panic" /\ state'[new.conn] = "Failed",
         l \in {"joining", "counting"} =>
            \A d \in Callers \ {c} :
               pc[d] \in {"joining", "counting"} => call[d].conn # new.conn,
         l = "deciding" => PoolIsFree,
         \A d \in Callers \ {c} : pc[d] = "counting" => PanicsStay(call[d].conn)
  PROVE  /\ pc' \in [Callers -> Places] /\ call' \in [Callers -> Call \cup {None}]
         /\ CallersInv'
<1>1. pc \in [Callers -> Places] /\ call \in [Callers -> Call \cup {None}]
  BY Types
<1>2. /\ pc' \in [Callers -> Places] /\ call' \in [Callers -> Call \cup {None}]
      /\ pc'[c] = l /\ call'[c] = new
      /\ \A d \in Callers \ {c} : pc'[d] = pc[d] /\ call'[d] = call[d]
  BY <1>1 DEF Moves
<1>3. CallsKnown'
  <2> SUFFICES ASSUME NEW d \in Callers
               PROVE  /\ pc'[d] # "idle" => call'[d] \in Call
                      /\ pc'[d] \in HasHandle =>
                            /\ call'[d].conn \in Connections
                            /\ server_of'[call'[d].conn] = call'[d].server
                            /\ state'[call'[d].conn] # None
                      /\ pc'[d] \in {"sent", "settled"} => call'[d].upstream \in Upstreams
                      /\ pc'[d] = "counting" => /\ handshake'[call'[d].conn] = "panic"
                                                /\ state'[call'[d].conn] = "Failed"
    BY DEF CallsKnown
  <2>1. CASE d = c
    BY <1>2, <2>1
  <2>2. CASE d # c
    BY <1>2, <2>2 DEF IInv, CallersInv, CallsKnown, StartedStay, PanicsStay
  <2>3. QED
    BY <2>1, <2>2
<1>4. OneJoins'
  <2> SUFFICES ASSUME NEW d \in Callers, NEW e \in Callers,
                      pc'[d] \in {"joining", "counting"},
                      pc'[e] \in {"joining", "counting"},
                      call'[d].conn = call'[e].conn
               PROVE  d = e
    BY DEF OneJoins
  <2>1. CASE d # c /\ e # c
    BY <1>2, <2>1 DEF IInv, CallersInv, OneJoins
  <2>2. CASE d = c \/ e = c
    BY <1>2, <2>2
  <2>3. QED
    BY <2>1, <2>2
<1>5. OneDecides'
  BY <1>2 DEF IInv, CallersInv, OneDecides, PoolIsFree
<1>6. QED
  BY <1>2, <1>3, <1>4, <1>5 DEF CallersInv

(* Steps that leave the pool as it is, but for the callers.                 *)
LEMMA PoolStays ==
  ASSUME IInv, UNCHANGED poolVars
  PROVE  /\ StartedStay /\ PoolInv' /\ \A n \in Connections : PanicsStay(n)
         /\ (\A c \in Callers : pc[c] = "counting" =>
                pc'[c] = "counting" /\ call'[c] = call[c]) => PanicSeen'
BY DEF IInv, PoolInv, HandshakeOfStart, PoolByName, OneOfEachServer, PanicSeen,
       StartedStay, PanicsStay, poolVars

LEMMA QuietMove ==
  ASSUME IInv, UNCHANGED poolVars,
         registry' \in [Upstreams -> SUBSET Servers],
         downstream' \in [Connections -> [Upstreams -> Callers \cup {None}]],
         NEW c \in Callers, pc[c] # "counting",
         NEW l \in Places \ {"idle", "joining", "counting"}, NEW new \in Call,
         Moves(c, l, new),
         l \in HasHandle => /\ new.conn \in Connections
                            /\ server_of[new.conn] = new.server
                            /\ state[new.conn] # None,
         l \in {"sent", "settled"} => new.upstream \in Upstreams,
         l = "deciding" => PoolIsFree
  PROVE  IInv'
<1>1. /\ StartedStay /\ PoolInv' /\ \A n \in Connections : PanicsStay(n)
      /\ (\A d \in Callers : pc[d] = "counting" =>
             pc'[d] = "counting" /\ call'[d] = call[d]) => PanicSeen'
  BY PoolStays
<1>2. \A d \in Callers : pc[d] = "counting" => call[d].conn \in Connections
  BY HandleFacts DEF HasHandle
<1>3. /\ pc' \in [Callers -> Places] /\ call' \in [Callers -> Call \cup {None}]
      /\ CallersInv'
  BY <1>1, <1>2, MoveKeepsCallers DEF poolVars
<1>4. PanicSeen'
  BY <1>1, Types DEF Moves
<1>5. QED
  BY <1>1, <1>3, <1>4 DEF IInv, TypeOK, poolVars

LEMMA QuietReturn ==
  ASSUME IInv, UNCHANGED poolVars,
         registry' \in [Upstreams -> SUBSET Servers],
         downstream' \in [Connections -> [Upstreams -> Callers \cup {None}]],
         NEW c \in Callers, pc[c] \notin {"idle", "counting"},
         NEW f \in {"ended", "dropped"}, Return(c, f)
  PROVE  IInv'
<1>1. PICK new : Moves(c, "done", new) /\ SameCall(c, new)
  BY Returns
<1>2. QED
  BY <1>1, QuietMove DEF SameCall, Places, HasHandle
-----------------------------------------------------------------------------
(* The steps of a call.                                                     *)
LEMMA TakeLockInv ==
  ASSUME IInv, NEW c \in Callers, TakeLock(c) PROVE IInv'
<1>1. PICK s \in Servers, u \in Upstreams \cup {None}, w \in BOOLEAN :
         call' = [call EXCEPT ![c] =
             [server |-> s, upstream |-> u, wait |-> w, panics |-> panic_count[s],
              conn |-> None, fate |-> "none"]]
  BY DEF TakeLock
<1> DEFINE new == [server |-> s, upstream |-> u, wait |-> w, panics |-> panic_count[s],
                   conn |-> None, fate |-> "none"]
<1>2. new \in Call
  BY Types DEF Call
<1>3. Moves(c, "deciding", new) /\ pc[c] = "idle" /\ PoolIsFree
      /\ UNCHANGED <<poolVars, cancelVars>>
  BY <1>1 DEF TakeLock, Goto, Moves
<1> HIDE DEF new
<1>4. QED
  BY <1>2, <1>3, QuietMove, Types DEF Places, HasHandle, cancelVars

(* The pool after a start: it takes the place of nothing, or of a           *)
(* connection that has failed.                                              *)
LEMMA SpawnKeepsPool ==
  ASSUME IInv, NEW s \in Servers, NEW n \in Connections,
         StateOf(s) \in {None, "Failed"}, SpawnServer(s, n)
  PROVE  /\ connections' \in [Servers -> Connections \cup {None}]
         /\ state' \in [Connections -> States \cup {None}]
         /\ server_of' \in [Connections -> Servers \cup {None}]
         /\ handshake' \in [Connections ->
                     {"none", "running", "ok", "error", "panic", "joined"}]
         /\ UNCHANGED <<panic_count, hung, counted, overtaken>>
         /\ server_of'[n] = s /\ state'[n] # None /\ state[n] = None
         /\ StartedStay /\ PoolInv'
         /\ \A m \in Connections : state[m] # None => PanicsStay(m)
<1>1. /\ state[n] = None
      /\ connections' = [connections EXCEPT ![s] = n]
      /\ state' = [state EXCEPT ![n] = "Initializing"]
      /\ server_of' = [server_of EXCEPT ![n] = s]
      /\ handshake' = [handshake EXCEPT ![n] = "running"]
      /\ UNCHANGED <<panic_count, hung, counted, overtaken>>
  BY DEF SpawnServer
<1>2. connections[s] = None \/ state[connections[s]] \in {None, "Failed"}
  BY DEF StateOf
<1>3. /\ connections' \in [Servers -> Connections \cup {None}]
      /\ state' \in [Connections -> States \cup {None}]
      /\ server_of' \in [Connections -> Servers \cup {None}]
      /\ handshake' \in [Connections ->
                     {"none", "running", "ok", "error", "panic", "joined"}]
      /\ server_of'[n] = s /\ state'[n] # None
  BY <1>1, NoneApart, Types DEF States
<1>4. StartedStay /\ \A m \in Connections : state[m] # None => PanicsStay(m)
  BY <1>1, Types DEF StartedStay, PanicsStay
<1>5. HandshakeOfStart'
  <2> SUFFICES ASSUME NEW m \in Connections
               PROVE  /\ state'[m] = None <=> handshake'[m] = "none"
                      /\ state'[m] # None => server_of'[m] \in Servers
                      /\ handshake'[m] = "running" => state'[m] = "Initializing"
                      /\ state'[m] = "Initializing" => handshake'[m] \in {"running", "panic"}
                      /\ handshake'[m] = "panic" => state'[m] \in {"Initializing", "Failed"}
                      /\ m \in hung' => state'[m] = "Ready"
    BY DEF HandshakeOfStart
  <2>1. CASE m = n
    BY <1>1, <2>1, NoneApart, Types DEF IInv, PoolInv, HandshakeOfStart, States
  <2>2. CASE m # n
    BY <1>1, <2>2, Types DEF IInv, PoolInv, HandshakeOfStart
  <2>3. QED
    BY <2>1, <2>2
<1>6. PoolByName'
  BY <1>1, NoneApart, Types DEF IInv, PoolInv, PoolByName, States
<1>7. OneOfEachServer'
  <2> SUFFICES ASSUME NEW m \in Connections, state'[m] \in {"Initializing", "Ready"}
               PROVE  connections'[server_of'[m]] = m
    BY DEF OneOfEachServer
  <2>1. CASE m = n
    BY <1>1, <2>1, Types
  <2>2. CASE m # n
    <3>1. state[m] \in {"Initializing", "Ready"} /\ server_of'[m] = server_of[m]
      BY <1>1, <2>2, Types
    <3>2. connections[server_of[m]] = m /\ server_of[m] \in Servers
      BY <3>1, NoneApart DEF IInv, PoolInv, OneOfEachServer, HandshakeOfStart, States
    <3>3. server_of[m] # s
      BY <1>2, <3>1, <3>2, NoneApart DEF States
    <3>4. QED
      BY <1>1, <3>1, <3>2, <3>3, Types
  <2>3. QED
    BY <2>1, <2>2
<1>8. QED
  BY <1>1, <1>3, <1>4, <1>5, <1>6, <1>7 DEF PoolInv

LEMMA GetOrCreateInv ==
  ASSUME IInv, NEW c \in Callers, GetOrCreate(c) PROVE IInv'
<1> DEFINE s == call[c].server
<1>1. /\ pc[c] = "deciding" /\ call[c] \in Call /\ s \in Servers
      /\ UNCHANGED cancelVars
  BY HandleFacts DEF GetOrCreate
<1>2. /\ registry' \in [Upstreams -> SUBSET Servers]
      /\ downstream' \in [Connections -> [Upstreams -> Callers \cup {None}]]
  BY <1>1, Types DEF cancelVars
<1>3. CASE SpawnsNew(c) /\ \E n \in Connections :
             SpawnServer(s, n) /\ Enter(c, "joining", n)
  <2>1. PICK n \in Connections : SpawnServer(s, n) /\ Enter(c, "joining", n)
    BY <1>3
  <2>2. PICK new : /\ Moves(c, "joining", new) /\ SameCall(c, new) /\ new.conn = n
    BY <1>1, <2>1, Enters
  <2>3. /\ connections' \in [Servers -> Connections \cup {None}]
        /\ state' \in [Connections -> States \cup {None}]
        /\ server_of' \in [Connections -> Servers \cup {None}]
        /\ handshake' \in [Connections ->
                     {"none", "running", "ok", "error", "panic", "joined"}]
        /\ UNCHANGED <<panic_count, hung, counted, overtaken>>
        /\ server_of'[n] = s /\ state'[n] # None /\ state[n] = None
        /\ StartedStay /\ PoolInv'
        /\ \A m \in Connections : state[m] # None => PanicsStay(m)
    BY <1>1, <1>3, <2>1, SpawnKeepsPool DEF SpawnsNew
  <2>4. \A d \in Callers : pc[d] \in {"joining", "counting"} =>
           /\ call[d].conn # n /\ PanicsStay(call[d].conn)
    BY <2>3, HandleFacts DEF HasHandle
  <2> HIDE DEF s
  <2>5. /\ pc' \in [Callers -> Places] /\ call' \in [Callers -> Call \cup {None}]
        /\ CallersInv'
    BY <2>2, <2>3, <2>4, MoveKeepsCallers DEF SameCall, Places, s
  <2>6. PanicSeen'
    <3> SUFFICES ASSUME NEW m \in Connections, handshake'[m] = "panic",
                        state'[m] = "Failed"
                 PROVE  \E d \in Callers : pc'[d] = "counting" /\ call'[d].conn = m
      BY DEF PanicSeen
    <3>1. handshake[m] = "panic" /\ state[m] = "Failed"
      BY <2>1, Types DEF SpawnServer
    <3>2. PICK d \in Callers : pc[d] = "counting" /\ call[d].conn = m
      BY <3>1 DEF IInv, PanicSeen
    <3>3. QED
      BY <1>1, <2>2, <3>2, Types DEF Moves
  <2>7. QED
    BY <1>2, <2>3, <2>5, <2>6, Types DEF IInv, TypeOK
<1>4. CASE SpawnsNew(c) /\ SpawnFails(s) /\ Return(c, "ended")
  <2>1. /\ connections' = [connections EXCEPT ![s] = None]
        /\ UNCHANGED <<state, server_of, handshake, panic_count, hung, counted, overtaken>>
    BY <1>4 DEF SpawnFails
  <2>2. connections[s] = None \/ state[connections[s]] \in {None, "Failed"}
    BY <1>4 DEF SpawnsNew, StateOf
  <2>3. PICK new : Moves(c, "done", new) /\ SameCall(c, new)
    BY <1>1, <1>4, Returns
  <2>4. OneOfEachServer'
    BY <2>1, <2>2, NoneApart, Types
    DEF IInv, PoolInv, OneOfEachServer, HandshakeOfStart, States
  <2>5. HandshakeOfStart' /\ PoolByName'
    BY <2>1, NoneApart, Types DEF IInv, PoolInv, HandshakeOfStart, PoolByName
  <2>6. StartedStay /\ \A m \in Connections : PanicsStay(m)
    BY <2>1 DEF StartedStay, PanicsStay
  <2>7. \A d \in Callers : pc[d] = "counting" => call[d].conn \in Connections
    BY HandleFacts DEF HasHandle
  <2>8. /\ pc' \in [Callers -> Places] /\ call' \in [Callers -> Call \cup {None}]
        /\ CallersInv'
    BY <2>3, <2>6, <2>7, MoveKeepsCallers DEF SameCall, Places, HasHandle
  <2>9. PanicSeen'
    BY <1>1, <2>1, <2>3, Types DEF IInv, PanicSeen, Moves
  <2>10. connections' \in [Servers -> Connections \cup {None}]
    BY <2>1, Types
  <2>11. QED
    BY <1>2, <2>1, <2>4, <2>5, <2>8, <2>9, <2>10, Types DEF IInv, TypeOK, PoolInv
<1>5. CASE /\ StateOf(s) = "Ready" /\ UNCHANGED poolVars
           /\ Enter(c, Obtained(c), connections[s])
  <2>1. connections[s] \in Connections
    BY <1>1, <1>5, NoneApart, Types DEF StateOf, States
  <2>2. PICK new : /\ Moves(c, Obtained(c), new) /\ SameCall(c, new)
                   /\ new.conn = connections[s]
    BY <1>1, <1>5, <2>1, Enters
  <2>3. Obtained(c) \in {"watching", "holding"}
    BY DEF Obtained
  <2>4. server_of[connections[s]] = s /\ state[connections[s]] # None
    BY <1>1, <2>1, NoneApart DEF IInv, PoolInv, PoolByName
  <2>5. QED
    BY <1>1, <1>2, <1>5, <2>1, <2>2, <2>3, <2>4, QuietMove
    DEF SameCall, Places, HasHandle
<1>6. CASE Enter(c, "looking", None) /\ UNCHANGED poolVars
  <2>1. PICK new : Moves(c, "looking", new) /\ SameCall(c, new)
    BY <1>1, <1>6, Enters
  <2>2. QED
    BY <1>1, <1>2, <1>6, <2>1, QuietMove DEF SameCall, Places, HasHandle
<1>7. CASE Return(c, "ended") /\ UNCHANGED poolVars
  BY <1>1, <1>2, <1>7, QuietReturn
<1>8. QED
  BY <1>3, <1>4, <1>5, <1>6, <1>7 DEF GetOrCreate

(* The steps of a caller that leave the pool alone.                         *)
LEMMA CallInv ==
  ASSUME IInv, NEW c \in Callers,
         \/ LookAgain(c) \/ WaitForReady(c) \/ StartedInAdvance(c) \/ DropFuture(c)
         \/ Send(c) \/ Settle(c) \/ Finish(c)
  PROVE  IInv'
<1> DEFINE n == call[c].conn
           u == call[c].upstream
           s == call[c].server
<1>1. /\ pc[c] \in {"looking", "watching", "holding", "sent", "settled", "joining"}
      /\ UNCHANGED poolVars
  BY DEF LookAgain, WaitForReady, StartedInAdvance, DropFuture, Send, Settle, Finish
<1>2. call[c] \in Call /\ s \in Servers
  BY <1>1, HandleFacts
<1>3. UNCHANGED cancelVars =>
         /\ registry' \in [Upstreams -> SUBSET Servers]
         /\ downstream' \in [Connections -> [Upstreams -> Callers \cup {None}]]
  BY Types DEF cancelVars
<1>4. CASE \/ \E f \in {"ended", "dropped"} : Return(c, f) /\ UNCHANGED cancelVars
  BY <1>1, <1>3, <1>4, QuietReturn
<1>5. CASE LookAgain(c) /\ ~Return(c, "ended")
  <2>1. connections[s] \in Connections /\ Enter(c, "watching", connections[s])
    BY <1>2, <1>5, Types DEF LookAgain
  <2>2. PICK new : /\ Moves(c, "watching", new) /\ SameCall(c, new)
                   /\ new.conn = connections[s]
    BY <1>1, <2>1, Enters
  <2>3. server_of[connections[s]] = s /\ state[connections[s]] # None
    BY <1>2, <2>1, NoneApart DEF IInv, PoolInv, PoolByName
  <2>4. UNCHANGED cancelVars
    BY <1>5 DEF LookAgain
  <2>5. QED
    BY <1>1, <1>3, <2>1, <2>2, <2>3, <2>4, QuietMove DEF SameCall, Places, HasHandle
<1>6. CASE pc[c] = "watching" /\ Goto(c, "holding") /\ UNCHANGED <<call, cancelVars>>
  <2>1. Moves(c, "holding", call[c])
    BY <1>6, GoesTo
  <2>2. QED
    BY <1>1, <1>2, <1>3, <1>6, <2>1, QuietMove, HandleFacts DEF Places, HasHandle
<1>7. CASE Send(c)
  <2>1. u \in Upstreams /\ n \in Connections /\ pc[c] = "holding"
    BY <1>2, <1>7, HandleFacts DEF Send, Call, HasHandle
  <2>2. /\ registry' \in [Upstreams -> SUBSET Servers]
        /\ downstream' \in [Connections -> [Upstreams -> Callers \cup {None}]]
    BY <1>2, <1>7, <2>1, Types DEF Send
  <2>3. Moves(c, "sent", call[c])
    BY <1>7, <2>1, GoesTo DEF Send
  <2>4. QED
    BY <1>1, <1>2, <2>1, <2>2, <2>3, QuietMove, HandleFacts DEF Places, HasHandle
<1>8. CASE Settle(c)
  <2>1. u \in Upstreams /\ n \in Connections /\ pc[c] = "sent"
    BY <1>8, HandleFacts DEF Settle, HasHandle
  <2>2. /\ registry' \in [Upstreams -> SUBSET Servers]
        /\ downstream' \in [Connections -> [Upstreams -> Callers \cup {None}]]
    BY <1>8, <2>1, Types DEF Settle
  <2>3. Moves(c, "settled", call[c])
    BY <1>8, <2>1, GoesTo DEF Settle
  <2>4. QED
    BY <1>1, <1>2, <2>1, <2>2, <2>3, QuietMove, HandleFacts DEF Places, HasHandle
<1>9. CASE Finish(c)
  <2>1. u \in Upstreams
    BY <1>9, HandleFacts DEF Finish
  <2>2. /\ registry' \in [Upstreams -> SUBSET Servers]
        /\ downstream' \in [Connections -> [Upstreams -> Callers \cup {None}]]
    BY <1>9, <2>1, Types DEF Finish, UnregisterUpstream
  <2>3. QED
    BY <1>1, <1>9, <2>2, QuietReturn DEF Finish
<1>10. QED
  BY <1>4, <1>5, <1>6, <1>7, <1>8, <1>9
  DEF LookAgain, WaitForReady, StartedInAdvance, DropFuture
-----------------------------------------------------------------------------
(* The handshake task, and a server that hangs.                             *)

(* Callers that stay where they are.                                        *)
LEMMA CallersStay ==
  ASSUME IInv, UNCHANGED callerVars, StartedStay,
         \A c \in Callers : pc[c] = "counting" => PanicsStay(call[c].conn)
  PROVE  CallersInv'
BY DEF IInv, CallersInv, CallsKnown, OneJoins, OneDecides, StartedStay, PanicsStay,
   callerVars

LEMMA HandshakeEndsInv ==
  ASSUME IInv, NEW n \in Connections, HandshakeEnds(n) PROVE IInv'
<1>1. /\ handshake[n] = "running" /\ state[n] = "Initializing"
      /\ server_of[n] \in Servers /\ connections[server_of[n]] = n
      /\ n \notin hung
  BY NoneApart
  DEF IInv, PoolInv, HandshakeOfStart, OneOfEachServer, HandshakeEnds, States
<1>2. UNCHANGED <<connections, server_of, panic_count, hung, overtaken, cancelVars,
                  callerVars>>
  BY DEF HandshakeEnds
<1>3. counted' \in [Servers -> Nat]
  BY <1>1, Types DEF HandshakeEnds
<1>4. /\ handshake' \in [Connections ->
                     {"none", "running", "ok", "error", "panic", "joined"}]
      /\ state' \in [Connections -> States \cup {None}]
      /\ \A m \in Connections : m # n => handshake'[m] = handshake[m] /\ state'[m] = state[m]
      /\ \/ handshake'[n] = "ok" /\ state'[n] = "Ready"
         \/ handshake'[n] = "error" /\ state'[n] = "Failed"
         \/ handshake'[n] = "panic" /\ state'[n] = "Initializing"
  <2>1. CASE /\ handshake' = [handshake EXCEPT ![n] = "ok"]
             /\ state' = [state EXCEPT ![n] = "Ready"]
    BY <2>1, Types DEF States
  <2>2. CASE /\ handshake' = [handshake EXCEPT ![n] = "error"]
             /\ state' = [state EXCEPT ![n] = "Failed"]
    BY <2>2, Types DEF States
  <2>3. CASE handshake' = [handshake EXCEPT ![n] = "panic"] /\ UNCHANGED state
    BY <1>1, <2>3, Types
  <2>4. QED
    BY <2>1, <2>2, <2>3 DEF HandshakeEnds
<1>5. StartedStay
  BY <1>2, <1>4, NoneApart DEF StartedStay, States
<1>6. \A c \in Callers : pc[c] = "counting" =>
         call[c].conn \in Connections \ {n} /\ PanicsStay(call[c].conn)
  <2>1. \A c \in Callers : pc[c] = "counting" =>
           call[c].conn \in Connections /\ handshake[call[c].conn] = "panic"
    BY DEF IInv, CallersInv, CallsKnown, HasHandle
  <2>2. QED
    BY <1>1, <1>4, <2>1 DEF PanicsStay
<1>7. CallersInv'
  BY <1>2, <1>5, <1>6, CallersStay
<1>8. HandshakeOfStart'
  <2> SUFFICES ASSUME NEW m \in Connections
               PROVE  /\ state'[m] = None <=> handshake'[m] = "none"
                      /\ state'[m] # None => server_of'[m] \in Servers
                      /\ handshake'[m] = "running" => state'[m] = "Initializing"
                      /\ state'[m] = "Initializing" => handshake'[m] \in {"running", "panic"}
                      /\ handshake'[m] = "panic" => state'[m] \in {"Initializing", "Failed"}
                      /\ m \in hung' => state'[m] = "Ready"
    BY DEF HandshakeOfStart
  <2>1. CASE m = n
    BY <1>1, <1>2, <1>4, <2>1, NoneApart DEF States
  <2>2. CASE m # n
    BY <1>2, <1>4, <2>2 DEF IInv, PoolInv, HandshakeOfStart
  <2>3. QED
    BY <2>1, <2>2
<1>9. PoolByName' /\ OneOfEachServer'
  BY <1>1, <1>2, <1>4, <1>5, NoneApart, Types
  DEF IInv, PoolInv, PoolByName, OneOfEachServer, StartedStay, States
<1>10. PanicSeen'
  BY <1>2, <1>4 DEF IInv, PanicSeen, callerVars
<1>11. QED
  BY <1>2, <1>3, <1>4, <1>7, <1>8, <1>9, <1>10, Types
  DEF IInv, TypeOK, PoolInv, cancelVars, callerVars

LEMMA LivenessTimeoutInv ==
  ASSUME IInv, NEW n \in Connections, LivenessTimeout(n) PROVE IInv'
<1> DEFINE waiting == {c \in Callers : pc[c] = "sent" /\ call[c].conn = n}
<1>1. /\ state[n] = "Ready" /\ hung' = hung \cup {n}
      /\ pc' = [c \in Callers |-> IF c \in waiting THEN "settled" ELSE pc[c]]
      /\ downstream' = [downstream EXCEPT ![n] = [u \in Upstreams |-> None]]
      /\ UNCHANGED <<connections, state, server_of, handshake, panic_count, counted,
                     overtaken, registry, call>>
  BY DEF LivenessTimeout
<1>2. \A c \in Callers : /\ pc'[c] # pc[c] => pc'[c] = "settled" /\ pc[c] = "sent"
                         /\ pc'[c] \in Places
  BY <1>1, Types DEF Places
<1>3. pc' \in [Callers -> Places]
  BY <1>1, <1>2
<1>4. CallsKnown'
  <2> SUFFICES ASSUME NEW d \in Callers
               PROVE  /\ pc'[d] # "idle" => call[d] \in Call
                      /\ pc'[d] \in HasHandle =>
                            /\ call[d].conn \in Connections
                            /\ server_of[call[d].conn] = call[d].server
                            /\ state[call[d].conn] # None
                      /\ pc'[d] \in {"sent", "settled"} => call[d].upstream \in Upstreams
                      /\ pc'[d] = "counting" => /\ handshake[call[d].conn] = "panic"
                                                /\ state[call[d].conn] = "Failed"
    BY <1>1 DEF CallsKnown
  <2>1. CASE pc'[d] = pc[d]
    BY <2>1 DEF IInv, CallersInv, CallsKnown
  <2>2. CASE pc'[d] = "settled" /\ pc[d] = "sent"
    BY <2>2, HandleFacts DEF HasHandle
  <2>3. QED
    BY <1>2, <2>1, <2>2
<1>5. OneJoins' /\ OneDecides'
  BY <1>1, <1>2 DEF IInv, CallersInv, OneJoins, OneDecides
<1>6. HandshakeOfStart' /\ PoolByName' /\ OneOfEachServer'
  BY <1>1 DEF IInv, PoolInv, HandshakeOfStart, PoolByName, OneOfEachServer
<1>7. PanicSeen'
  <2> SUFFICES ASSUME NEW m \in Connections, handshake[m] = "panic", state[m] = "Failed"
               PROVE  \E d \in Callers : pc'[d] = "counting" /\ call[d].conn = m
    BY <1>1 DEF PanicSeen
  <2>1. PICK d \in Callers : pc[d] = "counting" /\ call[d].conn = m
    BY DEF IInv, PanicSeen
  <2>2. pc'[d] = "counting"
    BY <1>2, <2>1
  <2>3. QED
    BY <2>1, <2>2
<1>8. /\ downstream' \in [Connections -> [Upstreams -> Callers \cup {None}]]
      /\ hung' \subseteq Connections
  BY <1>1, Types
<1>9. QED
  BY <1>1, <1>3, <1>4, <1>5, <1>6, <1>7, <1>8, Types
  DEF IInv, TypeOK, PoolInv, CallersInv

LEMMA NoticeHungInv ==
  ASSUME IInv, NEW c \in Callers, NoticeHung(c) PROVE IInv'
<1>1. PICK n \in hung : /\ hung' = hung \ {n} /\ state' = [state EXCEPT ![n] = "Failed"]
                        /\ UNCHANGED <<connections, server_of, handshake, panic_count,
                             counted, overtaken, cancelVars, callerVars>>
  BY DEF NoticeHung
<1>2. n \in Connections /\ state[n] = "Ready" /\ handshake[n] # "panic"
      /\ handshake[n] # "running"
  BY <1>1, Types DEF IInv, PoolInv, HandshakeOfStart
<1>3. /\ state' \in [Connections -> States \cup {None}] /\ state'[n] = "Failed"
      /\ \A m \in Connections : m # n => state'[m] = state[m]
  BY <1>1, <1>2, Types DEF States
<1>4. StartedStay
  BY <1>1, <1>3, NoneApart DEF StartedStay, States
<1>5. \A d \in Callers : pc[d] = "counting" => PanicsStay(call[d].conn)
  <2>1. \A d \in Callers : pc[d] = "counting" => call[d].conn \in Connections
    BY HandleFacts DEF HasHandle
  <2>2. QED
    BY <1>1, <1>3, <2>1 DEF PanicsStay
<1>6. CallersInv'
  BY <1>1, <1>4, <1>5, CallersStay
<1>7. HandshakeOfStart'
  BY <1>1, <1>2, <1>3, NoneApart DEF IInv, PoolInv, HandshakeOfStart, States
<1>8. PoolByName' /\ OneOfEachServer'
  BY <1>1, <1>3, <1>4, Types
  DEF IInv, PoolInv, PoolByName, OneOfEachServer, StartedStay
<1>9. PanicSeen'
  BY <1>1, <1>2, <1>3 DEF IInv, PanicSeen, callerVars
<1>10. hung' \subseteq Connections
  BY <1>1, Types
<1>11. QED
  BY <1>1, <1>3, <1>6, <1>7, <1>8, <1>9, <1>10, Types
  DEF IInv, TypeOK, PoolInv, cancelVars, callerVars
-----------------------------------------------------------------------------
(* The caller that learns how a start went.                                 *)

(* A caller that joins is alone at its handshake.                           *)
LEMMA JoinFacts ==
  ASSUME IInv, NEW c \in Callers, pc[c] \in {"joining", "counting"}
  PROVE  /\ call[c] \in Call /\ call[c].conn \in Connections
         /\ call[c].server \in Servers /\ server_of[call[c].conn] = call[c].server
         /\ state[call[c].conn] # None
         /\ \A d \in Callers \ {c} :
               pc[d] \in {"joining", "counting"} => call[d].conn # call[c].conn
         /\ pc[c] = "joining" /\ handshake[call[c].conn] = "panic" =>
               state[call[c].conn] = "Initializing"
         /\ pc[c] = "counting" => /\ handshake[call[c].conn] = "panic"
                                  /\ state[call[c].conn] = "Failed"
<1> DEFINE n == call[c].conn
<1>1. /\ call[c] \in Call /\ n \in Connections /\ call[c].server \in Servers
      /\ server_of[n] = call[c].server /\ state[n] # None
  BY HandleFacts DEF HasHandle
<1>2. \A d \in Callers \ {c} : pc[d] \in {"joining", "counting"} => call[d].conn # n
  BY DEF IInv, CallersInv, OneJoins
<1>3. handshake[n] = "panic" => state[n] \in {"Initializing", "Failed"}
  BY <1>1 DEF IInv, PoolInv, HandshakeOfStart
<1>4. handshake[n] = "panic" /\ state[n] = "Failed" =>
         \E d \in Callers : pc[d] = "counting" /\ call[d].conn = n
  BY <1>1 DEF IInv, PanicSeen
<1>5. pc[c] = "counting" => handshake[n] = "panic" /\ state[n] = "Failed"
  BY DEF IInv, CallersInv, CallsKnown
<1>6. QED
  BY <1>1, <1>2, <1>3, <1>4, <1>5

(* What a start that ended makes of the count.                              *)
LEMMA CountOfStart ==
  ASSUME IInv, NEW c \in Callers, pc[c] \in {"joining", "counting"}, CountStart(c),
         handshake[call[c].conn] \in {"ok", "error", "panic"}
  PROVE  LET n == call[c].conn  s == call[c].server IN
         /\ panic_count' \in [Servers -> Nat]
         /\ \/ handshake[n] = "ok" /\ panic_count' = [panic_count EXCEPT ![s] = 0]
            \/ /\ handshake[n] = "panic"
               /\ panic_count' = [panic_count EXCEPT ![s] = panic_count[s] + 1]
            \/ handshake[n] = "error" /\ panic_count' = panic_count
         /\ handshake' = [handshake EXCEPT ![n] = "joined"]
         /\ overtaken \subseteq overtaken' /\ overtaken' \subseteq overtaken \cup {s}
         /\ s \notin overtaken' => \A m \in Uncounted(s) : ~(m < n)
<1> DEFINE n == call[c].conn
           s == call[c].server
           k == CASE handshake[n] = "ok" -> 0
                  [] handshake[n] = "panic" -> panic_count[s] + 1
                  [] OTHER -> panic_count[s]
<1>1. panic_count' = [panic_count EXCEPT ![s] = k]
  BY DEF CountStart, CountPanics
<1>2. s \in Servers /\ panic_count \in [Servers -> Nat]
  BY JoinFacts, Types
<1>3. \/ handshake[n] = "ok" /\ k = 0
      \/ handshake[n] = "panic" /\ k = panic_count[s] + 1
      \/ handshake[n] = "error" /\ k = panic_count[s]
  OBVIOUS
<1>4. /\ handshake' = [handshake EXCEPT ![n] = "joined"]
      /\ overtaken' = IF \E m \in Uncounted(s) : m < n THEN overtaken \cup {s}
                                                       ELSE overtaken
  BY DEF CountStart
<1> HIDE DEF k, n, s
<1>5. panic_count' \in [Servers -> Nat]
  BY <1>1, <1>2, <1>3
<1>6. k = panic_count[s] => panic_count' = panic_count
  BY <1>1, <1>2
<1>7. /\ overtaken \subseteq overtaken' /\ overtaken' \subseteq overtaken \cup {s}
      /\ s \notin overtaken' => \A m \in Uncounted(s) : ~(m < n)
  BY <1>4
<1>8. QED
  BY <1>1, <1>3, <1>4, <1>5, <1>6, <1>7 DEF n, s

LEMMA CountStartInv ==
  ASSUME IInv, NEW c \in Callers, pc[c] \in {"joining", "counting"}, CountStart(c),
         handshake[call[c].conn] \in {"ok", "error", "panic"},
         handshake[call[c].conn] = "panic" => pc[c] = "counting",
         UNCHANGED <<connections, state, server_of, hung, counted, cancelVars>>,
         NEW l \in {"watching", "holding", "done"}, NEW new, Moves(c, l, new),
         SameCall(c, new), l # "done" => new = call[c]
  PROVE  IInv'
<1> DEFINE n == call[c].conn
<1>1. /\ n \in Connections /\ call[c].server \in Servers
      /\ server_of[n] = call[c].server /\ state[n] # None
      /\ \A d \in Callers \ {c} :
            pc[d] \in {"joining", "counting"} => call[d].conn # n
      /\ pc[c] = "counting" => state[n] = "Failed"
  BY JoinFacts
<1>2. /\ panic_count' \in [Servers -> Nat]
      /\ handshake' = [handshake EXCEPT ![n] = "joined"]
      /\ overtaken' \subseteq overtaken \cup {call[c].server}
  BY CountOfStart
<1> HIDE DEF n
<1>3. StartedStay
  BY DEF StartedStay
<1>4. \A d \in Callers \ {c} : pc[d] = "counting" => PanicsStay(call[d].conn)
  BY <1>1, <1>2, Types, HandleFacts DEF PanicsStay, HasHandle
<1>5. /\ pc' \in [Callers -> Places] /\ call' \in [Callers -> Call \cup {None}]
      /\ CallersInv'
  BY <1>1, <1>3, <1>4, MoveKeepsCallers DEF SameCall, Places, HasHandle, n
<1>6. /\ handshake' \in [Connections ->
                     {"none", "running", "ok", "error", "panic", "joined"}]
      /\ overtaken' \subseteq Servers
  BY <1>1, <1>2, Types
<1>7. HandshakeOfStart'
  <2>1. handshake[n] \in {"ok", "error", "panic"} /\ state[n] # "Initializing"
    BY <1>1 DEF IInv, PoolInv, HandshakeOfStart, n
  <2>2. QED
    BY <1>1, <1>2, <2>1, Types DEF IInv, PoolInv, HandshakeOfStart
<1>8. PoolByName' /\ OneOfEachServer'
  BY DEF IInv, PoolInv, PoolByName, OneOfEachServer
<1>9. PanicSeen'
  <2> SUFFICES ASSUME NEW m \in Connections, handshake'[m] = "panic",
                      state[m] = "Failed"
               PROVE  \E d \in Callers : pc'[d] = "counting" /\ call'[d].conn = m
    BY DEF PanicSeen
  <2>1. m # n /\ handshake[m] = "panic"
    BY <1>1, <1>2, Types
  <2>2. PICK d \in Callers : pc[d] = "counting" /\ call[d].conn = m
    BY <2>1 DEF IInv, PanicSeen
  <2>3. d # c
    BY <2>1, <2>2 DEF n
  <2>4. QED
    BY <2>2, <2>3, Types DEF Moves
<1>10. QED
  BY <1>2, <1>5, <1>6, <1>7, <1>8, <1>9, Types DEF IInv, TypeOK, PoolInv, cancelVars

LEMMA JoinInv ==
  ASSUME IInv, NEW c \in Callers, Join(c) PROVE IInv'
<1> DEFINE n == call[c].conn
<1>1. /\ pc[c] = "joining"
      /\ UNCHANGED <<connections, server_of, hung, counted, cancelVars>>
  BY DEF Join
<1>2. CASE handshake[n] = "ok" /\ CountStart(c) /\ Goto(c, Obtained(c))
           /\ UNCHANGED <<state, call>>
  <2>1. Moves(c, Obtained(c), call[c]) /\ SameCall(c, call[c])
    BY <1>1, <1>2, GoesTo
  <2>2. Obtained(c) \in {"watching", "holding", "done"}
    BY DEF Obtained
  <2>3. QED
    BY <1>1, <1>2, <2>1, <2>2, CountStartInv
<1>3. CASE handshake[n] = "error" /\ CountStart(c) /\ Return(c, "ended")
           /\ UNCHANGED state
  <2>1. PICK new : Moves(c, "done", new) /\ SameCall(c, new)
    BY <1>1, <1>3, Returns
  <2>2. QED
    BY <1>1, <1>3, <2>1, CountStartInv
<1>4. CASE handshake[n] = "panic" /\ SetFailed(n) /\ Goto(c, "counting")
           /\ UNCHANGED <<handshake, panic_count, overtaken, call>>
  <2>1. /\ n \in Connections /\ server_of[n] = call[c].server
        /\ call[c] \in Call /\ state[n] = "Initializing" /\ handshake[n] = "panic"
        /\ \A d \in Callers \ {c} :
              pc[d] \in {"joining", "counting"} => call[d].conn # n
    BY <1>1, <1>4, JoinFacts
  <2>2. Moves(c, "counting", call[c])
    BY <1>1, <1>4, GoesTo
  <2>3. state' = [state EXCEPT ![n] = "Failed"]
    BY <1>4 DEF SetFailed
  <2>4. n \notin hung
    BY <2>1 DEF IInv, PoolInv, HandshakeOfStart
  <2>5. UNCHANGED <<handshake, panic_count, overtaken>>
    BY <1>4
  <2> HIDE DEF n
  <2>6. /\ state' \in [Connections -> States \cup {None}] /\ state'[n] = "Failed"
        /\ \A m \in Connections : m # n => state'[m] = state[m]
    BY <2>1, <2>3, Types DEF States
  <2>7. StartedStay
    BY <1>1, <2>6, NoneApart DEF StartedStay, States
  <2>8. \A d \in Callers \ {c} : pc[d] = "counting" => PanicsStay(call[d].conn)
    BY <2>1, <2>5, <2>6, HandleFacts DEF PanicsStay, HasHandle
  <2>9. state'[n] # None
    BY <2>6, NoneApart DEF States
  <2>10. /\ pc' \in [Callers -> Places] /\ call' \in [Callers -> Call \cup {None}]
         /\ CallersInv'
    BY <1>1, <2>1, <2>2, <2>5, <2>6, <2>7, <2>8, <2>9, MoveKeepsCallers
    DEF Places, HasHandle, n
  <2>11. HandshakeOfStart'
    BY <1>1, <2>1, <2>4, <2>5, <2>6, <2>9 DEF IInv, PoolInv, HandshakeOfStart
  <2>12. PoolByName' /\ OneOfEachServer'
    BY <1>1, <2>6, <2>7, Types
    DEF IInv, PoolInv, PoolByName, OneOfEachServer, StartedStay
  <2>13. PanicSeen'
    <3> SUFFICES ASSUME NEW m \in Connections, handshake[m] = "panic",
                        state'[m] = "Failed"
                 PROVE  \E d \in Callers : pc'[d] = "counting" /\ call'[d].conn = m
      BY <2>5 DEF PanicSeen
    <3>1. CASE m = n
      BY <2>2, <3>1, Types DEF Moves, n
    <3>2. CASE m # n
      <4>1. PICK d \in Callers : pc[d] = "counting" /\ call[d].conn = m
        BY <2>6, <3>2 DEF IInv, PanicSeen
      <4>2. QED
        BY <1>1, <2>2, <4>1, Types DEF Moves
    <3>3. QED
      BY <3>1, <3>2
  <2>14. QED
    BY <1>1, <2>5, <2>6, <2>10, <2>11, <2>12, <2>13, Types
    DEF IInv, TypeOK, PoolInv, cancelVars
<1>5. QED
  BY <1>2, <1>3, <1>4 DEF Join

LEMMA CountPanicInv ==
  ASSUME IInv, NEW c \in Callers, CountPanic(c) PROVE IInv'
<1>1. /\ pc[c] = "counting" /\ CountStart(c) /\ Return(c, "ended")
      /\ UNCHANGED <<connections, state, server_of, hung, counted, cancelVars>>
  BY DEF CountPanic
<1>2. PICK new : Moves(c, "done", new) /\ SameCall(c, new)
  BY <1>1, Returns
<1>3. handshake[call[c].conn] = "panic"
  BY <1>1, JoinFacts
<1>4. QED
  BY <1>1, <1>2, <1>3, CountStartInv

LEMMA NextInv == IInv /\ [Next]_vars => IInv'
<1> SUFFICES ASSUME IInv, [Next]_vars PROVE IInv'
  OBVIOUS
<1>1. CASE UNCHANGED vars
  <2>1. PoolInv' /\ PanicSeen'
    BY <1>1, PoolStays DEF vars, callerVars
  <2>2. CallersInv'
    BY <1>1 DEF vars, poolVars, callerVars, IInv, CallersInv, CallsKnown, OneJoins,
       OneDecides
  <2>3. QED
    BY <1>1, <2>1, <2>2, Types DEF IInv, TypeOK, vars, poolVars, cancelVars, callerVars
<1>2. ASSUME NEW c \in Callers, TakeLock(c) \/ Advance(c) \/ NoticeHung(c) \/ DropFuture(c)
      PROVE  IInv'
  BY <1>2, TakeLockInv, GetOrCreateInv, JoinInv, CountPanicInv, CallInv, NoticeHungInv
  DEF Advance
<1>3. ASSUME NEW n \in Connections, HandshakeEnds(n) \/ LivenessTimeout(n) PROVE IInv'
  BY <1>3, HandshakeEndsInv, LivenessTimeoutInv
<1>4. QED
  BY <1>1, <1>2, <1>3 DEF Next

LEMMA Invariance == Spec => []IInv
<1>1. IInv /\ [Next]_vars => IInv'
  BY NextInv
<1>2. QED
  BY InitInv, <1>1, PTL DEF Spec
-----------------------------------------------------------------------------
(* The pool, its registries and its callers have their types.               *)
THEOREM TypeCorrect == Spec => []TypeOK
<1>1. IInv => TypeOK
  BY DEF IInv
<1>2. QED
  BY Invariance, <1>1, PTL

(* A connection that starts or serves is the one under its server's name:   *)
(* for any number of callers, whatever of them is dropped where, and        *)
(* whichever connections hang and are replaced.                             *)
THEOREM OneConnectionOfEach == Spec => []OneOfEachServer
<1>1. IInv => OneOfEachServer
  BY DEF IInv, PoolInv
<1>2. QED
  BY Invariance, <1>1, PTL

(* The types, and one connection of each server.                            *)
THEOREM PoolIsSafe == Spec => []PoolSafe
BY TypeCorrect, OneConnectionOfEach, PTL DEF PoolSafe
-----------------------------------------------------------------------------
(* The refinement: what each step is to the breaker of its server.          *)
starting == {s \in Servers : StateOf(s) = "Initializing"}
Counting(s) == {c \in Callers : pc[c] = "counting" /\ call[c].server = s}
uncounted == [s \in Servers |-> Cardinality(Counting(s))]
asking == {s \in Servers : \E c \in Callers :
             pc[c] = "deciding" /\ call[c].server = s /\ ~Disabled(c)}

breaker == <<starting, asking, uncounted, panic_count>>

LEMMA Finite ==
  /\ \A s : IsFiniteSet(Counting(s))
  /\ \A S \in SUBSET Connections : IsFiniteSet(S)
<1>1. IsFiniteSet(1 .. MaxCallers)
  BY FS_Interval, PoolAssumption
<1>2. IsFiniteSet(Callers) /\ IsFiniteSet(Connections)
  BY <1>1 DEF Callers, Connections
<1>3. \A s : Counting(s) \subseteq Callers
  BY DEF Counting
<1>4. QED
  BY <1>2, <1>3, FS_Subset

LEMMA SameStarts ==
  ASSUME UNCHANGED <<connections, state>>
  PROVE  starting' = starting
BY DEF starting, StateOf

(* Steps of callers that neither decide nor count.                          *)
LEMMA SameCallers ==
  ASSUME \A c \in Callers :
            /\ pc[c] \in {"counting", "deciding"} \/ pc'[c] \in {"counting", "deciding"} =>
                  pc'[c] = pc[c] /\ call'[c] = call[c]
  PROVE  uncounted' = uncounted /\ asking' = asking
<1>1. \A s : Counting(s)' = Counting(s)
  BY DEF Counting
<1>2. asking' = asking
  BY DEF asking, Disabled
<1>3. QED
  BY <1>1, <1>2 DEF uncounted

(* Nobody but c decides; nobody counts otherwise.                           *)
LEMMA DecidersMove ==
  ASSUME IInv, NEW c \in Callers, NEW l, NEW new, Moves(c, l, new),
         pc[c] # "counting", l # "counting"
  PROVE  /\ uncounted' = uncounted
         /\ pc[c] = "deciding" /\ l # "deciding" => asking' = {}
         /\ pc[c] # "deciding" /\ l # "deciding" => asking' = asking
<1>1. /\ pc'[c] = l /\ call'[c] = new
      /\ \A d \in Callers \ {c} : pc'[d] = pc[d] /\ call'[d] = call[d]
  BY Types DEF Moves
<1>2. \A s : Counting(s)' = Counting(s)
  BY <1>1 DEF Counting
<1>3. pc[c] = "deciding" /\ l # "deciding" => \A d \in Callers : pc'[d] # "deciding"
  BY <1>1 DEF IInv, CallersInv, OneDecides
<1>4. pc[c] = "deciding" /\ l # "deciding" => asking' = {}
  BY <1>3 DEF asking
<1>5. pc[c] # "deciding" /\ l # "deciding" => asking' = asking
  BY <1>1 DEF asking, Disabled
<1>6. QED
  BY <1>2, <1>4, <1>5 DEF uncounted

LEMMA TakeLockAsks ==
  ASSUME IInv, NEW c \in Callers, TakeLock(c)
  PROVE  UNCHANGED breaker \/ \E s \in Servers : Breaker!Ask(s)
<1>1. PICK s \in Servers, u \in Upstreams \cup {None}, w \in BOOLEAN :
         call' = [call EXCEPT ![c] =
             [server |-> s, upstream |-> u, wait |-> w, panics |-> panic_count[s],
              conn |-> None, fate |-> "none"]]
  BY DEF TakeLock
<1>2. /\ pc[c] = "idle" /\ pc' = [pc EXCEPT ![c] = "deciding"] /\ PoolIsFree
      /\ UNCHANGED <<connections, state, panic_count>>
  BY DEF TakeLock, Goto, poolVars
<1>3. /\ pc'[c] = "deciding" /\ call'[c].server = s /\ call'[c].panics = panic_count[s]
      /\ \A d \in Callers \ {c} : /\ pc'[d] = pc[d] /\ call'[d] = call[d]
                                  /\ pc[d] # "deciding"
  BY <1>1, <1>2, Types DEF PoolIsFree
<1>4. \A r : Counting(r)' = Counting(r)
  BY <1>2, <1>3 DEF Counting
<1>5. uncounted' = uncounted
  BY <1>4 DEF uncounted
<1>6. asking = {}
  BY <1>2 DEF asking, PoolIsFree
<1>7. asking' = IF panic_count[s] < MaxPanics THEN {s} ELSE {}
  <2>1. Disabled(c)' <=> ~(panic_count[s] < MaxPanics)
    BY <1>3, Types, PoolAssumption DEF Disabled
  <2>2. asking' = {r \in Servers : r = s /\ ~Disabled(c)'}
    BY <1>3 DEF asking
  <2>3. QED
    BY <2>1, <2>2
<1>8. starting' = starting
  BY <1>2, SameStarts
<1>9. CASE panic_count[s] < MaxPanics
  BY <1>2, <1>5, <1>6, <1>7, <1>8, <1>9
  DEF Breaker!Ask, starting, asking, uncounted, Counting
<1>10. CASE ~(panic_count[s] < MaxPanics)
  BY <1>2, <1>5, <1>6, <1>7, <1>8, <1>10 DEF breaker
<1>11. QED
  BY <1>9, <1>10

LEMMA GetOrCreateStarts ==
  ASSUME IInv, NEW c \in Callers, GetOrCreate(c)
  PROVE  Breaker!GiveUp \/ \E s \in Servers : Breaker!Start(s)
<1> DEFINE s == call[c].server
<1>1. pc[c] = "deciding" /\ s \in Servers
  BY HandleFacts DEF GetOrCreate
<1>2. PICK l, new : /\ l \in {"joining", "looking", "watching", "holding", "done"}
                    /\ Moves(c, l, new)
  <2>1. CASE \E n \in Connections \cup {None},
                m \in {"joining", "looking", "watching", "holding"} : Enter(c, m, n)
    BY <1>1, <2>1, Enters
  <2>2. CASE Return(c, "ended")
    BY <1>1, <2>2, Returns
  <2>3. connections[s] \in Connections \cup {None}
    BY <1>1, Types
  <2>4. Obtained(c) \in {"watching", "holding"}
    BY DEF Obtained
  <2>5. QED
    BY <2>1, <2>2, <2>3, <2>4 DEF GetOrCreate
<1>3. uncounted' = uncounted /\ asking' = {}
  BY <1>1, <1>2, DecidersMove
<1>4. CASE UNCHANGED poolVars
  <2>1. starting' = starting /\ panic_count' = panic_count
    BY <1>4, SameStarts DEF poolVars
  <2>2. QED
    BY <1>3, <2>1 DEF Breaker!GiveUp, starting, asking, uncounted, Counting
<1>5. CASE SpawnsNew(c) /\ SpawnFails(s)
  <2>1. /\ connections' = [connections EXCEPT ![s] = None] /\ state' = state
        /\ panic_count' = panic_count
    BY <1>5 DEF SpawnFails
  <2>2. s \notin starting /\ s \notin starting'
    BY <1>1, <1>5, <2>1, NoneApart, Types DEF SpawnsNew, starting, StateOf, States
  <2>3. \A r \in Servers \ {s} : r \in starting <=> r \in starting'
    BY <2>1, Types DEF starting, StateOf
  <2>4. starting' = starting
    BY <2>2, <2>3 DEF starting
  <2>5. QED
    BY <1>3, <2>1, <2>4 DEF Breaker!GiveUp, starting, asking, uncounted, Counting
<1>6. ASSUME NEW n \in Connections, SpawnsNew(c), SpawnServer(s, n)
      PROVE  Breaker!Start(s)
  <2>1. s \in asking
    BY <1>1, <1>6 DEF asking, SpawnsNew
  <2>2. s \notin starting
    BY <1>6, NoneApart DEF SpawnsNew, starting, States
  <2>3. /\ state' = [state EXCEPT ![n] = "Initializing"] /\ state[n] = None
        /\ connections' = [connections EXCEPT ![s] = n] /\ panic_count' = panic_count
    BY <1>6 DEF SpawnServer
  <2>4. starting' = starting \cup {s}
    <3>1. s \in starting'
      BY <1>1, <2>3, NoneApart, Types DEF starting, StateOf
    <3>2. \A r \in Servers \ {s} : r \in starting' <=> r \in starting
      BY <1>1, <2>3, NoneApart, Types DEF starting, StateOf, IInv, PoolInv, PoolByName
    <3>3. QED
      BY <1>1, <3>1, <3>2 DEF starting
  <2>5. QED
    BY <1>3, <2>1, <2>2, <2>3, <2>4
    DEF Breaker!Start, starting, asking, uncounted, Counting
<1>7. \/ UNCHANGED poolVars
      \/ SpawnsNew(c) /\ SpawnFails(s)
      \/ \E n \in Connections : SpawnsNew(c) /\ SpawnServer(s, n)
  BY DEF GetOrCreate
<1>8. CASE \E n \in Connections : SpawnsNew(c) /\ SpawnServer(s, n)
  <2>1. Breaker!Start(s)
    BY <1>6, <1>8
  <2>2. QED
    BY <1>1, <2>1 DEF Breaker!Start
<1>9. QED
  BY <1>4, <1>5, <1>7, <1>8

LEMMA HandshakeEndsStart ==
  ASSUME IInv, NEW n \in Connections, HandshakeEnds(n)
  PROVE  UNCHANGED breaker \/ \E s \in Servers : Breaker!End(s)
<1>1. /\ state[n] = "Initializing" /\ server_of[n] \in Servers
      /\ connections[server_of[n]] = n
  BY NoneApart
  DEF IInv, PoolInv, HandshakeOfStart, OneOfEachServer, HandshakeEnds, States
<1>2. UNCHANGED <<connections, panic_count, pc, call>>
  BY DEF HandshakeEnds, callerVars
<1>3. uncounted' = uncounted /\ asking' = asking
  BY <1>2, SameCallers
<1>4. CASE UNCHANGED state
  BY <1>2, <1>3, <1>4, SameStarts DEF breaker
<1>5. CASE \E st \in {"Ready", "Failed"} : state' = [state EXCEPT ![n] = st]
  <2>1. server_of[n] \in starting /\ starting' = starting \ {server_of[n]}
    BY <1>1, <1>2, <1>5, NoneApart, Types
    DEF starting, StateOf, IInv, PoolInv, PoolByName, States
  <2>2. Breaker!End(server_of[n])
    BY <1>2, <1>3, <2>1 DEF Breaker!End, starting, asking, uncounted, Counting
  <2>3. QED
    BY <1>1, <2>2
<1>6. QED
  BY <1>4, <1>5 DEF HandshakeEnds

LEMMA NoticeHungStarts ==
  ASSUME IInv, NEW c \in Callers, NoticeHung(c)
  PROVE  UNCHANGED breaker
<1>1. PICK n \in hung : /\ state' = [state EXCEPT ![n] = "Failed"]
                        /\ UNCHANGED <<connections, panic_count, pc, call>>
  BY DEF NoticeHung, callerVars
<1>2. n \in Connections /\ state[n] = "Ready"
  BY Types DEF IInv, PoolInv, HandshakeOfStart
<1>3. \A m \in Connections : state'[m] = "Initializing" <=> state[m] = "Initializing"
  BY <1>1, <1>2, Types
<1>4. starting' = starting
  BY <1>1, <1>3, NoneApart, Types DEF starting, StateOf, States
<1>5. uncounted' = uncounted /\ asking' = asking
  BY <1>1, SameCallers
<1>6. QED
  BY <1>1, <1>4, <1>5 DEF breaker

(* One more panic is to be counted, or one less.                            *)
LEMMA OneMore ==
  ASSUME IInv, NEW c \in Callers, NEW s \in Servers, call[c].server = s,
         pc[c] = "joining", Moves(c, "counting", call[c])
  PROVE  /\ uncounted' = [uncounted EXCEPT ![s] = @ + 1] /\ asking' = asking
<1>1. /\ pc'[c] = "counting" /\ call'[c] = call[c]
      /\ \A d \in Callers \ {c} : pc'[d] = pc[d] /\ call'[d] = call[d]
  BY Types DEF Moves
<1>2. /\ Counting(s)' = Counting(s) \cup {c} /\ c \notin Counting(s)
      /\ \A r \in Servers \ {s} : Counting(r)' = Counting(r)
  BY <1>1 DEF Counting
<1>3. Cardinality(Counting(s)') = Cardinality(Counting(s)) + 1
  BY <1>2, Finite, FS_AddElement
<1>4. uncounted' = [uncounted EXCEPT ![s] = @ + 1]
  BY <1>2, <1>3 DEF uncounted
<1>5. asking' = asking
  BY <1>1 DEF asking, Disabled
<1>6. QED
  BY <1>4, <1>5

LEMMA OneLess ==
  ASSUME IInv, NEW c \in Callers, NEW s \in Servers, call[c].server = s,
         pc[c] = "counting", NEW new, Moves(c, "done", new)
  PROVE  /\ uncounted[s] > 0
         /\ uncounted' = [uncounted EXCEPT ![s] = @ - 1] /\ asking' = asking
<1>1. /\ pc'[c] = "done"
      /\ \A d \in Callers \ {c} : pc'[d] = pc[d] /\ call'[d] = call[d]
  BY Types DEF Moves
<1>2. /\ Counting(s)' = Counting(s) \ {c} /\ c \in Counting(s)
      /\ \A r \in Servers \ {s} : Counting(r)' = Counting(r)
  BY <1>1 DEF Counting
<1>3. /\ Cardinality(Counting(s)') = Cardinality(Counting(s)) - 1
      /\ Cardinality(Counting(s)) \in Nat
  BY <1>2, Finite, FS_RemoveElement, FS_CardinalityType
<1>4. Cardinality(Counting(s)) # 0
  BY <1>2, Finite, FS_EmptySet
<1>5. uncounted' = [uncounted EXCEPT ![s] = @ - 1]
  BY <1>2, <1>3 DEF uncounted
<1>6. uncounted[s] > 0
  BY <1>3, <1>4 DEF uncounted
<1>7. asking' = asking
  BY <1>1 DEF asking, Disabled
<1>8. QED
  BY <1>5, <1>6, <1>7

LEMMA JoinPanicsOrResets ==
  ASSUME IInv, NEW c \in Callers, Join(c)
  PROVE  \/ UNCHANGED breaker
         \/ \E s \in Servers : Breaker!Panic(s) \/ Breaker!Reset(s)
<1> DEFINE n == call[c].conn
           s == call[c].server
<1>1. /\ pc[c] = "joining" /\ connections' = connections
      /\ n \in Connections /\ s \in Servers /\ server_of[n] = s
      /\ handshake[n] = "panic" => state[n] = "Initializing"
  BY JoinFacts DEF Join
<1>2. CASE \/ handshake[n] = "ok" /\ CountStart(c)
              /\ Goto(c, Obtained(c)) /\ UNCHANGED <<state, call>>
           \/ handshake[n] = "error" /\ CountStart(c)
              /\ Return(c, "ended") /\ UNCHANGED state
  <2>1. PICK l, new : l \in {"watching", "holding", "done"} /\ Moves(c, l, new)
    <3>1. CASE Goto(c, Obtained(c)) /\ UNCHANGED call
      BY <1>1, <3>1, GoesTo DEF Obtained
    <3>2. CASE Return(c, "ended")
      BY <1>1, <3>2, Returns
    <3>3. QED
      BY <1>2, <3>1, <3>2
  <2>2. uncounted' = uncounted /\ asking' = asking
    BY <1>1, <2>1, DecidersMove
  <2>3. starting' = starting
    BY <1>1, <1>2, SameStarts
  <2>4. \/ panic_count' = [panic_count EXCEPT ![s] = 0]
        \/ panic_count' = panic_count
    BY <1>1, <1>2, CountOfStart
  <2>5. QED
    BY <1>1, <2>2, <2>3, <2>4
    DEF Breaker!Reset, breaker, starting, asking, uncounted, Counting
<1>3. CASE /\ handshake[n] = "panic" /\ SetFailed(n)
           /\ Goto(c, "counting") /\ UNCHANGED <<handshake, panic_count, overtaken, call>>
  <2>1. uncounted' = [uncounted EXCEPT ![s] = @ + 1] /\ asking' = asking
    BY <1>1, <1>3, GoesTo, OneMore
  <2>2. connections[s] = n
    BY <1>1, <1>3 DEF IInv, PoolInv, OneOfEachServer
  <2>3. s \in starting /\ starting' = starting \ {s}
    BY <1>1, <1>3, <2>2, NoneApart, Types
    DEF SetFailed, starting, StateOf, IInv, PoolInv, PoolByName, States
  <2>4. panic_count' = panic_count
    BY <1>3
  <2> HIDE DEF s
  <2>5. Breaker!Panic(s)
    BY <2>1, <2>3, <2>4 DEF Breaker!Panic, starting, asking, uncounted, Counting
  <2>6. QED
    BY <1>1, <2>5
<1>4. QED
  BY <1>2, <1>3 DEF Join

LEMMA CountPanicCounts ==
  ASSUME IInv, NEW c \in Callers, CountPanic(c)
  PROVE  \E s \in Servers : Breaker!Count(s)
<1> DEFINE s == call[c].server
<1>1. /\ pc[c] = "counting" /\ s \in Servers /\ handshake[call[c].conn] = "panic"
      /\ CountStart(c) /\ Return(c, "ended") /\ UNCHANGED <<connections, state>>
  BY JoinFacts DEF CountPanic
<1>2. PICK new : Moves(c, "done", new)
  BY <1>1, Returns
<1>3. /\ uncounted[s] > 0
      /\ uncounted' = [uncounted EXCEPT ![s] = @ - 1] /\ asking' = asking
  BY <1>1, <1>2, OneLess
<1>4. panic_count' = [panic_count EXCEPT ![s] = @ + 1]
  BY <1>1, CountOfStart
<1>5. starting' = starting
  BY <1>1, SameStarts
<1> HIDE DEF s
<1>6. Breaker!Count(s)
  BY <1>3, <1>4, <1>5 DEF Breaker!Count, starting, asking, uncounted, Counting
<1>7. QED
  BY <1>1, <1>6

LEMMA BreakerStep ==
  ASSUME IInv, [Next]_vars
  PROVE  [Breaker!Next]_breaker
<1>1. CASE UNCHANGED vars
  <2>1. uncounted' = uncounted /\ asking' = asking
    BY <1>1, SameCallers DEF vars, callerVars
  <2>2. QED
    BY <1>1, <2>1, SameStarts DEF vars, poolVars, breaker
<1>2. ASSUME NEW c \in Callers,
             \/ LookAgain(c) \/ WaitForReady(c) \/ StartedInAdvance(c)
             \/ Send(c) \/ Settle(c) \/ Finish(c) \/ DropFuture(c)
      PROVE  UNCHANGED breaker
  <2>1. /\ pc[c] \in {"looking", "watching", "holding", "sent", "settled", "joining"}
        /\ UNCHANGED <<connections, state, panic_count>>
    BY <1>2 DEF LookAgain, WaitForReady, StartedInAdvance, DropFuture, Send, Settle,
       Finish, poolVars
  <2>2. PICK l, new : /\ l \in {"watching", "holding", "sent", "settled", "done"}
                      /\ Moves(c, l, new)
    <3>1. CASE \E f \in {"ended", "dropped"} : Return(c, f)
      BY <2>1, <3>1, Returns
    <3>2. CASE \E m \in {"holding", "sent", "settled"} : Goto(c, m) /\ UNCHANGED call
      BY <2>1, <3>2, GoesTo
    <3>3. CASE Enter(c, "watching", connections[call[c].server])
      BY <2>1, <3>3, Enters, HandleFacts, Types
    <3>4. QED
      BY <1>2, <3>1, <3>2, <3>3
      DEF LookAgain, WaitForReady, StartedInAdvance, DropFuture, Send, Settle, Finish
  <2>3. uncounted' = uncounted /\ asking' = asking
    BY <2>1, <2>2, DecidersMove
  <2>4. QED
    BY <2>1, <2>3, SameStarts DEF breaker
<1>3. ASSUME NEW n \in Connections, LivenessTimeout(n) PROVE UNCHANGED breaker
  <2>1. /\ UNCHANGED <<connections, state, panic_count, call>>
        /\ \A c \in Callers : pc'[c] # pc[c] => pc'[c] = "settled" /\ pc[c] = "sent"
    BY <1>3, Types DEF LivenessTimeout
  <2>2. uncounted' = uncounted /\ asking' = asking
    BY <2>1, SameCallers
  <2>3. QED
    BY <2>1, <2>2, SameStarts DEF breaker
<1>4. QED
  BY <1>1, <1>2, <1>3, TakeLockAsks, GetOrCreateStarts, HandshakeEndsStart,
     NoticeHungStarts, JoinPanicsOrResets, CountPanicCounts
  DEF Next, Advance, Breaker!Next

(* The pool implements the circuit breaker: one start of a server at a      *)
(* time, none by a caller that found MAX_CONSECUTIVE_PANICS counted when it *)
(* took the lock, each panic counted once, after the start has ended.       *)
THEOREM PoolImplementsBreaker == Spec => ImplementsBreaker
<1>1. Init => Breaker!Init
  <2> SUFFICES ASSUME Init PROVE Breaker!Init
    OBVIOUS
  <2>1. starting = {} /\ asking = {} /\ panic_count = [s \in Servers |-> 0]
    BY NoneApart DEF Init, starting, asking, StateOf, States
  <2>2. \A s \in Servers : Counting(s) = {}
    BY DEF Init, Counting
  <2>3. uncounted = [s \in Servers |-> 0]
    BY <2>2, FS_EmptySet DEF uncounted
  <2>4. QED
    BY <2>1, <2>3 DEF Breaker!Init, starting, asking, uncounted, Counting
<1>2. IInv /\ [Next]_vars => [Breaker!Next]_breaker
  BY BreakerStep
<1>3. QED
  BY Invariance, <1>1, <1>2, PTL
  DEF Spec, ImplementsBreaker, Breaker!Spec, Breaker!breakerVars, breaker, starting,
      asking, uncounted, Counting
-----------------------------------------------------------------------------
(* The count of panics.  Connections are started in the order of their      *)
(* names, and of a server one after the other.                              *)
InOrder ==
  \A n, m \in Connections :
     /\ state[n] # None /\ m < n => state[m] # None
     /\ handshake[n] = "running" /\ state[m] # None /\ server_of[m] = server_of[n] =>
           m <= n

(* The panics that are still to be counted and will not be reset.           *)
Resets(s) == \E n \in Uncounted(s) : handshake[n] = "ok"

Late(s) ==
  {n \in Uncounted(s) : /\ handshake[n] = "panic"
                        /\ \A m \in Uncounted(s) : handshake[m] = "ok" => m < n}

(* As long as starts are counted in the order in which they ended, the      *)
(* count will be that of the panics since the last success.                 *)
Counts ==
  \A s \in Servers \ overtaken :
     counted[s] = (IF Resets(s) THEN 0 ELSE panic_count[s]) + Cardinality(Late(s))

CountInv == InOrder /\ Counts

LEMMA InitCounts == Init => CountInv
<1> SUFFICES ASSUME Init PROVE CountInv
  OBVIOUS
<1>1. \A s \in Servers : Uncounted(s) = {}
  BY DEF Init, Uncounted
<1>2. \A s \in Servers : ~Resets(s) /\ Cardinality(Late(s)) = 0
  BY <1>1, FS_EmptySet DEF Resets, Late
<1>3. Counts
  BY <1>2 DEF Init, Counts
<1>4. InOrder
  BY DEF Init, InOrder
<1>5. QED
  BY <1>3, <1>4 DEF CountInv

LEMMA ConnectionsAreNumbers == Connections \subseteq Nat
BY PoolAssumption DEF Connections

LEMMA LateFacts ==
  ASSUME NEW s
  PROVE  /\ Uncounted(s) \subseteq Connections /\ Late(s) \subseteq Uncounted(s)
         /\ IsFiniteSet(Late(s)) /\ Cardinality(Late(s)) \in Nat
<1>1. Uncounted(s) \subseteq Connections /\ Late(s) \subseteq Uncounted(s)
  BY DEF Uncounted, Late
<1>2. IsFiniteSet(Late(s))
  BY <1>1, Finite
<1>3. QED
  BY <1>1, <1>2, FS_CardinalityType

(* Steps that end no start and count none.                                  *)
LEMMA SameCounts ==
  ASSUME CountInv, NEW s \in Servers \ overtaken,
         Uncounted(s)' = Uncounted(s),
         \A n \in Uncounted(s) : handshake'[n] = handshake[n],
         counted'[s] = counted[s], panic_count'[s] = panic_count[s]
  PROVE  counted'[s] = (IF Resets(s)' THEN 0 ELSE panic_count'[s])
                         + Cardinality(Late(s)')
<1>1. Resets(s)' <=> Resets(s)
  BY DEF Resets
<1>2. Late(s)' = Late(s)
  BY DEF Late
<1>3. QED
  BY <1>1, <1>2 DEF CountInv, Counts

LEMMA SpawnKeepsCounts ==
  ASSUME IInv, CountInv, NEW s \in Servers, NEW n \in Connections,
         StateOf(s) \in {None, "Failed"}, SpawnServer(s, n)
  PROVE  CountInv'
<1>1. /\ state[n] = None /\ handshake[n] = "none"
      /\ \A m \in 1 .. (n - 1) : state[m] # None
      /\ state' = [state EXCEPT ![n] = "Initializing"]
      /\ server_of' = [server_of EXCEPT ![n] = s]
      /\ handshake' = [handshake EXCEPT ![n] = "running"]
      /\ UNCHANGED <<panic_count, counted, overtaken>>
  BY DEF SpawnServer, IInv, PoolInv, HandshakeOfStart
<1>2. \A m \in Connections : state[m] # None => m < n
  BY <1>1, ConnectionsAreNumbers DEF CountInv, InOrder
<1>3. \A m \in Connections : handshake[m] = "running" => server_of[m] # s
  <2> SUFFICES ASSUME NEW m \in Connections, handshake[m] = "running", server_of[m] = s
               PROVE  FALSE
    OBVIOUS
  <2>1. state[m] = "Initializing" /\ connections[s] = m
    BY DEF IInv, PoolInv, HandshakeOfStart, OneOfEachServer
  <2>2. QED
    BY <2>1, NoneApart DEF StateOf, States
<1>4. InOrder'
  <2> SUFFICES ASSUME NEW m \in Connections, NEW k \in Connections
               PROVE  /\ state'[m] # None /\ k < m => state'[k] # None
                      /\ handshake'[m] = "running" /\ state'[k] # None
                           /\ server_of'[k] = server_of'[m] => k <= m
    BY DEF InOrder
  <2>1. state'[m] # None /\ k < m => state'[k] # None
    <3>1. CASE m = n
      <4>1. k < m => k \in 1 .. (n - 1)
        BY <3>1, ConnectionsAreNumbers DEF Connections
      <4>2. QED
        BY <1>1, <3>1, <4>1, NoneApart, Types DEF States
    <3>2. CASE m # n
      BY <1>1, <3>2, NoneApart, Types DEF CountInv, InOrder, States
    <3>3. QED
      BY <3>1, <3>2
  <2>2. handshake'[m] = "running" /\ state'[k] # None /\ server_of'[k] = server_of'[m]
           => k <= m
    <3>1. CASE m = n
      BY <1>1, <1>2, <3>1, ConnectionsAreNumbers, Types
    <3>2. CASE m # n /\ k = n
      BY <1>1, <1>3, <3>2, Types
    <3>3. CASE m # n /\ k # n
      BY <1>1, <3>3, Types DEF CountInv, InOrder
    <3>4. QED
      BY <3>1, <3>2, <3>3
  <2>3. QED
    BY <2>1, <2>2
<1>5. \A r \in Servers : /\ Uncounted(r)' = Uncounted(r)
                         /\ \A m \in Uncounted(r) : handshake'[m] = handshake[m]
  BY <1>1, Types DEF Uncounted
<1>6. Counts'
  BY <1>1, <1>5, SameCounts DEF Counts
<1>7. QED
  BY <1>4, <1>6 DEF CountInv

(* Steps that start nothing.                                                *)
LEMMA OrderStays ==
  ASSUME InOrder, StartedStay, UNCHANGED server_of,
         \A n \in Connections : /\ handshake'[n] = "running" => handshake[n] = "running"
                                /\ state'[n] # None => state[n] # None
  PROVE  InOrder'
BY DEF InOrder, StartedStay

LEMMA HandshakeKeepsCounts ==
  ASSUME IInv, CountInv, NEW n \in Connections, HandshakeEnds(n)
  PROVE  CountInv'
<1>0. PICK s \in Servers : s = server_of[n]
  BY NoneApart DEF HandshakeEnds, IInv, PoolInv, HandshakeOfStart, States
<1>1. /\ handshake[n] = "running" /\ state[n] = "Initializing" /\ server_of[n] = s
      /\ UNCHANGED <<server_of, panic_count, overtaken>>
  BY <1>0 DEF HandshakeEnds, IInv, PoolInv, HandshakeOfStart
<1>2. /\ \A m \in Connections : m # n => handshake'[m] = handshake[m] /\ state'[m] = state[m]
      /\ state'[n] \in States
  BY <1>1, Types DEF HandshakeEnds, States
<1>3. \/ handshake'[n] = "ok" /\ counted' = [counted EXCEPT ![s] = 0]
      \/ handshake'[n] = "error" /\ counted' = counted
      \/ handshake'[n] = "panic" /\ counted' = [counted EXCEPT ![s] = counted[s] + 1]
  BY <1>1, Types DEF HandshakeEnds
<1>4. StartedStay
  BY <1>1, <1>2, NoneApart DEF StartedStay, States
<1>5. InOrder'
  BY <1>1, <1>2, <1>3, <1>4, NoneApart, OrderStays DEF CountInv, States
<1>6. \A m \in Uncounted(s) : m \in Connections /\ m < n
  <2> SUFFICES ASSUME NEW m \in Uncounted(s) PROVE m \in Connections /\ m < n
    OBVIOUS
  <2>1. m \in Connections /\ server_of[m] = s /\ handshake[m] \in {"ok", "panic"}
    BY DEF Uncounted
  <2>2. m # n /\ state[m] # None
    BY <1>1, <2>1 DEF IInv, PoolInv, HandshakeOfStart
  <2>3. m <= n
    BY <1>1, <2>1, <2>2 DEF CountInv, InOrder
  <2>4. QED
    BY <2>1, <2>2, <2>3, ConnectionsAreNumbers
<1>7. n \in Nat /\ \A m \in Uncounted(s) : m \in Nat /\ ~(n < m) /\ m # n
  <2>1. n \in Nat
    BY ConnectionsAreNumbers
  <2>2. ASSUME NEW m \in Uncounted(s) PROVE m \in Nat /\ ~(n < m) /\ m # n
    <3>1. m \in Nat /\ m < n
      BY <1>6, ConnectionsAreNumbers
    <3>2. QED
      BY <2>1, <3>1
  <2>3. QED
    BY <2>1, <2>2
<1>8. ASSUME NEW r \in Servers, r # s
      PROVE  /\ Uncounted(r)' = Uncounted(r) /\ counted'[r] = counted[r]
             /\ \A m \in Uncounted(r) : handshake'[m] = handshake[m]
  BY <1>1, <1>2, <1>3, <1>8, Types DEF Uncounted
<1>9. ASSUME s \notin overtaken
      PROVE  counted'[s] = (IF Resets(s)' THEN 0 ELSE panic_count'[s])
                             + Cardinality(Late(s)')
  <2>1. n \notin Uncounted(s)
    BY <1>6, ConnectionsAreNumbers
  <2>2. counted[s] = (IF Resets(s) THEN 0 ELSE panic_count[s]) + Cardinality(Late(s))
    BY <1>1, <1>9 DEF CountInv, Counts
  <2>3. CASE handshake'[n] = "ok" /\ counted' = [counted EXCEPT ![s] = 0]
    <3>1. Uncounted(s)' = Uncounted(s) \cup {n}
      BY <1>1, <1>2, <2>3, Types DEF Uncounted
    <3>2. Resets(s)'
      BY <2>3, <3>1 DEF Resets
    <3>3. Late(s)' = {}
      <4> SUFFICES ASSUME NEW m \in Late(s)' PROVE FALSE
        OBVIOUS
      <4>1. m \in Uncounted(s)' /\ handshake'[m] = "panic" /\ n < m
        BY <2>3, <3>1 DEF Late
      <4>2. m = n
        BY <1>7, <3>1, <4>1
      <4>3. QED
        BY <1>7, <4>1, <4>2
    <3>4. QED
      BY <1>1, <2>3, <3>2, <3>3, FS_EmptySet, Types
  <2>4. CASE handshake'[n] = "error" /\ counted' = counted
    <3>1. /\ Uncounted(s)' = Uncounted(s)
          /\ \A m \in Uncounted(s) : handshake'[m] = handshake[m]
      BY <1>1, <1>2, <1>6, <2>1, <2>4 DEF Uncounted
    <3>2. QED
      BY <1>1, <1>9, <2>4, <3>1, SameCounts
  <2>5. CASE handshake'[n] = "panic" /\ counted' = [counted EXCEPT ![s] = counted[s] + 1]
    <3>1. Uncounted(s)' = Uncounted(s) \cup {n}
      BY <1>1, <1>2, <2>5, Types DEF Uncounted
    <3>2. \A m \in Uncounted(s) : handshake'[m] = handshake[m]
      BY <1>2, <1>6, <2>1
    <3>3. Resets(s)' <=> Resets(s)
      BY <2>5, <3>1, <3>2 DEF Resets
    <3>4. Late(s)' = Late(s) \cup {n} /\ n \notin Late(s)
      BY <1>6, <2>1, <2>5, <3>1, <3>2 DEF Late
    <3>5. Cardinality(Late(s)') = Cardinality(Late(s)) + 1
      BY <3>4, LateFacts, FS_AddElement
    <3>6. counted'[s] = counted[s] + 1
      BY <1>1, <2>5, Types
    <3>7. Cardinality(Late(s)) \in Nat /\ panic_count[s] \in Nat
      BY <1>1, LateFacts, Types
    <3>8. QED
      BY <1>1, <2>2, <3>3, <3>5, <3>6, <3>7
  <2>6. QED
    BY <1>3, <2>3, <2>4, <2>5
<1>10. Counts'
  <2> SUFFICES ASSUME NEW r \in Servers \ overtaken
               PROVE  counted'[r] = (IF Resets(r)' THEN 0 ELSE panic_count'[r])
                                      + Cardinality(Late(r)')
    BY <1>1 DEF Counts
  <2>1. CASE r = s
    BY <1>9, <2>1
  <2>2. CASE r # s
    BY <1>1, <1>8, <2>2, SameCounts
  <2>3. QED
    BY <2>1, <2>2
<1>11. QED
  BY <1>5, <1>10 DEF CountInv

(* A start is counted.                                                      *)
LEMMA CountStartKeepsCounts ==
  ASSUME IInv, CountInv, NEW c \in Callers, pc[c] \in {"joining", "counting"},
         CountStart(c), handshake[call[c].conn] \in {"ok", "error", "panic"},
         UNCHANGED <<state, server_of, counted>>
  PROVE  CountInv'
<1>1. PICK n \in Connections, s \in Servers :
         n = call[c].conn /\ s = call[c].server /\ server_of[n] = s
  BY JoinFacts
<1>2. /\ \/ handshake[n] = "ok" /\ panic_count' = [panic_count EXCEPT ![s] = 0]
         \/ /\ handshake[n] = "panic"
            /\ panic_count' = [panic_count EXCEPT ![s] = panic_count[s] + 1]
         \/ handshake[n] = "error" /\ panic_count' = panic_count
      /\ handshake' = [handshake EXCEPT ![n] = "joined"]
      /\ overtaken \subseteq overtaken'
      /\ s \notin overtaken' => \A m \in Uncounted(s) : ~(m < n)
  BY <1>1, CountOfStart
<1>3. /\ handshake'[n] = "joined"
      /\ \A m \in Connections : m # n => handshake'[m] = handshake[m]
  BY <1>1, <1>2, Types
<1>4. InOrder'
  BY <1>3, OrderStays DEF CountInv, StartedStay
<1>5. Uncounted(s)' = Uncounted(s) \ {n}
  BY <1>3 DEF Uncounted
<1>6. ASSUME NEW r \in Servers, r # s
      PROVE  /\ Uncounted(r)' = Uncounted(r) /\ panic_count'[r] = panic_count[r]
             /\ \A m \in Uncounted(r) : handshake'[m] = handshake[m]
  BY <1>1, <1>2, <1>3, <1>6, Types DEF Uncounted
<1>7. ASSUME s \notin overtaken'
      PROVE  counted[s] = (IF Resets(s)' THEN 0 ELSE panic_count'[s])
                             + Cardinality(Late(s)')
  <2>1. counted[s] = (IF Resets(s) THEN 0 ELSE panic_count[s]) + Cardinality(Late(s))
    BY <1>1, <1>2, <1>7 DEF CountInv, Counts
  <2>2. \A m \in Uncounted(s) \ {n} :
           handshake'[m] = handshake[m] /\ m \in Connections /\ n < m
    <3> SUFFICES ASSUME NEW m \in Uncounted(s) \ {n}
                 PROVE  handshake'[m] = handshake[m] /\ m \in Connections /\ n < m
      OBVIOUS
    <3>1. m \in Connections /\ m \in Nat /\ n \in Nat
      BY <1>1, LateFacts, ConnectionsAreNumbers
    <3>2. ~(m < n) /\ m # n
      BY <1>2, <1>7
    <3>3. n < m
      BY <3>1, <3>2
    <3>4. QED
      BY <1>3, <3>1, <3>2, <3>3
  <2>3. CASE handshake[n] = "ok" /\ panic_count' = [panic_count EXCEPT ![s] = 0]
    <3>1. n \in Uncounted(s) /\ Resets(s)
      BY <1>1, <2>3 DEF Uncounted, Resets
    <3>2. Late(s)' = Late(s)
      BY <1>5, <2>2, <2>3, <3>1 DEF Late
    <3>3. panic_count'[s] = 0
      BY <1>1, <2>3, Types
    <3>4. QED
      BY <2>1, <3>1, <3>2, <3>3
  <2>4. CASE handshake[n] = "error" /\ panic_count' = panic_count
    <3>1. n \notin Uncounted(s)
      BY <2>4 DEF Uncounted
    <3>2. /\ Uncounted(s)' = Uncounted(s)
          /\ \A m \in Uncounted(s) : handshake'[m] = handshake[m]
      BY <1>5, <2>2, <3>1
    <3>3. QED
      BY <1>1, <1>2, <1>7, <2>4, <3>2, SameCounts
  <2>5. CASE /\ handshake[n] = "panic"
             /\ panic_count' = [panic_count EXCEPT ![s] = panic_count[s] + 1]
    <3>1. n \in Uncounted(s)
      BY <1>1, <2>5 DEF Uncounted
    <3>2. Resets(s)' <=> Resets(s)
      BY <1>5, <2>2, <2>5 DEF Resets
    <3>3. CASE Resets(s)
      <4>1. Late(s)' = Late(s)
        <5>1. PICK m \in Uncounted(s) : handshake[m] = "ok" /\ m # n
          BY <2>5, <3>3 DEF Resets
        <5>2. n < m /\ n \in Nat /\ m \in Nat
          BY <1>1, <2>2, <5>1, ConnectionsAreNumbers
        <5>3. n \in Late(s) => m < n
          BY <5>1 DEF Late
        <5>4. n \notin Late(s)
          BY <5>2, <5>3
        <5>5. QED
          BY <1>5, <2>2, <2>5, <5>4 DEF Late
      <4>2. QED
        BY <2>1, <3>2, <3>3, <4>1
    <3>4. CASE ~Resets(s)
      <4>1. Late(s)' = Late(s) \ {n} /\ n \in Late(s)
        BY <1>5, <2>2, <2>5, <3>1, <3>2, <3>4 DEF Late, Resets
      <4>2. /\ Cardinality(Late(s)') = Cardinality(Late(s)) - 1
            /\ Cardinality(Late(s)) \in Nat
        BY <4>1, LateFacts, FS_RemoveElement
      <4>3. panic_count'[s] = panic_count[s] + 1 /\ panic_count[s] \in Nat
        BY <1>1, <2>5, Types
      <4>4. QED
        BY <2>1, <3>2, <3>4, <4>2, <4>3
    <3>5. QED
      BY <3>3, <3>4
  <2>6. QED
    BY <1>2, <2>3, <2>4, <2>5
<1>8. Counts'
  <2> SUFFICES ASSUME NEW r \in Servers \ overtaken'
               PROVE  counted'[r] = (IF Resets(r)' THEN 0 ELSE panic_count'[r])
                                      + Cardinality(Late(r)')
    BY DEF Counts
  <2>1. CASE r = s
    BY <1>7, <2>1
  <2>2. CASE r # s
    BY <1>2, <1>6, <2>2, SameCounts
  <2>3. QED
    BY <2>1, <2>2
<1>9. QED
  BY <1>4, <1>8 DEF CountInv

(* Steps that leave the starts alone, but for the state.                    *)
LEMMA QuietCounts ==
  ASSUME CountInv, UNCHANGED <<server_of, handshake, panic_count, counted, overtaken>>,
         \A n \in Connections : state'[n] = None <=> state[n] = None
  PROVE  CountInv'
<1>1. InOrder'
  BY OrderStays DEF CountInv, StartedStay
<1>2. \A s \in Servers : Uncounted(s)' = Uncounted(s)
  BY DEF Uncounted
<1>3. Counts'
  BY <1>2, SameCounts DEF Counts
<1>4. QED
  BY <1>1, <1>3 DEF CountInv

(* A server is disabled for panics in a row only: the count is that of the  *)
(* panics since the last handshake that succeeded, as long as they are      *)
(* counted in the order in which the starts ended and none is still to be   *)
(* counted. Other failures do not count, and none counts twice.             *)
THEOREM PanicsAreInARow == Spec => []CountIsConsecutive
<1>1. ASSUME IInv, CountInv, [Next]_vars PROVE CountInv'
  <2>1. CASE UNCHANGED poolVars
    BY <1>1, <2>1, QuietCounts DEF poolVars
  <2>2. ASSUME NEW c \in Callers, GetOrCreate(c) PROVE CountInv'
    <3>1. CASE SpawnsNew(c) /\ \E n \in Connections : SpawnServer(call[c].server, n)
      BY <1>1, <2>2, <3>1, SpawnKeepsCounts, HandleFacts DEF GetOrCreate, SpawnsNew
    <3>2. CASE SpawnFails(call[c].server)
      BY <1>1, <3>2, QuietCounts DEF SpawnFails
    <3>3. QED
      BY <2>1, <2>2, <3>1, <3>2 DEF GetOrCreate
  <2>3. ASSUME NEW c \in Callers, Join(c) PROVE CountInv'
    <3>1. CASE SetFailed(call[c].conn) /\ UNCHANGED <<handshake, panic_count, overtaken>>
      <4>1. pc[c] = "joining" /\ UNCHANGED <<server_of, counted>>
        BY <2>3 DEF Join
      <4>2. call[c].conn \in Connections /\ state[call[c].conn] # None
        BY <1>1, <4>1, JoinFacts
      <4>3. \A n \in Connections : state'[n] = None <=> state[n] = None
        BY <1>1, <3>1, <4>2, NoneApart, Types DEF SetFailed, States
      <4>4. QED
        BY <1>1, <3>1, <4>1, <4>3, QuietCounts
    <3>2. CASE ~SetFailed(call[c].conn) \/ ~UNCHANGED <<handshake, panic_count, overtaken>>
      BY <1>1, <2>3, <3>2, CountStartKeepsCounts DEF Join
    <3>3. QED
      BY <3>1, <3>2
  <2>4. ASSUME NEW c \in Callers, CountPanic(c) PROVE CountInv'
    BY <1>1, <2>4, JoinFacts, CountStartKeepsCounts DEF CountPanic
  <2>5. ASSUME NEW c \in Callers, NoticeHung(c) PROVE CountInv'
    <3>1. PICK n \in hung : /\ state' = [state EXCEPT ![n] = "Failed"]
                            /\ UNCHANGED <<server_of, handshake, panic_count, counted,
                                           overtaken>>
      BY <2>5 DEF NoticeHung
    <3>2. n \in Connections /\ state[n] = "Ready"
      BY <1>1, Types DEF IInv, PoolInv, HandshakeOfStart
    <3>3. \A m \in Connections : state'[m] = None <=> state[m] = None
      BY <1>1, <3>1, <3>2, NoneApart, Types DEF States
    <3>4. QED
      BY <1>1, <3>1, <3>3, QuietCounts
  <2>6. ASSUME NEW n \in Connections, LivenessTimeout(n) PROVE CountInv'
    BY <1>1, <2>6, QuietCounts DEF LivenessTimeout
  <2>7. ASSUME NEW n \in Connections, HandshakeEnds(n) PROVE CountInv'
    BY <1>1, <2>7, HandshakeKeepsCounts
  <2>8. ASSUME NEW c \in Callers,
               \/ TakeLock(c) \/ LookAgain(c) \/ WaitForReady(c) \/ StartedInAdvance(c)
               \/ Send(c) \/ Settle(c) \/ Finish(c) \/ DropFuture(c)
        PROVE  CountInv'
    BY <2>1, <2>8 DEF TakeLock, LookAgain, WaitForReady, StartedInAdvance, Send,
       Settle, Finish, DropFuture
  <2>9. CASE UNCHANGED vars
    BY <2>1, <2>9 DEF vars
  <2>10. QED
    BY <1>1, <2>2, <2>3, <2>4, <2>5, <2>6, <2>7, <2>8, <2>9 DEF Next, Advance
<1>2. IInv /\ CountInv => CountIsConsecutive
  <2> SUFFICES ASSUME IInv, CountInv, NEW s \in Servers, Uncounted(s) = {},
                      s \notin overtaken
               PROVE  panic_count[s] = counted[s]
    BY DEF CountIsConsecutive
  <2>1. ~Resets(s) /\ Late(s) = {}
    BY DEF Resets, Late
  <2>2. Cardinality(Late(s)) = 0
    BY <2>1, FS_EmptySet
  <2>3. counted[s] = (IF Resets(s) THEN 0 ELSE panic_count[s]) + Cardinality(Late(s))
    BY DEF CountInv, Counts
  <2>4. panic_count[s] \in Nat
    BY Types
  <2>5. QED
    BY <2>1, <2>2, <2>3, <2>4
<1>3. QED
  BY <1>1, <1>2, InitCounts, Invariance, PTL DEF Spec
-----------------------------------------------------------------------------
(* The registry, the pool and the routers.                                  *)

(* The only call of its upstream id for its server.                         *)
Alone(c) ==
  \A d \in Callers \ {c} :
     \/ pc[d] = "idle" \/ call[d].upstream # call[c].upstream
     \/ call[d].server # call[c].server

(* A request that waits is registered, and its router maps to it.           *)
SentInv ==
  \A c \in Callers : pc[c] = "sent" /\ Alone(c) =>
     /\ call[c].server \in registry[call[c].upstream]
     /\ downstream[call[c].conn][call[c].upstream] = c

Dropped(c) == pc[c] = "done" /\ call[c].fate = "dropped"

(* What a router maps to is at work there, or was dropped.                  *)
RoutedInv ==
  \A n \in Connections, u \in Upstreams, c \in Callers :
     downstream[n][u] = c =>
        /\ call[c] \in Call /\ call[c].upstream = u
        /\ Dropped(c) \/ (pc[c] = "sent" /\ call[c].conn = n)

(* And so is a call for each server that is registered.                     *)
RegisteredInv ==
  \A u \in Upstreams : \A s \in registry[u] :
     \E c \in Callers :
        /\ call[c] \in Call /\ call[c].upstream = u /\ call[c].server = s
        /\ Dropped(c) \/ pc[c] \in {"sent", "settled"}

LinkInv == SentInv /\ RoutedInv /\ RegisteredInv

LEMMA NoneIsNoCaller == None \notin Callers
BY PoolAssumption DEF Callers

LEMMA InitLinks == Init => LinkInv
BY NoneIsNoCaller DEF Init, LinkInv, SentInv, RoutedInv, RegisteredInv

(* Nobody but the one that moves does; what it calls for stays.             *)
OnlyMoves(c) ==
  /\ pc'[c] # "idle"
  /\ pc[c] # "idle" => /\ call'[c].upstream = call[c].upstream
                       /\ call'[c].server = call[c].server
  /\ \A d \in Callers \ {c} : pc'[d] = pc[d] /\ call'[d] = call[d]

LEMMA AloneBefore ==
  ASSUME NEW c \in Callers, OnlyMoves(c), NEW d \in Callers, d # c, Alone(d)'
  PROVE  Alone(d)
<1>1. ASSUME NEW e \in Callers \ {d}
      PROVE  \/ pc[e] = "idle" \/ call[e].upstream # call[d].upstream
             \/ call[e].server # call[d].server
  BY <1>1 DEF OnlyMoves, Alone
<1>2. QED
  BY <1>1 DEF Alone

(* Steps that leave the registry and the routers alone.                     *)
LEMMA MoveKeepsLinks ==
  ASSUME IInv, LinkInv, UNCHANGED cancelVars, NEW c \in Callers,
         OnlyMoves(c), pc[c] \notin {"settled", "done"},
         pc'[c] \notin {"sent", "settled"}, call'[c] \in Call,
         pc[c] = "sent" => Dropped(c)'
  PROVE  LinkInv'
<1>1. UNCHANGED <<registry, downstream>>
  BY DEF cancelVars
<1>2. \A d \in Callers \ {c} : pc'[d] = pc[d] /\ call'[d] = call[d]
  BY DEF OnlyMoves
<1>3. SentInv'
  <2> SUFFICES ASSUME NEW d \in Callers, pc'[d] = "sent", Alone(d)'
               PROVE  /\ call'[d].server \in registry'[call'[d].upstream]
                      /\ downstream'[call'[d].conn][call'[d].upstream] = d
    BY DEF SentInv
  <2>1. d # c /\ pc[d] = "sent" /\ call'[d] = call[d] /\ Alone(d)
    BY <1>2, AloneBefore
  <2>2. QED
    BY <1>1, <2>1 DEF LinkInv, SentInv
<1>4. RoutedInv'
  <2> SUFFICES ASSUME NEW n \in Connections, NEW u \in Upstreams, NEW d \in Callers,
                      downstream[n][u] = d
               PROVE  /\ call'[d] \in Call /\ call'[d].upstream = u
                      /\ Dropped(d)' \/ (pc'[d] = "sent" /\ call'[d].conn = n)
    BY <1>1 DEF RoutedInv
  <2>1. /\ call[d] \in Call /\ call[d].upstream = u
        /\ Dropped(d) \/ (pc[d] = "sent" /\ call[d].conn = n)
    BY DEF LinkInv, RoutedInv
  <2>2. CASE d = c
    <3>1. pc[c] = "sent" /\ call'[c].upstream = call[c].upstream
      BY <2>1, <2>2 DEF Dropped, OnlyMoves
    <3>2. QED
      BY <2>1, <2>2, <3>1
  <2>3. CASE d # c
    BY <1>2, <2>1, <2>3 DEF Dropped
  <2>4. QED
    BY <2>2, <2>3
<1>5. RegisteredInv'
  <2> SUFFICES ASSUME NEW u \in Upstreams, NEW s \in registry[u]
               PROVE  \E d \in Callers :
                         /\ call'[d] \in Call /\ call'[d].upstream = u
                         /\ call'[d].server = s
                         /\ Dropped(d)' \/ pc'[d] \in {"sent", "settled"}
    BY <1>1 DEF RegisteredInv
  <2>1. PICK d \in Callers : /\ call[d] \in Call /\ call[d].upstream = u
                             /\ call[d].server = s
                             /\ Dropped(d) \/ pc[d] \in {"sent", "settled"}
    BY DEF LinkInv, RegisteredInv
  <2>2. CASE d = c
    <3>1. pc[c] = "sent" /\ call'[c].upstream = call[c].upstream
          /\ call'[c].server = call[c].server
      BY <2>1, <2>2 DEF Dropped, OnlyMoves
    <3>2. QED
      BY <2>1, <2>2, <3>1
  <2>3. CASE d # c
    BY <1>2, <2>1, <2>3 DEF Dropped
  <2>4. QED
    BY <2>2, <2>3
<1>6. QED
  BY <1>3, <1>4, <1>5 DEF LinkInv

(* A caller that does not touch what a cancel is looked up in.              *)
LEMMA OthersKeepLinks ==
  ASSUME IInv, LinkInv, UNCHANGED cancelVars, NEW c \in Callers,
         pc[c] \notin {"idle", "settled", "done"},
         NEW l \in Places \ {"idle", "sent", "settled"}, NEW new, Moves(c, l, new),
         SameCall(c, new), pc[c] = "sent" => l = "done" /\ new.fate = "dropped"
  PROVE  LinkInv'
<1>1. /\ pc'[c] = l /\ call'[c] = new
      /\ \A d \in Callers \ {c} : pc'[d] = pc[d] /\ call'[d] = call[d]
  BY Types DEF Moves
<1>2. OnlyMoves(c)
  BY <1>1 DEF OnlyMoves, SameCall
<1>3. QED
  BY <1>1, <1>2, MoveKeepsLinks DEF SameCall, Dropped

(* The request goes out: it is registered, and what its router maps to.     *)
LEMMA SendKeepsLinks ==
  ASSUME IInv, LinkInv, NEW c \in Callers, Send(c)
  PROVE  LinkInv'
<1> DEFINE n == call[c].conn
           u == call[c].upstream
           s == call[c].server
<1>1. /\ pc[c] = "holding" /\ call[c] \in Call /\ u \in Upstreams
      /\ n \in Connections /\ s \in Servers /\ server_of[n] = s
  BY HandleFacts DEF Send, Call, HasHandle
<1>2. /\ pc \in [Callers -> Places] /\ registry \in [Upstreams -> SUBSET Servers]
      /\ downstream \in [Connections -> [Upstreams -> Callers \cup {None}]]
  BY DEF IInv, TypeOK
<1>3. /\ registry' = [registry EXCEPT ![u] = @ \cup {s}]
      /\ downstream' = [downstream EXCEPT ![n] = [downstream[n] EXCEPT ![u] = c]]
      /\ pc' = [pc EXCEPT ![c] = "sent"] /\ UNCHANGED <<call, server_of>>
  BY <1>1, <1>2 DEF Send, Goto, poolVars, n, u, s
<1> HIDE DEF n, u, s
<1>4. \A m \in Connections, v \in Upstreams :
         downstream'[m][v] = IF m = n /\ v = u THEN c ELSE downstream[m][v]
  BY <1>1, <1>2, <1>3
<1>5. \A d \in Callers \ {c} : pc'[d] = pc[d]
  BY <1>2, <1>3
<1>6. pc'[c] = "sent"
  BY <1>2, <1>3
<1>7. SentInv'
  <2> SUFFICES ASSUME NEW d \in Callers, pc'[d] = "sent", Alone(d)'
               PROVE  /\ call[d].server \in registry'[call[d].upstream]
                      /\ downstream'[call[d].conn][call[d].upstream] = d
    BY <1>3 DEF SentInv
  <2>1. CASE d = c
    BY <1>1, <1>2, <1>3, <1>4, <2>1 DEF n, u, s
  <2>2. CASE d # c
    <3>1. pc[d] = "sent"
      BY <1>5, <2>2
    <3>2. /\ call[d].conn \in Connections /\ call[d].upstream \in Upstreams
          /\ server_of[call[d].conn] = call[d].server
      BY <3>1, HandleFacts DEF HasHandle
    <3>3. u # call[d].upstream \/ s # call[d].server
      BY <1>3, <1>6, <2>2 DEF Alone, u, s
    <3>4. Alone(d)
      BY <1>1, <1>3, <1>5, <2>2, <3>3 DEF Alone, u, s
    <3>5. /\ call[d].server \in registry[call[d].upstream]
          /\ downstream[call[d].conn][call[d].upstream] = d
      BY <3>1, <3>4 DEF LinkInv, SentInv
    <3>6. ~(call[d].conn = n /\ call[d].upstream = u)
      BY <1>1, <3>2, <3>3
    <3>7. QED
      BY <1>1, <1>2, <1>3, <1>4, <3>2, <3>5, <3>6
  <2>3. QED
    BY <2>1, <2>2
<1>8. RoutedInv'
  <2> SUFFICES ASSUME NEW m \in Connections, NEW v \in Upstreams, NEW d \in Callers,
                      downstream'[m][v] = d
               PROVE  /\ call[d] \in Call /\ call[d].upstream = v
                      /\ Dropped(d)' \/ (pc'[d] = "sent" /\ call[d].conn = m)
    BY <1>3 DEF RoutedInv
  <2>1. CASE m = n /\ v = u
    BY <1>1, <1>4, <1>6, <2>1 DEF n, u
  <2>2. CASE ~(m = n /\ v = u)
    <3>1. /\ call[d] \in Call /\ call[d].upstream = v
          /\ Dropped(d) \/ (pc[d] = "sent" /\ call[d].conn = m)
      BY <1>4, <2>2 DEF LinkInv, RoutedInv
    <3>2. d # c
      BY <1>1, <3>1 DEF Dropped
    <3>3. QED
      BY <1>3, <1>5, <3>1, <3>2 DEF Dropped
  <2>3. QED
    BY <2>1, <2>2
<1>9. RegisteredInv'
  <2> SUFFICES ASSUME NEW v \in Upstreams, NEW r \in registry'[v]
               PROVE  \E d \in Callers :
                         /\ call[d] \in Call /\ call[d].upstream = v
                         /\ call[d].server = r
                         /\ Dropped(d)' \/ pc'[d] \in {"sent", "settled"}
    BY <1>3 DEF RegisteredInv
  <2>1. CASE v = u /\ r = s
    BY <1>1, <1>6, <2>1 DEF u, s
  <2>2. CASE ~(v = u /\ r = s)
    <3>1. r \in registry[v]
      BY <1>1, <1>2, <1>3, <2>2
    <3>2. PICK d \in Callers : /\ call[d] \in Call /\ call[d].upstream = v
                               /\ call[d].server = r
                               /\ Dropped(d) \/ pc[d] \in {"sent", "settled"}
      BY <3>1 DEF LinkInv, RegisteredInv
    <3>3. d # c
      BY <1>1, <3>2 DEF Dropped
    <3>4. QED
      BY <1>3, <1>5, <3>2, <3>3 DEF Dropped
  <2>3. QED
    BY <2>1, <2>2
<1>10. QED
  BY <1>7, <1>8, <1>9 DEF LinkInv

(* A router is done with requests: with one, or with all that wait.         *)
Settled(S, n, V) ==
  /\ \A c \in S : pc[c] = "sent" /\ call[c].conn = n /\ call[c].upstream \in V
  /\ \A c \in Callers : pc[c] = "sent" /\ call[c].conn = n
                          /\ call[c].upstream \in V /\ Alone(c) => c \in S
  /\ \A m \in Connections, v \in Upstreams :
        downstream'[m][v] = IF m = n /\ v \in V THEN None ELSE downstream[m][v]
  /\ \A c \in Callers : pc'[c] = IF c \in S THEN "settled" ELSE pc[c]
  /\ UNCHANGED <<call, registry>>

LEMMA SettledKeepsLinks ==
  ASSUME IInv, LinkInv, NEW S \in SUBSET Callers, NEW n \in Connections,
         NEW V \in SUBSET Upstreams, Settled(S, n, V)
  PROVE  LinkInv'
<1> USE DEF Settled
<1>1. \A c \in Callers : Alone(c)' <=> Alone(c)
  BY DEF Alone
<1>2. SentInv'
  <2> SUFFICES ASSUME NEW c \in Callers, pc'[c] = "sent", Alone(c)'
               PROVE  /\ call[c].server \in registry[call[c].upstream]
                      /\ downstream'[call[c].conn][call[c].upstream] = c
    BY DEF SentInv
  <2>1. pc[c] = "sent" /\ Alone(c) /\ c \notin S
    BY <1>1
  <2>2. /\ call[c].server \in registry[call[c].upstream]
        /\ downstream[call[c].conn][call[c].upstream] = c
    BY <2>1 DEF LinkInv, SentInv
  <2>3. ~(call[c].conn = n /\ call[c].upstream \in V)
    BY <2>1
  <2>4. call[c].conn \in Connections /\ call[c].upstream \in Upstreams
    BY <2>1, HandleFacts DEF HasHandle
  <2>5. QED
    BY <2>2, <2>3, <2>4
<1>3. RoutedInv'
  <2> SUFFICES ASSUME NEW m \in Connections, NEW v \in Upstreams, NEW c \in Callers,
                      downstream'[m][v] = c
               PROVE  /\ call[c] \in Call /\ call[c].upstream = v
                      /\ Dropped(c)' \/ (pc'[c] = "sent" /\ call[c].conn = m)
    BY DEF RoutedInv
  <2>1. ~(m = n /\ v \in V) /\ downstream[m][v] = c
    BY NoneIsNoCaller
  <2>2. /\ call[c] \in Call /\ call[c].upstream = v
        /\ Dropped(c) \/ (pc[c] = "sent" /\ call[c].conn = m)
    BY <2>1 DEF LinkInv, RoutedInv
  <2>3. c \notin S
    BY <2>1, <2>2 DEF Dropped
  <2>4. QED
    BY <2>2, <2>3 DEF Dropped
<1>4. RegisteredInv'
  <2> SUFFICES ASSUME NEW v \in Upstreams, NEW r \in registry[v]
               PROVE  \E c \in Callers :
                         /\ call[c] \in Call /\ call[c].upstream = v
                         /\ call[c].server = r
                         /\ Dropped(c)' \/ pc'[c] \in {"sent", "settled"}
    BY DEF RegisteredInv
  <2>1. PICK c \in Callers : /\ call[c] \in Call /\ call[c].upstream = v
                             /\ call[c].server = r
                             /\ Dropped(c) \/ pc[c] \in {"sent", "settled"}
    BY DEF LinkInv, RegisteredInv
  <2>2. QED
    BY <2>1 DEF Dropped
<1>5. QED
  BY <1>2, <1>3, <1>4 DEF LinkInv

LEMMA SettleKeepsLinks ==
  ASSUME IInv, LinkInv, NEW c \in Callers, Settle(c)
  PROVE  LinkInv'
<1>1. PICK n \in Connections, u \in Upstreams :
         n = call[c].conn /\ u = call[c].upstream /\ server_of[n] = call[c].server
  BY HandleFacts DEF Settle, HasHandle
<1>2. PICK S \in SUBSET Callers, V \in SUBSET Upstreams : S = {c} /\ V = {u}
  OBVIOUS
<1>3. /\ downstream' = [downstream EXCEPT ![n] = [downstream[n] EXCEPT ![u] = None]]
      /\ pc[c] = "sent" /\ pc' = [pc EXCEPT ![c] = "settled"]
      /\ UNCHANGED <<call, registry>>
  BY <1>1, Types DEF Settle, Goto
<1>4. \A m \in Connections, v \in Upstreams :
         downstream'[m][v] = IF m = n /\ v \in V THEN None ELSE downstream[m][v]
  BY <1>2, <1>3, Types
<1>5. \A d \in Callers : pc'[d] = IF d \in S THEN "settled" ELSE pc[d]
  BY <1>2, <1>3, Types
<1>6. \A d \in Callers : pc[d] = "sent" /\ call[d].conn = n
                          /\ call[d].upstream \in V /\ Alone(d) => d \in S
  <2> SUFFICES ASSUME NEW d \in Callers, pc[d] = "sent", call[d].conn = n,
                      call[d].upstream = u, Alone(d), d # c
               PROVE  FALSE
    BY <1>2
  <2>1. server_of[n] = call[d].server
    BY HandleFacts DEF HasHandle
  <2>2. QED
    BY <1>1, <1>3, <2>1 DEF Alone
<1>7. \A d \in S : pc[d] = "sent" /\ call[d].conn = n /\ call[d].upstream \in V
  BY <1>1, <1>2, <1>3
<1>8. Settled(S, n, V)
  BY <1>3, <1>4, <1>5, <1>6, <1>7 DEF Settled
<1>9. QED
  BY <1>8, SettledKeepsLinks

LEMMA LivenessKeepsLinks ==
  ASSUME IInv, LinkInv, NEW n \in Connections, LivenessTimeout(n)
  PROVE  LinkInv'
<1>1. PICK S \in SUBSET Callers : S = {c \in Callers : pc[c] = "sent" /\ call[c].conn = n}
  OBVIOUS
<1>2. /\ downstream' = [downstream EXCEPT ![n] = [u \in Upstreams |-> None]]
      /\ pc' = [c \in Callers |-> IF c \in S THEN "settled" ELSE pc[c]]
      /\ UNCHANGED <<call, registry>>
  BY <1>1 DEF LivenessTimeout
<1>3. \A m \in Connections, v \in Upstreams :
         downstream'[m][v] = IF m = n /\ v \in Upstreams THEN None ELSE downstream[m][v]
  BY <1>2, Types
<1>4. \A c \in S : pc[c] = "sent" /\ call[c].conn = n /\ call[c].upstream \in Upstreams
  BY <1>1, HandleFacts
<1>5. \A c \in Callers : pc[c] = "sent" /\ call[c].conn = n => c \in S
  BY <1>1
<1>6. \A c \in Callers : pc'[c] = IF c \in S THEN "settled" ELSE pc[c]
  BY <1>2
<1>7. Settled(S, n, Upstreams)
  BY <1>2, <1>3, <1>4, <1>5, <1>6 DEF Settled
<1>8. QED
  BY <1>7, SettledKeepsLinks

(* A request is unregistered when it is over.                               *)
LEMMA FinishKeepsLinks ==
  ASSUME IInv, LinkInv, NEW c \in Callers, Finish(c)
  PROVE  LinkInv'
<1>1. /\ pc[c] = "settled" /\ UnregisterUpstream(c) /\ Return(c, "ended")
      /\ UNCHANGED downstream
  BY DEF Finish
<1>2. /\ pc'[c] = "done"
      /\ call'[c].upstream = call[c].upstream /\ call'[c].server = call[c].server
      /\ \A d \in Callers \ {c} : pc'[d] = pc[d] /\ call'[d] = call[d]
  <2>1. PICK new : Moves(c, "done", new) /\ SameCall(c, new)
    BY <1>1, Returns
  <2>2. QED
    BY <2>1, Types DEF Moves, SameCall
<1>3. OnlyMoves(c)
  BY <1>2 DEF OnlyMoves
<1>4. registry \in [Upstreams -> SUBSET Servers]
      /\ registry' = [registry EXCEPT ![call[c].upstream] = @ \ {call[c].server}]
  BY <1>1, Types DEF UnregisterUpstream
<1>5. SentInv'
  <2> SUFFICES ASSUME NEW d \in Callers, pc'[d] = "sent", Alone(d)'
               PROVE  /\ call'[d].server \in registry'[call'[d].upstream]
                      /\ downstream[call'[d].conn][call'[d].upstream] = d
    BY <1>1 DEF SentInv
  <2>1. d # c /\ pc[d] = "sent" /\ call'[d] = call[d]
    BY <1>2
  <2>2. Alone(d)
    BY <1>3, <2>1, AloneBefore
  <2>3. /\ call[d].server \in registry[call[d].upstream]
        /\ downstream[call[d].conn][call[d].upstream] = d
    BY <2>1, <2>2 DEF LinkInv, SentInv
  <2>4. call[c].upstream # call[d].upstream \/ call[c].server # call[d].server
    BY <1>1, <2>1, <2>2 DEF Alone
  <2>5. call[d].upstream \in Upstreams
    BY <2>1, HandleFacts
  <2>6. QED
    BY <1>4, <2>1, <2>3, <2>4, <2>5
<1>6. RoutedInv'
  <2> SUFFICES ASSUME NEW m \in Connections, NEW v \in Upstreams, NEW d \in Callers,
                      downstream[m][v] = d
               PROVE  /\ call'[d] \in Call /\ call'[d].upstream = v
                      /\ Dropped(d)' \/ (pc'[d] = "sent" /\ call'[d].conn = m)
    BY <1>1 DEF RoutedInv
  <2>1. /\ call[d] \in Call /\ call[d].upstream = v
        /\ Dropped(d) \/ (pc[d] = "sent" /\ call[d].conn = m)
    BY DEF LinkInv, RoutedInv
  <2>2. d # c
    BY <1>1, <2>1 DEF Dropped
  <2>3. QED
    BY <1>2, <2>1, <2>2, HandleFacts DEF Dropped
<1>7. RegisteredInv'
  <2> SUFFICES ASSUME NEW v \in Upstreams, NEW r \in registry'[v]
               PROVE  \E d \in Callers :
                         /\ call'[d] \in Call /\ call'[d].upstream = v
                         /\ call'[d].server = r
                         /\ Dropped(d)' \/ pc'[d] \in {"sent", "settled"}
    BY DEF RegisteredInv
  <2>1. r \in registry[v] /\ ~(v = call[c].upstream /\ r = call[c].server)
    BY <1>4
  <2>2. PICK d \in Callers : /\ call[d] \in Call /\ call[d].upstream = v
                             /\ call[d].server = r
                             /\ Dropped(d) \/ pc[d] \in {"sent", "settled"}
    BY <2>1 DEF LinkInv, RegisteredInv
  <2>3. d # c
    BY <2>1, <2>2
  <2>4. QED
    BY <1>2, <2>2, <2>3 DEF Dropped
<1>8. QED
  BY <1>5, <1>6, <1>7 DEF LinkInv

LEMMA LinksKept == IInv /\ IInv' /\ LinkInv /\ [Next]_vars => LinkInv'
<1> SUFFICES ASSUME IInv, IInv', LinkInv, [Next]_vars PROVE LinkInv'
  OBVIOUS
<1>1. CASE UNCHANGED <<cancelVars, callerVars>>
  BY <1>1 DEF cancelVars, callerVars, LinkInv, SentInv, RoutedInv, RegisteredInv,
     Alone, Dropped
<1>2. CASE UNCHANGED vars
  BY <1>1, <1>2 DEF vars
<1>3. ASSUME NEW n \in Connections, HandshakeEnds(n) PROVE LinkInv'
  BY <1>1, <1>3 DEF HandshakeEnds
<1>4. ASSUME NEW c \in Callers, NoticeHung(c) PROVE LinkInv'
  BY <1>1, <1>4 DEF NoticeHung
<1>5. ASSUME NEW c \in Callers, TakeLock(c) PROVE LinkInv'
  <2>1. /\ pc[c] = "idle" /\ pc'[c] = "deciding" /\ UNCHANGED cancelVars
        /\ \A d \in Callers \ {c} : pc'[d] = pc[d] /\ call'[d] = call[d]
    BY <1>5, Types DEF TakeLock, Goto
  <2>2. call'[c] \in Call
    BY <2>1, HandleFacts DEF IInv, CallersInv, CallsKnown
  <2>3. OnlyMoves(c)
    BY <2>1 DEF OnlyMoves
  <2>4. QED
    BY <2>1, <2>2, <2>3, MoveKeepsLinks
<1>6. ASSUME NEW c \in Callers, NEW f \in {"ended", "dropped"}, Return(c, f),
             pc[c] \notin {"idle", "settled", "done"}, UNCHANGED cancelVars,
             f = "dropped" \/ pc[c] # "sent"
      PROVE  LinkInv'
  <2>1. PICK new : Moves(c, "done", new) /\ SameCall(c, new) /\ new.fate = f
    BY <1>6, Returns
  <2>2. QED
    BY <1>6, <2>1, OthersKeepLinks DEF Places
<1>7. ASSUME NEW c \in Callers, NEW l \in {"watching", "holding", "counting"},
             Goto(c, l), UNCHANGED <<call, cancelVars>>, pc[c] \in {"joining", "watching"}
      PROVE  LinkInv'
  BY <1>7, GoesTo, OthersKeepLinks DEF Places
<1>8. ASSUME NEW c \in Callers, NEW l \in {"joining", "looking", "watching", "holding"},
             NEW n \in Connections \cup {None}, Enter(c, l, n), UNCHANGED cancelVars,
             pc[c] \in {"deciding", "looking"}
      PROVE  LinkInv'
  <2>1. PICK new : Moves(c, l, new) /\ SameCall(c, new)
    BY <1>8, Enters
  <2>2. QED
    BY <1>8, <2>1, OthersKeepLinks DEF Places
<1>9. ASSUME NEW c \in Callers, GetOrCreate(c) \/ LookAgain(c) PROVE LinkInv'
  <2>1. pc[c] \in {"deciding", "looking"} /\ UNCHANGED cancelVars
    BY <1>9 DEF GetOrCreate, LookAgain
  <2>2. connections[call[c].server] \in Connections \cup {None}
    BY <2>1, HandleFacts, Types
  <2>3. Obtained(c) \in {"watching", "holding"}
    BY DEF Obtained
  <2>4. \/ Return(c, "ended")
        \/ \E n \in Connections \cup {None},
              l \in {"joining", "looking", "watching", "holding"} : Enter(c, l, n)
    BY <1>9, <2>2, <2>3 DEF GetOrCreate, LookAgain
  <2>5. QED
    BY <1>6, <1>8, <2>1, <2>4
<1>10. ASSUME NEW c \in Callers, Join(c) \/ CountPanic(c) PROVE LinkInv'
  <2>1. Obtained(c) \in {"watching", "holding"}
    BY DEF Obtained
  <2>2. /\ pc[c] \in {"joining", "counting"} /\ UNCHANGED cancelVars
        /\ \/ Return(c, "ended")
           \/ /\ \E l \in {"watching", "holding", "counting"} : Goto(c, l)
              /\ pc[c] = "joining" /\ UNCHANGED call
    BY <1>10, <2>1 DEF Join, CountPanic
  <2>3. QED
    BY <1>6, <1>7, <2>2
<1>11. ASSUME NEW c \in Callers, WaitForReady(c) \/ StartedInAdvance(c) PROVE LinkInv'
  BY <1>6, <1>7, <1>11 DEF WaitForReady, StartedInAdvance
<1>12. ASSUME NEW c \in Callers, DropFuture(c) PROVE LinkInv'
  BY <1>6, <1>12 DEF DropFuture
<1>13. QED
  BY <1>2, <1>3, <1>4, <1>5, <1>9, <1>10, <1>11, <1>12, SendKeepsLinks,
     SettleKeepsLinks, FinishKeepsLinks, LivenessKeepsLinks DEF Next, Advance

(* What a client's cancel is looked up in is exact: the registry, the pool  *)
(* and the router lead to the request that waits for its answer from a      *)
(* server that is Ready, when it is the only one of its upstream id for its *)
(* server, whatever connections of that server hung and were replaced; and  *)
(* nothing is left of calls that returned, unless one of that id was        *)
(* dropped.                                                                 *)
THEOREM CancelsFindTheirRequests == Spec => []RegistryExact
<1>1. ASSUME IInv, LinkInv PROVE RequestsCancellable
  <2> SUFFICES ASSUME NEW c \in Callers, pc[c] = "sent", Alone(c),
                      state[call[c].conn] = "Ready"
               PROVE  c \in ReachedByCancel(call[c].upstream)
    BY DEF RequestsCancellable, Alone
  <2>1. /\ call[c].conn \in Connections /\ call[c].server \in Servers
        /\ server_of[call[c].conn] = call[c].server
    BY <1>1, HandleFacts DEF HasHandle
  <2>2. /\ call[c].server \in registry[call[c].upstream]
        /\ downstream[call[c].conn][call[c].upstream] = c
    BY <1>1 DEF LinkInv, SentInv
  <2>3. connections[call[c].server] = call[c].conn
    BY <1>1, <2>1, <2>2 DEF IInv, PoolInv, OneOfEachServer
  <2>4. StateOf(call[c].server) = "Ready"
    BY <2>1, <2>2, <2>3, NoneApart DEF StateOf
  <2>5. QED
    BY <2>2, <2>3, <2>4 DEF ReachedByCancel
<1>2. ASSUME IInv, LinkInv PROVE NothingLeftBehind
  <2> SUFFICES ASSUME \A c \in Callers : pc[c] \in {"idle", "done"},
                      NEW u \in Upstreams,
                      \A c \in Callers : ~(/\ call[c] # None /\ call[c].upstream = u
                                           /\ call[c].fate = "dropped")
               PROVE  registry[u] = {} /\ \A n \in Connections : downstream[n][u] = None
    BY DEF NothingLeftBehind
  <2>1. \A c \in Callers : call[c] \in Call /\ call[c].upstream = u => ~Dropped(c)
    BY NoneIsNoCall DEF Dropped
  <2>2. registry[u] = {}
    BY <1>2, <2>1 DEF LinkInv, RegisteredInv
  <2>3. ASSUME NEW n \in Connections PROVE downstream[n][u] = None
    <3>1. downstream[n][u] \in Callers \cup {None}
      BY <1>2 DEF IInv, TypeOK
    <3>2. \A c \in Callers : downstream[n][u] # c
      BY <1>2, <2>1 DEF LinkInv, RoutedInv
    <3>3. QED
      BY <3>1, <3>2
  <2>4. QED
    BY <2>2, <2>3
<1>3. IInv /\ LinkInv => RegistryExact
  BY <1>1, <1>2 DEF RegistryExact
<1>4. QED
  BY <1>3, InitLinks, LinksKept, Invariance, PTL DEF Spec
=============================================================================
