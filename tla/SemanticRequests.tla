-------------------------- MODULE SemanticRequests --------------------------
(***************************************************************************)
(* Requests for the semantic tokens of one document, full ones and deltas  *)
(* (lsp_impl/text_document/semantic_tokens.rs): how a later request        *)
(* supersedes an earlier one (semantic_request_tracker.rs), how a client's *)
(* cancel reaches a handler (request_id.rs), and the cache of the last     *)
(* result, against which deltas are made (cache.rs,                        *)
(* analysis/semantic_cache.rs, analysis/result_id.rs).                     *)
(*                                                                         *)
(* An action is what a handler does between two awaits.  A computation     *)
(* gives the tokens of its text (SemanticTokens says how they are made of  *)
(* the captures) or, if it fails, none; the delta of two results is that   *)
(* of SemanticDelta, and the client applies it to the tokens it has.  The  *)
(* document changes in single steps here (see HostDocument for theirs).    *)
(***************************************************************************)
EXTENDS SemanticDelta, FiniteSets

CONSTANTS
  MaxRequests,  (* bound on the requests of the client              *)
  MaxEdits,     (* bound on the openings, changes and closings      *)
  Texts,        (* the texts of the document                        *)
  TokensOf,     (* their tokens                                     *)
  Upstreams,    (* the client's ids for its requests                *)
  None

Requests == 1..MaxRequests
ResultIds == 1..MaxRequests

ASSUME SemanticAssumption ==
  /\ MaxRequests \in Nat /\ MaxEdits \in Nat
  /\ Upstreams \subseteq Nat
  /\ TokensOf \in [Texts -> Tokens]
  /\ None \notin Texts /\ None \notin Tokens /\ None \notin Nat

VARIABLES
  document,         (* the text in the store, or None                        *)
  edits,            (* how often it was opened, changed or closed            *)
  cancelled,        (* the requests in flight that the client cancelled      *)
  client_tokens,    (* what the client has under each result id              *)
  client_result,    (* the last result id it got                             *)
  subscribers,      (* CancelForwarder.subscribers: whose sender, by id      *)
  cancel_rx,        (* the receiver of each handler                          *)
  active_request,   (* SemanticRequestTracker.active_requests                *)
  next_request_id,  (* NEXT_REQUEST_ID                                       *)
  next_result_id,   (* TOKEN_RESULT_COUNTER                                  *)
  cache,            (* SemanticTokenCache: the last result, or None          *)
  pc, request_id,   (* of each handler: where it is, its id with the tracker *)
  held,             (* its request and the text it works on (see Locals)     *)
  answer            (* what it answered                                      *)

documentVars == <<document, edits>>
clientVars == <<cancelled, client_tokens, client_result>>
cancelVars == <<subscribers, cancel_rx>>
trackerVars == <<active_request, next_request_id>>
tokenVars == <<next_result_id, cache>>
handlerVars == <<pc, request_id, held, answer>>
vars == <<documentVars, clientVars, cancelVars, trackerVars, tokenVars,
          handlerVars>>

Places == {"unsent", "sent", "waiting", "parsing", "computing", "done"}

(* The client's id for the request, the result id a delta is asked against *)
(* (None for all tokens), the text in hand, and how many edits there were  *)
(* when the handler started.                                               *)
Locals == [upstream : Upstreams \cup {None}, previous : ResultIds \cup {None},
           text : Texts \cup {None}, edits : 0..MaxEdits]
NoLocals == [upstream |-> None, previous |-> None, text |-> None, edits |-> 0]

(* What was answered: no tokens for one of several reasons, or tokens with *)
(* their result id.                                                        *)
Answers ==
  [type : {"none", "empty", "null", "cancelled", "tokens"},
   result : ResultIds \cup {None}]
Answer(t, i) == [type |-> t, result |-> i]

TypeOK ==
  /\ document \in Texts \cup {None} /\ edits \in 0..MaxEdits
  /\ cancelled \subseteq Requests
  /\ client_tokens \in [ResultIds -> Tokens \cup {None}]
  /\ client_result \in ResultIds \cup {None}
  /\ subscribers \in [Upstreams -> Requests \cup {None}]
  /\ cancel_rx \in [Requests -> {"none", "open", "notified"}]
  /\ active_request \in Requests \cup {None}
  /\ next_request_id \in 1..(MaxRequests + 1)
  /\ next_result_id \in 1..(MaxRequests + 1)
  /\ cache \in [result : ResultIds, tokens : Tokens] \cup {None}
  /\ pc \in [Requests -> Places]
  /\ request_id \in [Requests -> Requests \cup {None}]
  /\ held \in [Requests -> Locals]
  /\ answer \in [Requests -> Answers]

Init ==
  /\ document = None /\ edits = 0
  /\ cancelled = {}
  /\ client_tokens = [i \in ResultIds |-> None] /\ client_result = None
  /\ subscribers = [u \in Upstreams |-> None]
  /\ cancel_rx = [r \in Requests |-> "none"]
  /\ active_request = None /\ next_request_id = 1
  /\ next_result_id = 1 /\ cache = None
  /\ pc = [r \in Requests |-> "unsent"]
  /\ request_id = [r \in Requests |-> None]
  /\ held = [r \in Requests |-> NoLocals]
  /\ answer = [r \in Requests |-> Answer("none", None)]

Goto(r, l) == pc' = [pc EXCEPT ![r] = l]
InFlight == {r \in Requests : pc[r] \notin {"unsent", "done"}}
Running == InFlight \ {r \in Requests : pc[r] = "sent"}
-----------------------------------------------------------------------------
(* The document.                                                           *)

Edit == edits < MaxEdits /\ edits' = edits + 1

OpenOrChange ==
  /\ Edit
  /\ document' \in Texts \ {document}
  /\ UNCHANGED <<clientVars, cancelVars, trackerVars, tokenVars, handlerVars>>

(* remove_document of the coordinator of the caches.                       *)
RemoveDocument == cache' = None /\ active_request' = None

(* did_close: nothing is awaited between the store and the caches.         *)
Close ==
  /\ Edit
  /\ document # None /\ document' = None
  /\ RemoveDocument
  /\ UNCHANGED <<clientVars, cancelVars, next_request_id, next_result_id,
                 handlerVars>>
-----------------------------------------------------------------------------
(* The client: an id is free again when its request was answered, and the  *)
(* first one that is free is used.                                         *)

Free(u) == \A q \in InFlight : held[q].upstream # u

Send ==
  \E r \in Requests, u \in Upstreams, p \in {None, client_result} :
     /\ pc[r] = "unsent" /\ \A q \in 1..(r - 1) : pc[q] # "unsent"
     /\ document # None
     /\ Free(u) /\ \A w \in Upstreams : w < u => ~Free(w)
     /\ held' = [held EXCEPT ![r].upstream = u, ![r].previous = p]
     /\ Goto(r, "sent")
     /\ UNCHANGED <<documentVars, clientVars, cancelVars, trackerVars,
                    tokenVars, request_id, answer>>

(* notify_cancel: the sender is taken out of the map and used.             *)
NotifyCancel(u) ==
  /\ subscribers[u] # None
  /\ cancel_rx' = [cancel_rx EXCEPT ![subscribers[u]] = "notified"]
  /\ subscribers' = [subscribers EXCEPT ![u] = None]

(* $/cancelRequest: RequestIdCapture informs the handler that subscribed   *)
(* under the id, if there is one yet.                                      *)
CancelRequest(r) ==
  /\ r \in InFlight /\ r \notin cancelled
  /\ cancelled' = cancelled \cup {r}
  /\ \/ NotifyCancel(held[r].upstream)
     \/ subscribers[held[r].upstream] = None /\ UNCHANGED cancelVars
  /\ UNCHANGED <<documentVars, client_tokens, client_result, trackerVars,
                 tokenVars, handlerVars>>
-----------------------------------------------------------------------------
(* The tracker and the end of a handler.                                   *)

(* finish_request: only the request that is active ends.                   *)
FinishRequest(r) ==
  active_request' = IF active_request = request_id[r] THEN None
                    ELSE active_request

(* Mutant: no request is superseded.                                       *)
AlwaysActive(r) == TRUE

IsActive(r) == active_request = request_id[r]

(* Mutant: a handler that ends leaves its subscription.                    *)
ForgetGuard(r) == UNCHANGED subscribers

(* CancelSubscriptionGuard: a handler that had subscribed unsubscribes its *)
(* id, whatever is in the map under it by then.                            *)
DropGuard(r) ==
  subscribers' = IF cancel_rx[r] = "none" THEN subscribers
                 ELSE [subscribers EXCEPT ![held[r].upstream] = None]

(* The handler of r returns, and drops the receiver it has not heard of.   *)
Return(r, a) ==
  /\ Goto(r, "done")
  /\ answer' = [answer EXCEPT ![r] = a]
  /\ held' = [held EXCEPT ![r] = NoLocals]
  /\ cancelled' = cancelled \ {r}
  /\ DropGuard(r)
  /\ cancel_rx' = [cancel_rx EXCEPT ![r] = IF @ = "open" THEN "none" ELSE @]
  /\ UNCHANGED documentVars

(* It returns before it made tokens; if it is the active request, none is. *)
GiveUp(r, a) ==
  /\ Return(r, a) /\ FinishRequest(r)
  /\ UNCHANGED <<client_tokens, client_result, next_request_id, tokenVars,
                 request_id>>

Superseded(r) ==
  /\ ~IsActive(r)
  /\ Return(r, Answer("null", None))
  /\ UNCHANGED <<client_tokens, client_result, trackerVars, tokenVars,
                 request_id>>
-----------------------------------------------------------------------------
(* The handlers.                                                           *)

(* subscribe: a handler that finds its id taken goes without.              *)
Subscribe(r) ==
  IF subscribers[held[r].upstream] = None THEN
    /\ subscribers' = [subscribers EXCEPT ![held[r].upstream] = r]
    /\ cancel_rx' = [cancel_rx EXCEPT ![r] = "open"]
  ELSE UNCHANGED cancelVars

(* A handler is polled for the first time, after those before it, and      *)
(* supersedes the request before it (start_request).                       *)
StartRequest(r) ==
  /\ pc[r] = "sent" /\ \A q \in 1..(r - 1) : pc[q] # "sent"
  /\ next_request_id' = next_request_id + 1
  /\ request_id' = [request_id EXCEPT ![r] = next_request_id]

(* Up to the wait for the tree.                                            *)
Start(r) ==
  /\ StartRequest(r) /\ active_request' = next_request_id
  /\ Subscribe(r)
  /\ held' = [held EXCEPT ![r].edits = edits]
  /\ Goto(r, "waiting")
  /\ UNCHANGED <<documentVars, clientVars, tokenVars, answer>>

(* The language is unknown, or has no queries: it returns without tokens,  *)
(* and has superseded the request before it all the same.                  *)
StartWithoutLanguage(r) ==
  /\ StartRequest(r) /\ active_request' = None
  /\ Return(r, Answer("empty", None))
  /\ UNCHANGED <<client_tokens, client_result, tokenVars>>

Work(r, l) ==
  /\ held' = [held EXCEPT ![r].text = document]
  /\ Goto(r, l)
  /\ UNCHANGED <<documentVars, clientVars, cancelVars, trackerVars, tokenVars,
                 request_id, answer>>

(* get_tree_with_wait after the wait: the tree in the store, or a parse.   *)
GetTree(r) ==
  /\ pc[r] = "waiting"
  /\ \/ document = None /\ GiveUp(r, Answer("empty", None))
     \/ document # None /\ Work(r, "parsing")
     \/ document # None /\ IsActive(r) /\ Work(r, "computing")
     \/ document # None /\ Superseded(r)

(* Mutant: the text is compared before the computation only.               *)
NeverStale(r) == FALSE

(* check_text_staleness: the text is compared, not its version.            *)
Stale(r) == document # held[r].text

(* Mutant: the parse has no timeout and does not fail.                     *)
ParseSucceeds(r) ==
  /\ pc[r] = "parsing" /\ document = held[r].text
  /\ \/ IsActive(r) /\ Work(r, "computing")
     \/ Superseded(r)

(* The parse on demand ends: without a tree, or with that of a text that   *)
(* is no longer the stored one, there are no tokens.                       *)
ParseEnds(r) ==
  /\ pc[r] = "parsing"
  /\ \/ GiveUp(r, Answer("empty", None))
     \/ document = held[r].text /\ IsActive(r) /\ Work(r, "computing")
     \/ document = held[r].text /\ Superseded(r)

(* Mutant: the result id of the request is not compared.                   *)
AnyCached(r) ==
  IF cache # None /\ held[r].previous # None THEN cache.tokens ELSE None

(* get_tokens_if_valid(previous_result_id).                                *)
TokensIfValid(r) ==
  IF cache # None /\ cache.result = held[r].previous THEN cache.tokens ELSE None

(* What the client has after the answer: the tokens it had under the       *)
(* result id it asked with, edited as the delta from the cached ones to t  *)
(* says, or all of t.                                                      *)
Received(r, t) ==
  LET previous == TokensIfValid(r) IN
  IF previous = None THEN t
  ELSE ApplyDelta(client_tokens[held[r].previous], Delta(previous, t))

Receive(r, t) ==
  /\ client_result' = next_result_id
  /\ client_tokens' = [client_tokens EXCEPT ![next_result_id] = Received(r, t)]

(* The tokens get an id and are stored and returned in one piece: all of   *)
(* them, or the edits that make them from those of the previous result.    *)
Store(r) ==
  \E t \in {TokensOf[held[r].text], NoTokens} :
     /\ next_result_id' = next_result_id + 1
     /\ cache' = [result |-> next_result_id, tokens |-> t]
     /\ Receive(r, t)
     /\ Return(r, Answer("tokens", next_result_id)) /\ FinishRequest(r)
     /\ UNCHANGED <<next_request_id, request_id>>

(* The select! is biased: a cancel that has come wins.                     *)
NotCancelled(r) == cancel_rx[r] # "notified"

(* The computation ends: its result counts if the text is still the stored *)
(* one and no request superseded this one.                                 *)
ComputeEnds(r) ==
  /\ pc[r] = "computing" /\ NotCancelled(r)
  /\ \/ Stale(r) /\ GiveUp(r, Answer("null", None))
     \/ ~Stale(r) /\ Superseded(r)
     \/ ~Stale(r) /\ IsActive(r) /\ Store(r)

CancelSeen(r) ==
  /\ pc[r] = "computing" /\ cancel_rx[r] = "notified"
  /\ GiveUp(r, Answer("cancelled", None))

(* The service drops the future of a cancelled request, at any await, and  *)
(* answers itself: the guard is dropped, but the tracker keeps the entry.  *)
DropFuture(r) ==
  /\ r \in cancelled /\ r \in InFlight
  /\ Return(r, Answer("cancelled", None))
  /\ UNCHANGED <<client_tokens, client_result, trackerVars, tokenVars,
                 request_id>>
-----------------------------------------------------------------------------
Handle(r) ==
  \/ Start(r) \/ StartWithoutLanguage(r) \/ GetTree(r) \/ ParseEnds(r)
  \/ ComputeEnds(r) \/ CancelSeen(r)

Next ==
  \/ OpenOrChange \/ Close \/ Send
  \/ \E r \in Requests : CancelRequest(r) \/ Handle(r) \/ DropFuture(r)

Spec == Init /\ [][Next]_vars

(* A handler is polled again when its tree, its parse, which has a timeout, *)
(* or its computation is there.                                             *)
FairSpec == Spec /\ \A r \in Requests : WF_vars(Handle(r))
-----------------------------------------------------------------------------
HasTokens(r) == answer[r].type = "tokens"

ClientHasCached == cache # None => client_tokens[cache.result] = cache.tokens

ResultsComputed ==
  \A i \in ResultIds :
     client_tokens[i] # None =>
        client_tokens[i] \in {TokensOf[t] : t \in Texts} \cup {NoTokens}

(* What the client made of full results and deltas, whatever was answered, *)
(* superseded, closed and opened in between, are the tokens the server     *)
(* computed: for the last result those of its cache, and for every result  *)
(* the tokens of a text, or none.                                          *)
DeltaFitsClient == ClientHasCached /\ ResultsComputed

(* The cache has the last result that was handed out, and only while the   *)
(* document is open: a request that outlives its document stores nothing.  *)
CacheOfOpenDocument == cache # None => document # None

(* Tokens are answered in the order in which the requests started: one     *)
(* that was superseded never replaces the tokens of a later request.       *)
AnswersInOrder ==
  \A q, r \in Requests :
     /\ HasTokens(q) /\ HasTokens(r)
     /\ request_id[q] < request_id[r]
     => answer[q].result < answer[r].result

(* Tokens are of the text the store has when they are answered: an edit    *)
(* that came during the computation is not answered with older tokens.     *)
TokensOfCurrentText ==
  [][\A r \in Requests :
        HasTokens(r)' /\ ~HasTokens(r) =>
           /\ document # None
           /\ client_tokens'[answer'[r].result] \in {TokensOf[document], NoTokens}]_vars

(* The map of subscribers has exactly the handlers that are running and    *)
(* not informed yet, each under its own id, also when the client uses ids  *)
(* again: no handler goes without, and no sender outlives its handler.     *)
SubscribersRun ==
  \A u \in Upstreams, r \in Requests :
     subscribers[u] = r <=>
        r \in Running /\ held[r].upstream = u /\ cancel_rx[r] # "notified"

(* A handler that was informed of a cancel answers no tokens and leaves    *)
(* the cache alone, however far its computation was.                       *)
CancelHeeded ==
  \A r \in Requests : cancel_rx[r] = "notified" => ~HasTokens(r)

(* What the handlers and the store of tokens keep: their types, exact      *)
(* subscriptions, cancels that are heeded, nothing of a closed document.   *)
RequestsSafe ==
  TypeOK /\ SubscribersRun /\ CancelHeeded /\ CacheOfOpenDocument

(* A request is given up only for a later one or because its text is gone: *)
(* the end of an earlier request, however it ended, does not untrack it.   *)
GivenUpForCause ==
  [][\A r \in Requests :
        answer'[r].type = "null" /\ answer[r].type # "null" =>
           \/ edits > held[r].edits
           \/ request_id[r] + 1 < next_request_id]_vars

(* Of the three answers to a request that was not cancelled, tokens are    *)
(* given for the current text, and null only to one that is out of date.   *)
AnswersForCause == TokensOfCurrentText /\ GivenUpForCause

(* Every request is answered, cancelled or not (they are at most           *)
(* MaxRequests, so that a time comes when none is open).                   *)
EveryRequestAnswered ==
  InFlight # {} ~> InFlight = {}
=============================================================================
