---------------------------- MODULE HostDocument ----------------------------
(***************************************************************************)
(* One document of the client: its entry in the DocumentStore              *)
(* (document/store.rs), the handlers of didOpen, didChange and didClose    *)
(* with the parse each of them awaits (lsp/lsp_impl.rs), requests for      *)
(* semantic tokens, which wait for a tree or parse on demand, or compute   *)
(* those of a range while they keep the entry of the document locked       *)
(* (lsp_impl/text_document/semantic_tokens.rs), and requests for selection *)
(* ranges, which parse too (lsp_impl/text_document/selection_range.rs).    *)
(*                                                                         *)
(* Handlers are polled by one task, start in the order of the client's     *)
(* messages, at most MaxConcurrent at a time, and interleave at their      *)
(* awaits: an action is what a handler does from one await to the next.    *)
(* A text is the set of the numbers of the messages whose edits it has; a  *)
(* tree is "sound" when it is the tree of the text it is stored with, and  *)
(* may be "unsound" when the parser was given an old tree that does not    *)
(* fit the new text.  Language ids and the regions are left out.           *)
(*                                                                         *)
(* A DocumentHandle is a read lock of a DashMap shard, and writing to the  *)
(* map blocks the thread until it is dropped.  When the handler that has   *)
(* it awaits, that thread is the one that would have to poll it.           *)
(***************************************************************************)
EXTENDS Naturals, FiniteSets

CONSTANTS
  MaxMessages,    (* bound on the messages of the client                  *)
  MaxConcurrent,  (* handlers the server runs at once (tower-lsp's limit) *)
  None            (* no document in the store                             *)

Messages == 1..MaxMessages
Texts == SUBSET Messages
Trees == {"none", "sound", "unsound"}
Documents == [text : Texts, tree : Trees]

ASSUME HostAssumption ==
  /\ MaxMessages \in Nat /\ MaxConcurrent \in Nat \ {0}
  /\ None \notin Documents

VARIABLES
  client_open,   (* the client has the document open                        *)
  client_text,   (* the client's text                                       *)
  kind,          (* of each message of the client                           *)
  pc,            (* where the handler of each message is                    *)
  held,          (* what its handler holds (see Locals)                     *)
  blocked,       (* a handler waits, in its thread, for the document's lock *)
  document,      (* DocumentStore.documents                                 *)
  parse_state,   (* DocumentStore.parse_states, default when it is absent   *)
  overlapped     (* history: two handlers that set the text once overlapped *)

clientVars == <<client_open, client_text, kind>>
storeVars == <<document, parse_state>>
vars == <<clientVars, pc, held, blocked, storeVars, overlapped>>

ChangeKinds == {"change", "fullChange"}
RequestKinds == {"semantic", "range", "selection"}
TextKinds == {"open", "close", "selection"} \cup ChangeKinds
Parsing == {"acquiring", "parsing"}

(* The text in hand, the stored text it was made from, the old tree given  *)
(* to the parser, and the generation from mark_parse_started.              *)
Locals == [text : Texts, old_text : Texts, base : Trees, generation : Nat]
NoLocals == [text |-> {}, old_text |-> {}, base |-> "none", generation |-> 0]

DefaultParseState == [generation |-> 0, in_progress |-> FALSE, has_tree |-> FALSE]

TypeOK ==
  /\ client_open \in BOOLEAN /\ client_text \in Texts
  /\ kind \in [Messages -> TextKinds \cup RequestKinds \cup {None}]
  /\ pc \in [Messages -> {"unsent", "sent", "opened", "received", "waiting",
                          "onDemand", "ranging", "selecting", "done"}
                         \cup Parsing]
  /\ blocked \in BOOLEAN
  /\ held \in [Messages -> Locals]
  /\ document \in Documents \cup {None}
  /\ parse_state \in [generation : Nat, in_progress : BOOLEAN,
                      has_tree : BOOLEAN]
  /\ overlapped \in BOOLEAN

Init ==
  /\ client_open = FALSE /\ client_text = {}
  /\ kind = [m \in Messages |-> None]
  /\ pc = [m \in Messages |-> "unsent"]
  /\ held = [m \in Messages |-> NoLocals]
  /\ document = None /\ parse_state = DefaultParseState
  /\ overlapped = FALSE /\ blocked = FALSE

Goto(m, l) == pc' = [pc EXCEPT ![m] = l]

Running == {m \in Messages : pc[m] \notin {"unsent", "sent", "done"}}
-----------------------------------------------------------------------------
(* The client: it sends the messages of one document in order.             *)

(* The next message, of kind k: all but a close and a request edit the     *)
(* text (that of a document opened again may have changed meanwhile).      *)
Send(k) ==
  \E m \in Messages :
     LET t == IF k \in {"open"} \cup ChangeKinds THEN client_text \cup {m}
              ELSE client_text
     IN /\ pc[m] = "unsent" /\ \A n \in 1..(m - 1) : pc[n] # "unsent"
        /\ Goto(m, "sent")
        /\ kind' = [kind EXCEPT ![m] = k]
        /\ client_text' = t
        /\ held' = [held EXCEPT ![m].text = t]
        /\ UNCHANGED <<storeVars, overlapped>>

ClientOpens == ~client_open /\ client_open' = TRUE /\ Send("open")
ClientChanges ==
  /\ client_open /\ UNCHANGED client_open
  /\ \E k \in ChangeKinds : Send(k)
ClientCloses == client_open /\ client_open' = FALSE /\ Send("close")
ClientRequests ==
  /\ client_open /\ UNCHANGED client_open
  /\ \E k \in RequestKinds : Send(k)

(* The handler of m returns. *)
Finish(m) == Goto(m, "done") /\ held' = [held EXCEPT ![m] = NoLocals]

(* The handler of m is polled for the first time: those of the messages    *)
(* before it were, and there is room for one more.                         *)
Start(m) ==
  /\ pc[m] = "sent" /\ \A n \in 1..(m - 1) : pc[n] # "sent"
  /\ Cardinality(Running) < MaxConcurrent
  /\ overlapped' = \/ overlapped
                    \/ /\ kind[m] \in TextKinds
                       /\ \E n \in Running : kind[n] \in TextKinds
  /\ UNCHANGED clientVars
-----------------------------------------------------------------------------
(* The operations of the store.                                            *)

(* The handlers that have a DocumentHandle while they await.               *)
Holders == {m \in Messages : pc[m] = "ranging"}

(* An entry of the map is written when nobody has it locked. *)
Insert(t, tree) == Holders = {} /\ document' = [text |-> t, tree |-> tree]

(* mark_parse_finished(g, has_tree) after insert or update, which both set *)
(* has_tree themselves (update_tree_availability).                         *)
MarkParseFinished(g, has_tree) ==
  parse_state' =
    [parse_state EXCEPT !.has_tree = has_tree,
                        !.in_progress = @ /\ parse_state.generation # g]

(* Mutant: the tree is not announced to the requests that wait for one.    *)
UpdateSilently(t) == Insert(t, "sound") /\ UNCHANGED parse_state

(* update_document, with a tree, on a document that is there.              *)
UpdateDocument(t) ==
  /\ Insert(t, "sound")
  /\ parse_state' = [parse_state EXCEPT !.has_tree = TRUE]

(* Mutant: a text that could not be parsed is not stored.                  *)
ForgetUnparsed(m) ==
  /\ UNCHANGED document
  /\ MarkParseFinished(held[m].generation, FALSE)

(* The end of parse_document without a tree: the old tree goes as well.    *)
StoreUnparsed(m) ==
  /\ Insert(held[m].text, "none")
  /\ MarkParseFinished(held[m].generation, FALSE)

(* insert or update_document_with_edited_tree, then mark_parse_finished.   *)
StoreParsed(m) ==
  /\ Insert(held[m].text, IF held[m].base = "unsound" THEN "unsound" ELSE "sound")
  /\ MarkParseFinished(held[m].generation, TRUE)
-----------------------------------------------------------------------------
(* The handlers of didOpen, didChange and didClose.                        *)

(* did_open inserts the text at once, before it awaits a client            *)
(* notification or the installation of a parser.                           *)
DidOpen(m) ==
  /\ kind[m] = "open" /\ Start(m)
  /\ Insert(held[m].text, "none")
  /\ parse_state' = [parse_state EXCEPT !.has_tree = FALSE]
  /\ Goto(m, "opened") /\ UNCHANGED held

(* skip_parse: another handler is installing the language.                 *)
SkipParse(m) ==
  /\ pc[m] = "opened"
  /\ Finish(m)
  /\ UNCHANGED <<clientVars, storeVars, overlapped>>

(* The beginning of parse_document with text t, up to the lock of the      *)
(* parser pool: a language that is unknown or whose parser crashed before  *)
(* is stored unparsed without an await.                                    *)
BeginParse(m, t, old) ==
  LET g == parse_state.generation + 1 IN
  /\ UNCHANGED <<clientVars, overlapped>>
  /\ \/ /\ parse_state' = [generation |-> g, in_progress |-> TRUE,
                           has_tree |-> FALSE]
        /\ held' = [held EXCEPT ![m].text = t, ![m].old_text = old,
                                ![m].generation = g]
        /\ Goto(m, "acquiring")
        /\ UNCHANGED document
     \/ /\ parse_state' = [generation |-> g, in_progress |-> FALSE,
                           has_tree |-> FALSE]
        /\ Insert(t, "none")
        /\ Finish(m)

(* The document is parsed with the text it was opened with, at once or     *)
(* when its language has been installed.                                   *)
ParseOpened(m) ==
  pc[m] = "opened" /\ BeginParse(m, held[m].text, {})

(* did_change awaits the sending of a trace message first.                 *)
DidChange(m) ==
  /\ kind[m] \in ChangeKinds /\ Start(m)
  /\ Goto(m, "received")
  /\ UNCHANGED <<held, storeVars>>

(* It reads the stored text and edits it, and is over without a document.  *)
(* A change without a range replaces the text by that of the client.       *)
ReadText(m) ==
  /\ pc[m] = "received"
  /\ \/ /\ document = None
        /\ Finish(m)
        /\ UNCHANGED <<clientVars, storeVars, overlapped>>
     \/ /\ document # None
        /\ BeginParse(m, IF kind[m] = "change" THEN document.text \cup {m}
                         ELSE held[m].text,
                      document.text)

(* Mutant: the stored tree is handed to the parser as it is.               *)
OldTreeUnedited(m) ==
  CASE document = None -> "none"
    [] document # None /\ document.tree # "sound" -> document.tree
    [] OTHER -> IF document.text = held[m].text THEN "sound" ELSE "unsound"

(* The old tree given to the parser: the stored one, to which the edits of *)
(* a change were applied.  It fits the new text when the edits are to the  *)
(* text it was parsed from; without edits it must be that text's own.      *)
OldTree(m) ==
  CASE document = None -> "none"
    [] document # None /\ document.tree # "sound" -> document.tree
    [] OTHER -> LET fits == IF kind[m] = "change" THEN held[m].old_text
                            ELSE held[m].text
                IN IF document.text = fits THEN "sound" ELSE "unsound"

(* A parser is taken from the pool, if there is one for the language.      *)
AcquireParser(m) ==
  /\ pc[m] = "acquiring"
  /\ \/ /\ held' = [held EXCEPT ![m].base = OldTree(m)]
        /\ Goto(m, "parsing")
        /\ UNCHANGED storeVars
     \/ StoreUnparsed(m) /\ Finish(m)
  /\ UNCHANGED <<clientVars, overlapped>>

(* The parse ends, with a tree, or without one after ten seconds or a      *)
(* panic; the parser goes back to the pool and the result is stored.       *)
FinishParse(m) ==
  /\ pc[m] = "parsing"
  /\ StoreParsed(m) \/ StoreUnparsed(m)
  /\ Finish(m)
  /\ UNCHANGED <<clientVars, overlapped>>

DidClose(m) ==
  /\ kind[m] = "close" /\ Start(m)
  /\ Holders = {}
  /\ document' = None /\ parse_state' = DefaultParseState
  /\ Finish(m)
-----------------------------------------------------------------------------
(* A request for semantic tokens.                                          *)

(* It may return at once: its language is unknown or has no queries, or a  *)
(* later request superseded it.                                            *)
SemanticTokens(m) ==
  /\ kind[m] = "semantic" /\ Start(m)
  /\ Finish(m) \/ (Goto(m, "waiting") /\ UNCHANGED held)
  /\ UNCHANGED storeVars

(* The tree in the store, or else a parse of the stored text: once         *)
(* wait_for_parse_completion is over.                                      *)
GetTree(m) ==
  /\ IF document = None \/ document.tree # "none" THEN Finish(m)
     ELSE /\ held' = [held EXCEPT ![m].text = document.text]
          /\ Goto(m, "onDemand")
  /\ UNCHANGED <<clientVars, storeVars, overlapped>>

(* Mutant: the wait has no timeout.                                        *)
WaitForTree(m) ==
  /\ pc[m] = "waiting" /\ parse_state.has_tree
  /\ GetTree(m)

(* wait_for_parse_completion: has_tree is set, the document was closed, or *)
(* 200 ms have passed, which may be at any time.                           *)
WaitForParseCompletion(m) == pc[m] = "waiting" /\ GetTree(m)

(* try_parse_and_update_document: the tree is kept if the text is still    *)
(* the stored one and has no tree yet.                                     *)
UpdateIfCurrent(m) ==
  /\ document # None /\ document.text = held[m].text /\ document.tree = "none"
  /\ UpdateDocument(held[m].text)

(* The parse on demand ends, or fails, or its request is cancelled.        *)
ParseOnDemand(m) ==
  /\ pc[m] = "onDemand"
  /\ UpdateIfCurrent(m) \/ UNCHANGED storeVars
  /\ Finish(m)
  /\ UNCHANGED <<clientVars, overlapped>>
-----------------------------------------------------------------------------
(* A request for the tokens of a range.                                    *)

(* It has nothing to do without a document and a tree, or it computes and  *)
(* keeps its handle of the document.                                       *)
SemanticTokensRange(m) ==
  /\ kind[m] = "range" /\ Start(m)
  /\ \/ Finish(m)
     \/ /\ document # None /\ document.tree # "none"
        /\ Goto(m, "ranging") /\ UNCHANGED held
  /\ UNCHANGED storeVars

(* The tokens are computed, or the request is cancelled: the handle goes.  *)
RangeDone(m) ==
  /\ pc[m] = "ranging"
  /\ Finish(m)
  /\ UNCHANGED <<clientVars, storeVars, overlapped>>
-----------------------------------------------------------------------------
(* A request for selection ranges.                                         *)

(* With a tree, or without a document or its language, it ends at once; a  *)
(* document without a tree is parsed.                                      *)
SelectionRange(m) ==
  /\ kind[m] = "selection" /\ Start(m)
  /\ \/ Finish(m)
     \/ /\ document # None /\ document.tree = "none"
        /\ held' = [held EXCEPT ![m].text = document.text]
        /\ Goto(m, "selecting")
  /\ UNCHANGED storeVars

(* The parse ends and is stored with the text it was made from, whatever   *)
(* the store has by now; or it fails or is cancelled.                      *)
SelectionParsed(m) ==
  /\ pc[m] = "selecting"
  /\ UpdateDocument(held[m].text) \/ UNCHANGED storeVars
  /\ Finish(m)
  /\ UNCHANGED <<clientVars, overlapped>>
-----------------------------------------------------------------------------
(* The handlers about to write the entry of the document.                  *)
Writers ==
  {m \in Messages :
     \/ pc[m] \in {"opened", "received", "selecting"} \cup Parsing
     \/ pc[m] = "onDemand" /\ document # None /\ document.text = held[m].text
     \/ pc[m] = "sent" /\ kind[m] \in {"open", "close"}
        /\ (\A n \in 1..(m - 1) : pc[n] # "sent")
        /\ Cardinality(Running) < MaxConcurrent}

(* A handler writes while another one awaits with its handle: the thread   *)
(* that polls them both is blocked.                                        *)
Block ==
  /\ Holders # {} /\ Writers # {} /\ ~blocked
  /\ blocked' = TRUE
  /\ UNCHANGED <<clientVars, pc, held, storeVars, overlapped>>

Handle(m) ==
  \/ DidOpen(m) \/ SkipParse(m) \/ ParseOpened(m)
  \/ DidChange(m) \/ ReadText(m) \/ AcquireParser(m) \/ FinishParse(m)
  \/ DidClose(m)
  \/ SemanticTokens(m) \/ WaitForParseCompletion(m) \/ ParseOnDemand(m)
  \/ SemanticTokensRange(m) \/ RangeDone(m)
  \/ SelectionRange(m) \/ SelectionParsed(m)

Client == ClientOpens \/ ClientChanges \/ ClientCloses \/ ClientRequests

Next ==
  \/ Client /\ UNCHANGED blocked
  \/ \E m \in Messages : ~blocked /\ Handle(m) /\ UNCHANGED blocked
  \/ Block

Spec == Init /\ [][Next]_vars

(* Each handler is polled again once what it awaits is there, and every    *)
(* parse and wait has a timeout.                                           *)
FairSpec ==
  /\ Spec
  /\ \A m \in Messages : WF_vars(~blocked /\ Handle(m) /\ UNCHANGED blocked)
-----------------------------------------------------------------------------
Quiet == \A m \in Messages : pc[m] \in {"unsent", "done"}

(* When the handlers of didOpen, didChange and didClose ran one after the  *)
(* other, the store has the client's text once they are done, and nothing  *)
(* of a document that is closed: failed parses, skipped ones, and requests *)
(* that parse meanwhile and store what they parsed do not lose an edit or  *)
(* bring back a document.                                                  *)
TextKept ==
  ~overlapped /\ Quiet =>
     IF client_open THEN document # None /\ document.text = client_text
     ELSE document = None

(* The watch channel on which requests wait says what the store has: a     *)
(* tree is announced only if it is there, and is announced when no parse   *)
(* is on its way to replace it, whichever parse of which generation came   *)
(* last, with the document closed and opened again in between or not.      *)
TreeIsAnnounced ==
  LET has_tree == document # None /\ document.tree # "none" IN
  /\ parse_state.has_tree => has_tree
  /\ has_tree /\ (\A m \in Messages : pc[m] \notin Parsing) =>
        parse_state.has_tree

(* The store keeps its types and announces the trees it has.               *)
StoreSafe == TypeOK /\ TreeIsAnnounced

(* A request for tokens adds a tree to the text that is stored, or changes *)
(* nothing: it never brings back the text it read before its parse, and    *)
(* never replaces the tree of the handler of a change.                     *)
RequestsKeepText ==
  [][\A m \in Messages :
        pc[m] = "onDemand" /\ pc'[m] = "done" /\ document' # document =>
           /\ document # None /\ document.tree = "none"
           /\ document'.text = document.text]_vars

(* A tree in the store is the tree of the text it is stored with, if every *)
(* change says what it edits: the edits applied to the old tree lead to    *)
(* the text that is parsed, whichever parses failed before and whoever     *)
(* stored the old tree.  (With overlapping handlers an incremental parse   *)
(* may start from the tree of another text than its edits are made to.)    *)
TreeIsOfText ==
  /\ ~overlapped /\ (\A m \in Messages : kind[m] # "fullChange")
  /\ document # None
  => document.tree # "unsound"

(* Every message is handled to its end: no handler waits for a tree that   *)
(* never comes, or holds its place among the concurrent ones for good,     *)
(* unless one of them blocks the thread of all.                            *)
EveryHandlerEnds ==
  \A m \in Messages : pc[m] = "sent" ~> (pc[m] = "done" \/ blocked)
=============================================================================
