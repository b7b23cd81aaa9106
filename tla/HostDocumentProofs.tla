------------------------- MODULE HostDocumentProofs -------------------------
(***************************************************************************)
(* The store of HostDocument is well typed, announces the trees it has,    *)
(* keeps its text when a request parses on demand, ends with the client's  *)
(* text, and stores trees with the texts they were made from, for any      *)
(* number of messages and of handlers that run at once.                    *)
(***************************************************************************)
EXTENDS HostDocument, TLAPS

(* The part of TypeOK these theorems rest on: a generation is any number.  *)
StoreTypes ==
  /\ DOMAIN pc = Messages
  /\ client_text \in Texts
  /\ held \in [Messages -> [text : Texts, old_text : Texts, base : Trees,
                            generation : Nat]]
  /\ document \in Documents \cup {None}
  /\ parse_state \in [generation : Nat, in_progress : BOOLEAN,
                      has_tree : BOOLEAN]

StoreInv == StoreTypes /\ TreeIsAnnounced

HasTree == document # None /\ document.tree # "none"
Parsers == {m \in Messages : pc[m] \in Parsing}

LEMMA InitStore == Init => StoreInv
  BY DEF Init, StoreInv, StoreTypes, TreeIsAnnounced, Messages, Texts, Trees,
         NoLocals, DefaultParseState

(* Stored texts and trees are there. *)
LEMMA InsertStores ==
  ASSUME NEW t \in Texts, NEW tree \in Trees, Insert(t, tree)
  PROVE  /\ document' \in Documents /\ document' # None
         /\ document'.tree = tree /\ document'.text = t
  BY HostAssumption DEF Insert, Documents

LEMMA FinishTypes ==
  ASSUME StoreTypes, NEW m \in Messages, Finish(m)
  PROVE  /\ DOMAIN pc' = Messages
         /\ held' \in [Messages -> [text : Texts, old_text : Texts, base : Trees,
                                    generation : Nat]]
         /\ Parsers' \subseteq Parsers
  BY DEF Finish, Goto, StoreTypes, NoLocals, Texts, Trees, Parsers, Parsing

LEMMA GotoTypes ==
  ASSUME StoreTypes, NEW m \in Messages, NEW l, Goto(m, l)
  PROVE  /\ DOMAIN pc' = Messages
         /\ l \notin Parsing => Parsers' \subseteq Parsers
         /\ l \in Parsing => m \in Parsers'
         /\ \A n \in Parsers : n # m => n \in Parsers'
  BY DEF Goto, StoreTypes, Parsers

(* The end of parse_document keeps the store well typed and announced. *)
LEMMA StoresKeepInv ==
  ASSUME StoreTypes, NEW m \in Messages, StoreUnparsed(m) \/ StoreParsed(m)
  PROVE  /\ document' \in Documents
         /\ parse_state' \in [generation : Nat, in_progress : BOOLEAN,
                              has_tree : BOOLEAN]
         /\ parse_state'.has_tree <=> HasTree'
<1>1. held[m].text \in Texts
  BY DEF StoreTypes
<1>2. CASE StoreUnparsed(m)
  <2>1. document' \in Documents /\ document'.tree = "none"
    BY <1>1, <1>2, InsertStores DEF StoreUnparsed, Trees
  <2>2. QED
    BY <1>2, <2>1 DEF StoreUnparsed, MarkParseFinished, StoreTypes, HasTree
<1>3. CASE StoreParsed(m)
  <2> DEFINE tree == IF held[m].base = "unsound" THEN "unsound" ELSE "sound"
  <2>1. tree \in Trees /\ tree # "none"
    BY DEF Trees
  <2>2. document' \in Documents /\ document' # None /\ document'.tree = tree
    BY <1>1, <1>3, <2>1, InsertStores DEF StoreParsed
  <2>3. QED
    BY <1>3, <2>1, <2>2 DEF StoreParsed, MarkParseFinished, StoreTypes, HasTree
<1>4. QED
  BY <1>2, <1>3

(* Both parts of the invariant from the next values of the store. *)
LEMMA AnnouncedNext ==
  ASSUME StoreTypes', parse_state'.has_tree => HasTree',
         HasTree' /\ ~parse_state'.has_tree => Parsers' # {}
  PROVE  StoreInv'
  BY DEF StoreInv, TreeIsAnnounced, HasTree, Parsers

LEMMA BeginParseKeepsInv ==
  ASSUME StoreInv, NEW m \in Messages, NEW t \in Texts, NEW old \in Texts,
         BeginParse(m, t, old)
  PROVE  StoreInv'
<1> DEFINE g == parse_state.generation + 1
<1>1. g \in Nat
  BY DEF StoreInv, StoreTypes
<1>2. client_text' \in Texts
  BY DEF BeginParse, clientVars, StoreInv, StoreTypes
<1>3. CASE /\ parse_state' = [generation |-> g, in_progress |-> TRUE,
                              has_tree |-> FALSE]
           /\ held' = [held EXCEPT ![m].text = t, ![m].old_text = old,
                                   ![m].generation = g]
           /\ Goto(m, "acquiring") /\ UNCHANGED document
  <2>1. DOMAIN pc' = Messages /\ m \in Parsers'
    BY <1>3, GotoTypes DEF StoreInv, Parsing
  <2>2. held' \in [Messages -> [text : Texts, old_text : Texts, base : Trees,
                                generation : Nat]]
    BY <1>1, <1>3 DEF StoreInv, StoreTypes
  <2>3. QED
    BY <1>1, <1>2, <1>3, <2>1, <2>2, AnnouncedNext DEF StoreInv, StoreTypes
<1>4. CASE /\ parse_state' = [generation |-> g, in_progress |-> FALSE,
                              has_tree |-> FALSE]
           /\ Insert(t, "none") /\ Finish(m)
  <2>1. document' \in Documents /\ ~HasTree'
    BY <1>4, InsertStores DEF Trees, HasTree
  <2>2. QED
    BY <1>1, <1>2, <1>4, <2>1, FinishTypes, AnnouncedNext
       DEF StoreInv, StoreTypes
<1>5. QED
  BY <1>3, <1>4 DEF BeginParse

(* A step that leaves the store alone and starts no parse. *)
LEMMA OthersKeepInv ==
  ASSUME StoreInv, UNCHANGED storeVars, DOMAIN pc' = Messages,
         client_text' \in Texts,
         held' \in [Messages -> [text : Texts, old_text : Texts, base : Trees,
                                 generation : Nat]],
         HasTree /\ ~parse_state.has_tree => Parsers' # {}
  PROVE  StoreInv'
  BY AnnouncedNext DEF StoreInv, StoreTypes, TreeIsAnnounced, storeVars, HasTree

LEMMA ParsersWait ==
  ASSUME StoreInv
  PROVE  /\ HasTree /\ ~parse_state.has_tree => Parsers # {}
         /\ parse_state.has_tree => HasTree
  BY DEF StoreInv, TreeIsAnnounced, HasTree, Parsers

-----------------------------------------------------------------------------
(* The client's messages change nothing that is stored. *)
LEMMA ClientKeepsInv ==
  ASSUME StoreInv,
         ClientOpens \/ ClientChanges \/ ClientCloses \/ ClientRequests
  PROVE  StoreInv'
<1>0. PICK k : Send(k)
  BY DEF ClientOpens, ClientChanges, ClientCloses, ClientRequests
<1>1. PICK m \in Messages :
        LET t == IF k \in {"open"} \cup ChangeKinds THEN client_text \cup {m}
                 ELSE client_text
        IN /\ pc[m] = "unsent" /\ Goto(m, "sent")
           /\ client_text' = t /\ held' = [held EXCEPT ![m].text = t]
           /\ UNCHANGED storeVars
  BY <1>0 DEF Send
<1> DEFINE t == IF k \in {"open"} \cup ChangeKinds THEN client_text \cup {m}
                ELSE client_text
<1>2. t \in Texts
  BY DEF StoreInv, StoreTypes, Texts
<1>3. held' \in [Messages -> [text : Texts, old_text : Texts, base : Trees,
                              generation : Nat]]
  BY <1>1, <1>2 DEF StoreInv, StoreTypes
<1>4. DOMAIN pc' = Messages /\ (Parsers # {} => Parsers' # {})
  <2>1. m \notin Parsers
    BY <1>1 DEF Parsers, Parsing
  <2>2. QED
    BY <1>1, <2>1, GotoTypes DEF StoreInv
<1>5. QED
  BY <1>1, <1>2, <1>3, <1>4, OthersKeepInv, ParsersWait

(* One case for each step of a handler. *)
LEMMA HandleKeepsInv ==
  ASSUME StoreInv, NEW m \in Messages, Handle(m)
  PROVE  StoreInv'
<1> USE DEF clientVars
<1>1. StoreTypes
  BY DEF StoreInv
<1>2. CASE DidOpen(m)
  <2>1. document' \in Documents /\ ~HasTree'
    BY <1>1, <1>2, InsertStores DEF DidOpen, StoreTypes, Trees, HasTree
  <2>2. DOMAIN pc' = Messages
    BY <1>1, <1>2, GotoTypes DEF DidOpen
  <2>3. QED
    BY <1>1, <1>2, <2>1, <2>2, AnnouncedNext DEF DidOpen, Start, StoreTypes
<1>3. CASE SkipParse(m)
  <2>1. m \notin Parsers
    BY <1>3 DEF SkipParse, Parsers, Parsing
  <2>2. Parsers # {} => Parsers' # {}
    BY <1>1, <1>3, <2>1 DEF SkipParse, Finish, Goto, StoreTypes, Parsers
  <2>3. QED
    BY <1>1, <1>3, <2>2, FinishTypes, OthersKeepInv, ParsersWait
       DEF SkipParse, StoreTypes
<1>4. CASE ParseOpened(m)
  <2>1. held[m].text \in Texts /\ {} \in Texts
    BY <1>1 DEF StoreTypes, Texts
  <2>2. QED
    BY <1>4, <2>1, BeginParseKeepsInv DEF ParseOpened
<1>5. CASE DidChange(m)
  <2>1. m \notin Parsers
    BY <1>5 DEF DidChange, Start, Parsers, Parsing
  <2>2. DOMAIN pc' = Messages /\ (Parsers # {} => Parsers' # {})
    BY <1>1, <1>5, <2>1, GotoTypes DEF DidChange
  <2>3. QED
    BY <1>1, <1>5, <2>2, OthersKeepInv, ParsersWait
       DEF DidChange, Start, StoreTypes
<1>6. CASE ReadText(m)
  <2>1. CASE document = None /\ Finish(m) /\ UNCHANGED <<clientVars, storeVars>>
    <3>1. ~HasTree
      BY <2>1 DEF HasTree
    <3>2. QED
      BY <1>1, <2>1, <3>1, FinishTypes, OthersKeepInv, ParsersWait DEF StoreTypes
  <2>2. ASSUME document # None, NEW t, t = document.text \cup {m} \/ t = held[m].text,
               BeginParse(m, t, document.text)
        PROVE  StoreInv'
    <3>1. document.text \in Texts /\ t \in Texts
      BY <1>1, <2>2 DEF StoreTypes, Documents, Texts
    <3>2. QED
      BY <2>2, <3>1, BeginParseKeepsInv
  <2>3. QED
    BY <1>6, <2>1, <2>2 DEF ReadText
<1>7. CASE AcquireParser(m)
  <2>1. CASE /\ held' = [held EXCEPT ![m].base = OldTree(m)]
             /\ Goto(m, "parsing") /\ UNCHANGED storeVars
    <3>1. OldTree(m) \in Trees
      BY <1>1 DEF OldTree, StoreTypes, Documents, Trees
    <3>2. held' \in [Messages -> [text : Texts, old_text : Texts, base : Trees,
                                  generation : Nat]]
      BY <1>1, <2>1, <3>1 DEF StoreTypes
    <3>3. DOMAIN pc' = Messages /\ m \in Parsers'
      BY <1>1, <2>1, GotoTypes DEF Parsing
    <3>4. QED
      BY <1>1, <1>7, <2>1, <3>2, <3>3, OthersKeepInv
         DEF AcquireParser, StoreTypes
  <2>2. CASE StoreUnparsed(m) /\ Finish(m)
    BY <1>1, <1>7, <2>2, StoresKeepInv, FinishTypes, AnnouncedNext
       DEF AcquireParser, StoreTypes
  <2>3. QED
    BY <1>7, <2>1, <2>2 DEF AcquireParser
<1>8. CASE FinishParse(m)
  BY <1>1, <1>8, StoresKeepInv, FinishTypes, AnnouncedNext
     DEF FinishParse, StoreTypes
<1>9. CASE DidClose(m)
  <2>1. ~HasTree' /\ document' = None
    BY <1>9 DEF DidClose, HasTree
  <2>2. QED
    BY <1>1, <1>9, <2>1, FinishTypes, AnnouncedNext
       DEF DidClose, Start, StoreTypes, DefaultParseState
<1>10. CASE SemanticTokens(m)
  <2>1. m \notin Parsers
    BY <1>10 DEF SemanticTokens, Start, Parsers, Parsing
  <2>2. DOMAIN pc' = Messages /\ (Parsers # {} => Parsers' # {})
    BY <1>1, <1>10, <2>1, GotoTypes
       DEF SemanticTokens, Finish
  <2>3. held' \in [Messages -> [text : Texts, old_text : Texts, base : Trees,
                                generation : Nat]]
    BY <1>1, <1>10, FinishTypes DEF SemanticTokens, StoreTypes
  <2>4. QED
    BY <1>1, <1>10, <2>2, <2>3, OthersKeepInv, ParsersWait
       DEF SemanticTokens, Start, StoreTypes
<1>11. CASE WaitForParseCompletion(m)
  <2>1. m \notin Parsers
    BY <1>11 DEF WaitForParseCompletion, Parsers, Parsing
  <2>2. DOMAIN pc' = Messages /\ (Parsers # {} => Parsers' # {})
    BY <1>1, <1>11, <2>1, GotoTypes
       DEF WaitForParseCompletion, GetTree, Finish
  <2>3. CASE Finish(m)
    BY <1>1, <1>11, <2>2, <2>3, FinishTypes, OthersKeepInv, ParsersWait
       DEF WaitForParseCompletion, GetTree, StoreTypes
  <2>4. CASE document # None /\ held' = [held EXCEPT ![m].text = document.text]
    <3>1. document.text \in Texts
      BY <1>1, <2>4 DEF StoreTypes, Documents
    <3>2. held' \in [Messages -> [text : Texts, old_text : Texts, base : Trees,
                                  generation : Nat]]
      BY <1>1, <2>4, <3>1 DEF StoreTypes
    <3>3. QED
      BY <1>1, <1>11, <2>2, <3>2, OthersKeepInv, ParsersWait
         DEF WaitForParseCompletion, GetTree, StoreTypes
  <2>5. QED
    BY <1>11, <2>3, <2>4 DEF WaitForParseCompletion, GetTree
<1>12. CASE ParseOnDemand(m)
  <2>1. CASE UpdateIfCurrent(m)
    <3>1. document' \in Documents /\ HasTree'
      BY <1>1, <2>1, InsertStores
         DEF UpdateIfCurrent, UpdateDocument, StoreTypes, Trees, HasTree
    <3>2. /\ parse_state'.has_tree
          /\ parse_state' \in [generation : Nat, in_progress : BOOLEAN,
                                has_tree : BOOLEAN]
      BY <1>1, <2>1 DEF UpdateIfCurrent, UpdateDocument, StoreTypes
    <3>3. QED
      BY <1>1, <1>12, <3>1, <3>2, FinishTypes, AnnouncedNext
         DEF ParseOnDemand, StoreTypes
  <2>2. CASE UNCHANGED storeVars
    <3>1. m \notin Parsers
      BY <1>12 DEF ParseOnDemand, Parsers, Parsing
    <3>2. Parsers # {} => Parsers' # {}
      BY <1>1, <1>12, <3>1, GotoTypes DEF ParseOnDemand, Finish
    <3>3. QED
      BY <1>1, <1>12, <2>2, <3>2, FinishTypes, OthersKeepInv, ParsersWait
         DEF ParseOnDemand, StoreTypes
  <2>3. QED
    BY <1>12, <2>1, <2>2 DEF ParseOnDemand
<1>13. CASE SemanticTokensRange(m) \/ RangeDone(m)
  <2>1. m \notin Parsers
    BY <1>13 DEF SemanticTokensRange, RangeDone, Start, Parsers, Parsing
  <2>2. DOMAIN pc' = Messages /\ (Parsers # {} => Parsers' # {})
    BY <1>1, <1>13, <2>1, GotoTypes DEF SemanticTokensRange, RangeDone, Finish
  <2>3. held' \in [Messages -> [text : Texts, old_text : Texts, base : Trees,
                                generation : Nat]]
    BY <1>1, <1>13, FinishTypes
       DEF SemanticTokensRange, RangeDone, StoreTypes
  <2>4. QED
    BY <1>1, <1>13, <2>2, <2>3, OthersKeepInv, ParsersWait
       DEF SemanticTokensRange, RangeDone, Start, StoreTypes
<1>14. CASE SelectionRange(m)
  <2>1. m \notin Parsers
    BY <1>14 DEF SelectionRange, Start, Parsers, Parsing
  <2>2. DOMAIN pc' = Messages /\ (Parsers # {} => Parsers' # {})
    BY <1>1, <1>14, <2>1, GotoTypes DEF SelectionRange, Finish
  <2>3. CASE Finish(m)
    BY <1>1, <1>14, <2>2, <2>3, FinishTypes, OthersKeepInv, ParsersWait
       DEF SelectionRange, Start, StoreTypes
  <2>4. CASE document # None /\ held' = [held EXCEPT ![m].text = document.text]
    <3>1. document.text \in Texts
      BY <1>1, <2>4 DEF StoreTypes, Documents
    <3>2. held' \in [Messages -> [text : Texts, old_text : Texts, base : Trees,
                                  generation : Nat]]
      BY <1>1, <2>4, <3>1 DEF StoreTypes
    <3>3. QED
      BY <1>1, <1>14, <2>2, <3>2, OthersKeepInv, ParsersWait
         DEF SelectionRange, Start, StoreTypes
  <2>5. QED
    BY <1>14, <2>3, <2>4 DEF SelectionRange
<1>15. CASE SelectionParsed(m)
  <2>1. CASE UpdateDocument(held[m].text)
    <3>0. held[m].text \in Texts
      BY <1>1 DEF StoreTypes
    <3>1. document' \in Documents /\ HasTree'
      BY <2>1, <3>0, InsertStores DEF UpdateDocument, Trees, HasTree
    <3>2. /\ parse_state'.has_tree
          /\ parse_state' \in [generation : Nat, in_progress : BOOLEAN,
                                has_tree : BOOLEAN]
      BY <1>1, <2>1 DEF UpdateDocument, StoreTypes
    <3>3. QED
      BY <1>1, <1>15, <3>1, <3>2, FinishTypes, AnnouncedNext
         DEF SelectionParsed, StoreTypes
  <2>2. CASE UNCHANGED storeVars
    <3>1. m \notin Parsers
      BY <1>15 DEF SelectionParsed, Parsers, Parsing
    <3>2. Parsers # {} => Parsers' # {}
      BY <1>1, <1>15, <3>1, GotoTypes DEF SelectionParsed, Finish
    <3>3. QED
      BY <1>1, <1>15, <2>2, <3>2, FinishTypes, OthersKeepInv, ParsersWait
         DEF SelectionParsed, StoreTypes
  <2>3. QED
    BY <1>15, <2>1, <2>2 DEF SelectionParsed
<1>16. QED
  BY <1>2, <1>3, <1>4, <1>5, <1>6, <1>7, <1>8, <1>9, <1>10, <1>11, <1>12,
     <1>13, <1>14, <1>15 DEF Handle

(* The rest of TypeOK: the client, the places of the handlers. *)
Kinds == TextKinds \cup RequestKinds \cup {None}
Places == {"unsent", "sent", "opened", "received", "waiting", "onDemand",
           "ranging", "selecting", "done"} \cup Parsing

ControlTypes ==
  /\ client_open \in BOOLEAN /\ kind \in [Messages -> Kinds]
  /\ pc \in [Messages -> Places]
  /\ blocked \in BOOLEAN /\ overlapped \in BOOLEAN

LEMMA PlacesKept ==
  ASSUME ControlTypes, NEW m \in Messages, NEW l \in Places, Goto(m, l)
  PROVE  pc' \in [Messages -> Places]
  BY DEF ControlTypes, Goto

(* A handler goes from one place to another and leaves the client alone. *)
LEMMA HandleKeepsPlaces ==
  ASSUME ControlTypes, NEW m \in Messages, Handle(m)
  PROVE  /\ UNCHANGED clientVars /\ overlapped' \in BOOLEAN
         /\ \E l \in Places : Goto(m, l)
<1> USE DEF ControlTypes, Places, Parsing, Finish
<1>1. CASE DidOpen(m)
  BY <1>1 DEF DidOpen, Start
<1>2. CASE SkipParse(m)
  BY <1>2 DEF SkipParse
<1>3. CASE ParseOpened(m)
  BY <1>3 DEF ParseOpened, BeginParse
<1>4. CASE DidChange(m)
  BY <1>4 DEF DidChange, Start
<1>5. CASE ReadText(m)
  BY <1>5 DEF ReadText, BeginParse
<1>6. CASE AcquireParser(m)
  BY <1>6 DEF AcquireParser
<1>7. CASE FinishParse(m)
  BY <1>7 DEF FinishParse
<1>8. CASE DidClose(m)
  BY <1>8 DEF DidClose, Start
<1>9. CASE SemanticTokens(m)
  BY <1>9 DEF SemanticTokens, Start
<1>10. CASE WaitForParseCompletion(m)
  BY <1>10 DEF WaitForParseCompletion, GetTree
<1>11. CASE ParseOnDemand(m)
  BY <1>11 DEF ParseOnDemand
<1>12. CASE SemanticTokensRange(m) \/ RangeDone(m)
  BY <1>12 DEF SemanticTokensRange, RangeDone, Start
<1>13. CASE SelectionRange(m) \/ SelectionParsed(m)
  BY <1>13 DEF SelectionRange, SelectionParsed, Start
<1>14. QED
  BY <1>1, <1>2, <1>3, <1>4, <1>5, <1>6, <1>7, <1>8, <1>9, <1>10, <1>11, <1>12,
     <1>13 DEF Handle

(* The client sends a message of one of its kinds. *)
LEMMA ClientKeepsControl ==
  ASSUME ControlTypes, Client
  PROVE  /\ client_open' \in BOOLEAN /\ kind' \in [Messages -> Kinds]
         /\ pc' \in [Messages -> Places] /\ overlapped' \in BOOLEAN
<1>1. PICK k \in Kinds : Send(k) /\ client_open' \in BOOLEAN
  BY DEF Client, ClientOpens, ClientChanges, ClientCloses, ClientRequests,
         Kinds, TextKinds, ChangeKinds, RequestKinds, ControlTypes
<1>2. PICK m \in Messages :
        /\ Goto(m, "sent") /\ kind' = [kind EXCEPT ![m] = k]
        /\ UNCHANGED overlapped
  BY <1>1 DEF Send
<1>3. "sent" \in Places
  BY DEF Places
<1>4. QED
  BY <1>1, <1>2, <1>3, PlacesKept DEF ControlTypes

LEMMA ControlInvariant == Spec => []ControlTypes
<1>1. Init => ControlTypes
  BY DEF Init, ControlTypes, Kinds, Places
<1>2. ControlTypes /\ [Next]_vars => ControlTypes'
  <2> SUFFICES ASSUME ControlTypes, [Next]_vars PROVE ControlTypes'
    OBVIOUS
  <2>1. CASE UNCHANGED vars
    BY <2>1 DEF vars, clientVars, ControlTypes
  <2>2. CASE Client /\ UNCHANGED blocked
    BY <2>2, ClientKeepsControl DEF ControlTypes
  <2>3. ASSUME NEW m \in Messages, Handle(m), UNCHANGED blocked
        PROVE  ControlTypes'
    BY <2>3, HandleKeepsPlaces, PlacesKept DEF clientVars, ControlTypes
  <2>4. CASE Block
    BY <2>4 DEF Block, clientVars, ControlTypes
  <2>5. QED
    BY <2>1, <2>2, <2>3, <2>4 DEF Next
<1>3. QED
  BY <1>1, <1>2, PTL DEF Spec

LEMMA StoreInvariant == Spec => []StoreInv
<1>1. StoreInv /\ [Next]_vars => StoreInv'
  <2> SUFFICES ASSUME StoreInv, [Next]_vars PROVE StoreInv'
    OBVIOUS
  <2>1. CASE UNCHANGED vars
    BY <2>1 DEF vars, clientVars, storeVars, StoreInv, StoreTypes, TreeIsAnnounced
  <2>2. CASE Block
    BY <2>2 DEF Block, clientVars, storeVars, StoreInv, StoreTypes,
                TreeIsAnnounced
  <2>3. QED
    BY <2>1, <2>2, ClientKeepsInv, HandleKeepsInv DEF Next, Client
<1>2. QED
  BY <1>1, InitStore, PTL DEF Spec

(* The watch channel on which requests for tokens wait never says that a   *)
(* tree is there when there is none, and keeps no tree to itself, for any  *)
(* number of messages and of concurrent handlers, whichever parse ends     *)
(* last and whether the document was closed in between (parse_document,    *)
(* try_parse_and_update_document and DocumentStore's operations).          *)
THEOREM WaitersAreTold == Spec => []TreeIsAnnounced
<1>1. StoreInv => TreeIsAnnounced
  BY DEF StoreInv
<1>2. QED
  BY <1>1, StoreInvariant, PTL

-----------------------------------------------------------------------------
(* The store and its handlers keep their types, too.                       *)
THEOREM StoreIsSafe == Spec => []StoreSafe
<1>1. StoreInv /\ ControlTypes => StoreSafe
  BY DEF StoreInv, StoreTypes, ControlTypes, Kinds, Places, StoreSafe, TypeOK,
         Locals
<1>2. QED
  BY <1>1, StoreInvariant, ControlInvariant, PTL
-----------------------------------------------------------------------------
(* A request that parses on demand (try_parse_and_update_document) adds a  *)
(* tree to the text that is stored or changes nothing, however many        *)
(* handlers stored other texts and trees while it parsed.                  *)
THEOREM RequestsOnlyAddTrees == Spec => RequestsKeepText
<1>1. ASSUME StoreInv, [Next]_vars, NEW m \in Messages,
             pc[m] = "onDemand", pc'[m] = "done", document' # document
      PROVE  /\ document # None /\ document.tree = "none"
             /\ document'.text = document.text
  <2>1. ParseOnDemand(m)
    <3>1. Next
      BY <1>1 DEF vars, storeVars
    <3>2. \A n \in Messages : n # m => ~Handle(n)
      <4>1. ASSUME NEW n \in Messages, n # m, Handle(n) PROVE FALSE
        <5>1. \E l : pc' = [pc EXCEPT ![n] = l]
          BY <4>1 DEF Handle, DidOpen, SkipParse, ParseOpened, DidChange,
             ReadText, AcquireParser, FinishParse, DidClose, SemanticTokens,
             WaitForParseCompletion, GetTree, ParseOnDemand, BeginParse,
             SemanticTokensRange, RangeDone, SelectionRange, SelectionParsed,
             Finish, Goto
        <5>2. QED
          BY <1>1, <4>1, <5>1 DEF StoreInv, StoreTypes
      <4>2. QED
        BY <4>1
    <3>3. ~(ClientOpens \/ ClientChanges \/ ClientCloses \/ ClientRequests)
      BY <1>1 DEF ClientOpens, ClientChanges, ClientCloses, ClientRequests,
                  Send, storeVars
    <3>4. Handle(m)
      BY <1>1, <3>1, <3>2, <3>3 DEF Next, Client, Block, storeVars
    <3>5. QED
      BY <1>1, <3>4 DEF Handle, DidOpen, SkipParse, ParseOpened, DidChange,
         ReadText, AcquireParser, FinishParse, DidClose, SemanticTokens,
         WaitForParseCompletion, SemanticTokensRange, RangeDone,
         SelectionRange, SelectionParsed, Start
  <2>2. UpdateIfCurrent(m)
    BY <1>1, <2>1 DEF ParseOnDemand, storeVars
  <2>3. held[m].text \in Texts
    BY <1>1 DEF StoreInv, StoreTypes
  <2>4. QED
    BY <2>2, <2>3, InsertStores DEF UpdateIfCurrent, UpdateDocument, Trees
<1>2. StoreInv /\ [Next]_vars =>
        [\A m \in Messages :
           pc[m] = "onDemand" /\ pc'[m] = "done" /\ document' # document =>
              /\ document # None /\ document.tree = "none"
              /\ document'.text = document.text]_vars
  BY <1>1
<1>3. QED
  BY <1>2, StoreInvariant, PTL DEF Spec, RequestsKeepText

-----------------------------------------------------------------------------
(* What TextKept rests on. Where the handler of each kind may be, and the   *)
(* order in which messages are sent and handlers start.                     *)
Opener(m) == kind[m] = "open"
Changer(m) == kind[m] \in ChangeKinds

KindInv ==
  \A m \in Messages :
     /\ pc[m] = "unsent" => kind[m] = None
     /\ pc[m] = "opened" => Opener(m)
     /\ pc[m] = "received" => Changer(m)
     /\ pc[m] \in Parsing => Opener(m) \/ Changer(m)
     /\ pc[m] \in {"waiting", "onDemand"} => kind[m] = "semantic"
     /\ pc[m] = "ranging" => kind[m] = "range"
     /\ pc[m] = "selecting" => kind[m] = "selection"

TurnInv ==
  \A m, n \in Messages : n < m =>
     /\ pc[n] = "unsent" => pc[m] = "unsent"
     /\ pc[n] = "sent" => pc[m] \in {"sent", "unsent"}

(* Message m follows a message after which the client had text t, and the   *)
(* document open or not.                                                    *)
Follows(o, t, m) ==
  /\ kind[m] = "open" <=> ~o
  /\ Changer(m) => held[m].text = t \cup {m}
  /\ ~Changer(m) /\ ~Opener(m) => held[m].text = t

(* The messages that no handler has seen yet, from one to the next and from *)
(* the last to the client's text.                                           *)
SentInv ==
  \A m \in Messages : pc[m] = "sent" =>
     /\ \A n \in Messages : n = m + 1 /\ pc[n] = "sent"
                              => Follows(kind[m] # "close", held[m].text, n)
     /\ (\A n \in Messages : n = m + 1 => pc[n] = "unsent")
           => /\ client_open = (kind[m] # "close")
              /\ client_text = held[m].text

(* The handlers that set the text, and the state the store is in or will be *)
(* in when they are done.                                                   *)
Active == {m \in Running : kind[m] \in TextKinds}

Reached(o, t) ==
  IF Active = {} THEN o = (document # None) /\ (o => document.text = t)
  ELSE o /\ \A a \in Active : held[a].text = t

(* From there to the first message that waits, or to the client.            *)
Continues(o, t) ==
  /\ \A m \in Messages :
        pc[m] = "sent" /\ (\A n \in Messages : n < m => pc[n] # "sent")
           => Follows(o, t, m)
  /\ (\A m \in Messages : pc[m] # "sent")
        => client_open = o /\ (o => client_text = t)

ReachedInv ==
  ~overlapped => \E o \in BOOLEAN, t \in Texts : Reached(o, t) /\ Continues(o, t)

(* The one handler at work, if none overlapped, and the stored text.        *)
ActiveInv ==
  ~overlapped =>
     /\ \A a, b \in Active : a = b
     /\ \A a \in Active :
          /\ document # None
          /\ pc[a] = "received" /\ kind[a] = "change"
               => held[a].text = document.text \cup {a}
          /\ pc[a] \in {"opened", "selecting"} => held[a].text = document.text
          /\ pc[a] = "acquiring" /\ kind[a] = "change"
               => held[a].old_text = document.text
          /\ pc[a] = "acquiring" /\ kind[a] = "open"
               => held[a].text = document.text

OrderInv == KindInv /\ TurnInv /\ SentInv /\ ReachedInv /\ ActiveInv

LEMMA InitOrder == Init => OrderInv
<1> SUFFICES ASSUME Init PROVE OrderInv
  OBVIOUS
<1>1. \A m \in Messages : pc[m] = "unsent" /\ kind[m] = None
  BY DEF Init
<1>2. KindInv /\ TurnInv /\ SentInv
  BY <1>1 DEF KindInv, TurnInv, SentInv, Parsing
<1>3. Active = {}
  BY <1>1 DEF Active, Running
<1>4. ActiveInv
  BY <1>3 DEF ActiveInv
<1>5. Reached(FALSE, {}) /\ Continues(FALSE, {}) /\ {} \in Texts
  BY <1>1, <1>3 DEF Reached, Continues, Init, Texts
<1>6. QED
  BY <1>2, <1>4, <1>5 DEF OrderInv, ReachedInv

(* How a handler moves. *)
LEMMA HandleMoves ==
  ASSUME StoreInv, ControlTypes, KindInv, NEW m \in Messages, Handle(m)
  PROVE  /\ UNCHANGED clientVars
         /\ pc[m] \notin {"unsent", "done"} /\ pc'[m] \notin {"unsent", "sent"}
         /\ \A n \in Messages : n # m => pc'[n] = pc[n] /\ held'[n] = held[n]
         /\ pc[m] = "sent" => \A n \in Messages : n < m => pc[n] # "sent"
         /\ pc'[m] = "opened" => Opener(m)
         /\ pc'[m] = "received" => Changer(m)
         /\ pc'[m] \in Parsing => Opener(m) \/ Changer(m)
         /\ pc'[m] \in {"waiting", "onDemand"} => kind[m] = "semantic"
         /\ pc'[m] = "ranging" => kind[m] = "range"
         /\ pc'[m] = "selecting" => kind[m] = "selection"
<1> USE DEF Finish, Goto, Opener, Changer, Parsing, ControlTypes, StoreInv,
            StoreTypes, KindInv
<1>0. m \in Nat /\ \A n \in Messages : n \in Nat
  BY HostAssumption DEF Messages
<1>1. pc[m] = "sent" => \A n \in Messages : n < m => pc[n] # "sent"
  <2>1. CASE pc[m] = "sent"
    <3>1. Start(m)
      BY <2>1 DEF Handle, DidOpen, SkipParse, ParseOpened, DidChange, ReadText,
         AcquireParser, FinishParse, DidClose, SemanticTokens,
         WaitForParseCompletion, ParseOnDemand, SemanticTokensRange, RangeDone,
         SelectionRange, SelectionParsed
    <3>2. \A n \in 1 .. (m - 1) : pc[n] # "sent"
      BY <3>1 DEF Start
    <3>3. \A n \in Messages : n < m => n \in 1 .. (m - 1)
      BY <1>0 DEF Messages
    <3>4. QED
      BY <3>2, <3>3
  <2>2. QED
    BY <2>1
<1>2. CASE DidOpen(m) \/ SkipParse(m)
  BY <1>1, <1>2 DEF DidOpen, SkipParse, Start
<1>3. CASE ParseOpened(m) \/ ReadText(m)
  BY <1>1, <1>3 DEF ParseOpened, ReadText, BeginParse
<1>4. CASE DidChange(m) \/ DidClose(m)
  BY <1>1, <1>4 DEF DidChange, DidClose, Start
<1>5. CASE AcquireParser(m) \/ FinishParse(m)
  BY <1>1, <1>5 DEF AcquireParser, FinishParse
<1>6. CASE SemanticTokens(m) \/ WaitForParseCompletion(m) \/ ParseOnDemand(m)
  BY <1>1, <1>6 DEF SemanticTokens, WaitForParseCompletion, GetTree,
                    ParseOnDemand, Start
<1>7. CASE SemanticTokensRange(m) \/ RangeDone(m)
  BY <1>1, <1>7 DEF SemanticTokensRange, RangeDone, Start
<1>8. CASE SelectionRange(m) \/ SelectionParsed(m)
  BY <1>1, <1>8 DEF SelectionRange, SelectionParsed, Start
<1>9. QED
  BY <1>2, <1>3, <1>4, <1>5, <1>6, <1>7, <1>8 DEF Handle

LEMMA MessagesAreNumbers == \A m \in Messages : m \in Nat
BY HostAssumption DEF Messages

(* A handler's step leaves the messages in order. *)
LEMMA HandleKeepsTurns ==
  ASSUME StoreInv, ControlTypes, KindInv, TurnInv, SentInv,
         NEW m \in Messages, Handle(m)
  PROVE  KindInv' /\ TurnInv' /\ SentInv'
<1>1. /\ UNCHANGED <<client_open, client_text, kind>>
      /\ pc[m] \notin {"unsent", "done"} /\ pc'[m] \notin {"unsent", "sent"}
      /\ \A n \in Messages : n # m => pc'[n] = pc[n] /\ held'[n] = held[n]
      /\ pc[m] = "sent" => \A n \in Messages : n < m => pc[n] # "sent"
  BY HandleMoves DEF clientVars
<1>2. KindInv'
  BY <1>1, HandleMoves DEF KindInv, Opener, Changer
<1>3. TurnInv'
  <2> SUFFICES ASSUME NEW p \in Messages, NEW n \in Messages, n < p
               PROVE  /\ pc'[n] = "unsent" => pc'[p] = "unsent"
                      /\ pc'[n] = "sent" => pc'[p] \in {"sent", "unsent"}
    BY DEF TurnInv
  <2>1. /\ pc[n] = "unsent" => pc[p] = "unsent"
        /\ pc[n] = "sent" => pc[p] \in {"sent", "unsent"}
    BY DEF TurnInv
  <2>2. CASE p = m
    BY <1>1, <2>1, <2>2
  <2>3. CASE p # m
    BY <1>1, <2>1, <2>3
  <2>4. QED
    BY <2>2, <2>3
<1>4. SentInv'
  <2> SUFFICES ASSUME NEW p \in Messages, pc'[p] = "sent"
               PROVE  /\ \A n \in Messages : n = p + 1 /\ pc'[n] = "sent"
                            => Follows(kind[p] # "close", held[p].text, n)'
                      /\ (\A n \in Messages : n = p + 1 => pc'[n] = "unsent")
                            => /\ client_open' = (kind'[p] # "close")
                               /\ client_text' = held'[p].text
    BY DEF SentInv
  <2>1. p # m /\ pc[p] = "sent" /\ held'[p] = held[p]
    BY <1>1
  <2>2. ASSUME NEW n \in Messages, n = p + 1, pc'[n] = "sent"
        PROVE  Follows(kind[p] # "close", held[p].text, n)'
    <3>1. n # m /\ pc[n] = "sent" /\ held'[n] = held[n]
      BY <1>1, <2>2
    <3>2. Follows(kind[p] # "close", held[p].text, n)
      BY <2>1, <2>2, <3>1 DEF SentInv
    <3>3. QED
      BY <1>1, <2>1, <3>1, <3>2 DEF Follows, Opener, Changer
  <2>3. ASSUME \A n \in Messages : n = p + 1 => pc'[n] = "unsent"
        PROVE  client_open' = (kind'[p] # "close") /\ client_text' = held'[p].text
    <3>1. \A n \in Messages : n = p + 1 => pc[n] = "unsent"
      BY <1>1, <2>3
    <3>2. QED
      BY <1>1, <2>1, <3>1 DEF SentInv
  <2>4. QED
    BY <2>2, <2>3
<1>5. QED
  BY <1>2, <1>3, <1>4

(* The client sends its next message, which follows the client's text. *)
LEMMA SendFacts ==
  ASSUME ControlTypes, StoreInv, Client
  PROVE  \E m \in Messages :
            /\ pc[m] = "unsent" /\ pc'[m] = "sent"
            /\ \A n \in Messages : n < m => pc[n] # "unsent"
            /\ \A n \in Messages : n # m => /\ pc'[n] = pc[n] /\ held'[n] = held[n]
                                            /\ kind'[n] = kind[n]
            /\ kind'[m] = "open" <=> ~client_open
            /\ kind'[m] \in ChangeKinds => held'[m].text = client_text \cup {m}
            /\ kind'[m] \notin ChangeKinds \cup {"open"}
                  => held'[m].text = client_text
            /\ client_open' = (kind'[m] # "close") /\ client_text' = held'[m].text
            /\ UNCHANGED <<storeVars, overlapped>>
<1> USE DEF ControlTypes, StoreInv, StoreTypes
<1>1. PICK k \in TextKinds \cup RequestKinds :
         /\ Send(k)
         /\ k = "open" <=> ~client_open
         /\ client_open' = (k # "close")
  <2>1. CASE ClientOpens
    <3>1. Send("open") /\ ~client_open /\ client_open' = TRUE
      BY <2>1 DEF ClientOpens
    <3>2. ("open" # "close") = TRUE
      OBVIOUS
    <3>3. client_open' = ("open" # "close")
      BY <3>1, <3>2
    <3>4. "open" \in TextKinds
      BY DEF TextKinds
    <3>5. QED
      BY <3>1, <3>3, <3>4
  <2>2. CASE ClientChanges
    <3>1. PICK k \in ChangeKinds : Send(k) /\ client_open' = client_open /\ client_open
      BY <2>2 DEF ClientChanges
    <3>2. k \notin {"open", "close"}
      BY DEF ChangeKinds
    <3>3. QED
      BY <3>1, <3>2 DEF TextKinds
  <2>3. CASE ClientCloses
    BY <2>3 DEF ClientCloses, TextKinds
  <2>4. CASE ClientRequests
    <3>1. PICK k \in RequestKinds : Send(k) /\ client_open' = client_open /\ client_open
      BY <2>4 DEF ClientRequests
    <3>2. k \notin {"open", "close"}
      BY DEF RequestKinds
    <3>3. QED
      BY <3>1, <3>2
  <2>5. QED
    BY <2>1, <2>2, <2>3, <2>4 DEF Client
<1> DEFINE t(m) == IF k \in {"open"} \cup ChangeKinds THEN client_text \cup {m}
                   ELSE client_text
<1>2. PICK m \in Messages :
         /\ pc[m] = "unsent" /\ \A n \in 1 .. (m - 1) : pc[n] # "unsent"
         /\ Goto(m, "sent") /\ kind' = [kind EXCEPT ![m] = k]
         /\ client_text' = t(m) /\ held' = [held EXCEPT ![m].text = t(m)]
         /\ UNCHANGED <<storeVars, overlapped>>
  BY <1>1 DEF Send
<1>3. \A n \in Messages : n < m => pc[n] # "unsent"
  <2>1. \A n \in Messages : n < m => n \in 1 .. (m - 1)
    BY HostAssumption DEF Messages
  <2>2. QED
    BY <1>2, <2>1
<1>4. /\ pc'[m] = "sent" /\ kind'[m] = k /\ held'[m].text = t(m)
      /\ \A n \in Messages : n # m => /\ pc'[n] = pc[n] /\ held'[n] = held[n]
                                      /\ kind'[n] = kind[n]
  BY <1>2 DEF Goto
<1>5. QED
  BY <1>1, <1>2, <1>3, <1>4

LEMMA ClientKeepsTurns ==
  ASSUME StoreInv, ControlTypes, KindInv, TurnInv, SentInv, Client
  PROVE  KindInv' /\ TurnInv' /\ SentInv'
<1>0. PICK m \in Messages :
         /\ pc[m] = "unsent" /\ pc'[m] = "sent"
         /\ \A n \in Messages : n < m => pc[n] # "unsent"
         /\ \A n \in Messages : n # m => /\ pc'[n] = pc[n] /\ held'[n] = held[n]
                                         /\ kind'[n] = kind[n]
         /\ kind'[m] = "open" <=> ~client_open
         /\ kind'[m] \in ChangeKinds => held'[m].text = client_text \cup {m}
         /\ kind'[m] \notin ChangeKinds \cup {"open"} => held'[m].text = client_text
         /\ client_open' = (kind'[m] # "close") /\ client_text' = held'[m].text
  BY SendFacts
<1>1. KindInv'
  BY <1>0 DEF KindInv, Opener, Changer, Parsing
<1>2. \A n \in Messages : n < m \/ n = m \/ m < n
  BY MessagesAreNumbers
<1>3. \A n \in Messages : m < n => pc[n] = "unsent"
  BY <1>0 DEF TurnInv
<1>4. TurnInv'
  <2> SUFFICES ASSUME NEW p \in Messages, NEW n \in Messages, n < p
               PROVE  /\ pc'[n] = "unsent" => pc'[p] = "unsent"
                      /\ pc'[n] = "sent" => pc'[p] \in {"sent", "unsent"}
    BY DEF TurnInv
  <2>1. /\ pc[n] = "unsent" => pc[p] = "unsent"
        /\ pc[n] = "sent" => pc[p] \in {"sent", "unsent"}
    BY DEF TurnInv
  <2>2. CASE n = m
    <3>1. p # m
      BY <2>2, MessagesAreNumbers
    <3>2. QED
      BY <1>0, <1>3, <2>2, <3>1
  <2>3. CASE n # m
    BY <1>0, <2>1, <2>3
  <2>4. QED
    BY <2>2, <2>3
<1>5. SentInv'
  <2> SUFFICES ASSUME NEW p \in Messages, pc'[p] = "sent"
               PROVE  /\ \A n \in Messages : n = p + 1 /\ pc'[n] = "sent"
                            => Follows(kind[p] # "close", held[p].text, n)'
                      /\ (\A n \in Messages : n = p + 1 => pc'[n] = "unsent")
                            => /\ client_open' = (kind'[p] # "close")
                               /\ client_text' = held'[p].text
    BY DEF SentInv
  <2>1. CASE p = m
    <3>1. \A n \in Messages : n = p + 1 => m < n /\ n # m
      BY <2>1, MessagesAreNumbers
    <3>2. \A n \in Messages : n = p + 1 => pc'[n] = "unsent"
      BY <1>0, <1>3, <3>1
    <3>3. QED
      BY <1>0, <2>1, <3>2
  <2>2. CASE p # m
    <3>1. pc[p] = "sent" /\ p < m /\ held'[p] = held[p] /\ kind'[p] = kind[p]
      BY <1>0, <1>2, <1>3, <2>2
    <3>2. PICK q \in Messages : q = p + 1
      BY <3>1, HostAssumption DEF Messages
    <3>3. CASE q = m
      <4>1. \A n \in Messages : n = p + 1 => pc[n] = "unsent"
        BY <1>0, <3>2, <3>3
      <4>2. client_open = (kind[p] # "close") /\ client_text = held[p].text
        BY <3>1, <4>1 DEF SentInv
      <4>3. Follows(kind[p] # "close", held[p].text, m)'
        BY <1>0, <3>1, <4>2 DEF Follows, Opener, Changer
      <4>4. QED
        BY <1>0, <3>2, <3>3, <4>3
    <3>4. CASE q # m
      <4>1. q < m
        BY <3>1, <3>2, <3>4, MessagesAreNumbers
      <4>2. pc'[q] = pc[q] /\ pc[q] # "unsent" /\ held'[q] = held[q]
            /\ kind'[q] = kind[q]
        BY <1>0, <3>4, <4>1
      <4>3. pc[q] = "sent" => Follows(kind[p] # "close", held[p].text, q)
        BY <3>1, <3>2 DEF SentInv
      <4>4. pc'[q] = "sent" => Follows(kind[p] # "close", held[p].text, q)'
        BY <3>1, <4>2, <4>3 DEF Follows, Opener, Changer
      <4>5. QED
        BY <3>2, <4>2, <4>4
    <3>5. QED
      BY <3>3, <3>4
  <2>3. QED
    BY <2>1, <2>2
<1>6. QED
  BY <1>1, <1>4, <1>5

(* What a handler's step does when no two handlers that set the text        *)
(* overlapped: a request for tokens may add a tree; another one begins, or  *)
(* goes on, or ends and leaves the text it has in hand.                     *)
Aside(m) ==
  /\ kind[m] \in {"semantic", "range"}
  /\ document' = None <=> document = None
  /\ document # None => /\ document'.text = document.text
                        /\ document'.tree \in {document.tree, "sound"}

Begins(m) ==
  /\ pc[m] = "sent" /\ kind[m] \in TextKinds /\ Active = {}
  /\ \/ /\ Opener(m) /\ pc'[m] = "opened" /\ held'[m] = held[m]
        /\ document' # None /\ document'.text = held[m].text
        /\ document'.tree = "none"
     \/ /\ Changer(m) /\ pc'[m] = "received" /\ held'[m] = held[m]
        /\ UNCHANGED document
     \/ kind[m] = "close" /\ pc'[m] = "done" /\ document' = None
     \/ /\ kind[m] = "selection" /\ UNCHANGED document
        /\ \/ pc'[m] = "done"
           \/ /\ pc'[m] = "selecting" /\ document # None
              /\ held'[m].text = document.text

Goes(m) ==
  /\ m \in Active /\ document # None /\ UNCHANGED document
  /\ held'[m].text = held[m].text
  /\ \/ /\ pc'[m] = "acquiring"
        /\ kind[m] = "change" => held'[m].old_text = document.text
        /\ Opener(m) => held[m].text = document.text
     \/ /\ pc'[m] = "parsing"
        /\ held'[m].base = "unsound"
             => document.tree = "unsound" \/ kind[m] = "fullChange"

Ends(m) ==
  /\ m \in Active /\ pc'[m] = "done"
  /\ document' # None /\ document'.text = held[m].text
  /\ document'.tree = "unsound" =>
       \/ pc[m] = "parsing" /\ held[m].base = "unsound"
       \/ document' = document

LEMMA BeginsAlone ==
  ASSUME NEW m \in Messages, Start(m), ~overlapped'
  PROVE  ~overlapped /\ pc[m] = "sent" /\ (kind[m] \in TextKinds => Active = {})
BY DEF Start, Active

LEMMA ParseBegins ==
  ASSUME StoreInv, ControlTypes, NEW m \in Messages, m \in Active,
         document # None, held[m].text \in Texts,
         NEW t, t = held[m].text, BeginParse(m, t, document.text),
         Opener(m) => held[m].text = document.text
  PROVE  Goes(m) \/ Ends(m)
<1> DEFINE g == parse_state.generation + 1
           old == document.text
<1>1. CASE /\ held' = [held EXCEPT ![m].text = t, ![m].old_text = old,
                                   ![m].generation = g]
           /\ Goto(m, "acquiring") /\ UNCHANGED document
  <2>1. pc'[m] = "acquiring"
    BY <1>1 DEF Goto, ControlTypes
  <2>2. held[m] \in Locals
    BY DEF StoreInv, StoreTypes, Locals
  <2>3. held'[m].text = t /\ held'[m].old_text = old
    BY <1>1, <2>2 DEF StoreInv, StoreTypes, Locals
  <2>4. QED
    BY <1>1, <2>1, <2>3 DEF Goes
<1>2. CASE Insert(t, "none") /\ Finish(m)
  <2>1. pc'[m] = "done"
    BY <1>2 DEF Finish, Goto, ControlTypes
  <2>2. document' # None /\ document'.text = t /\ document'.tree = "none"
    BY <1>2, InsertStores DEF Trees
  <2>3. QED
    BY <2>1, <2>2 DEF Ends
<1>3. QED
  BY <1>1, <1>2 DEF BeginParse

LEMMA HandleEffect ==
  ASSUME StoreInv, ControlTypes, OrderInv, ~overlapped',
         NEW m \in Messages, Handle(m)
  PROVE  ~overlapped /\ (Aside(m) \/ Begins(m) \/ Goes(m) \/ Ends(m))
<1> DEFINE Effect == ~overlapped /\ (Aside(m) \/ Begins(m) \/ Goes(m) \/ Ends(m))
<1>0. /\ KindInv
      /\ m \in DOMAIN pc /\ pc \in [Messages -> Places]
      /\ held[m].text \in Texts
      /\ document \in Documents \cup {None}
  BY DEF OrderInv, ControlTypes, StoreInv, StoreTypes
<1>1. CASE DidOpen(m)
  <2>1. ~overlapped /\ pc[m] = "sent" /\ Opener(m) /\ kind[m] \in TextKinds
        /\ Active = {}
    BY <1>1, BeginsAlone DEF DidOpen, Opener, TextKinds
  <2>2. document' # None /\ document'.text = held[m].text /\ document'.tree = "none"
    BY <1>0, <1>1, InsertStores DEF DidOpen, Trees
  <2>3. pc'[m] = "opened" /\ held'[m] = held[m]
    BY <1>0, <1>1 DEF DidOpen, Goto
  <2>4. QED
    BY <2>1, <2>2, <2>3 DEF Begins
<1>2. CASE DidChange(m)
  <2>1. ~overlapped /\ pc[m] = "sent" /\ Changer(m) /\ kind[m] \in TextKinds
        /\ Active = {}
    BY <1>2, BeginsAlone DEF DidChange, Changer, TextKinds
  <2>2. pc'[m] = "received" /\ held'[m] = held[m] /\ UNCHANGED document
    BY <1>0, <1>2 DEF DidChange, Goto, storeVars
  <2>3. QED
    BY <2>1, <2>2 DEF Begins
<1>3. CASE DidClose(m)
  <2>1. ~overlapped /\ pc[m] = "sent" /\ kind[m] \in TextKinds /\ Active = {}
    BY <1>3, BeginsAlone DEF DidClose, TextKinds
  <2>2. pc'[m] = "done" /\ document' = None /\ kind[m] = "close"
    BY <1>0, <1>3 DEF DidClose, Finish, Goto
  <2>3. QED
    BY <2>1, <2>2 DEF Begins
<1>4. CASE SelectionRange(m)
  <2>1. ~overlapped /\ pc[m] = "sent" /\ kind[m] \in TextKinds /\ Active = {}
    BY <1>4, BeginsAlone DEF SelectionRange, TextKinds
  <2>2. kind[m] = "selection" /\ UNCHANGED document
    BY <1>4 DEF SelectionRange, storeVars
  <2>3. CASE Finish(m)
    BY <1>0, <2>1, <2>2, <2>3 DEF Begins, Finish, Goto
  <2>4. CASE ~Finish(m)
    <3>1. /\ document # None /\ held' = [held EXCEPT ![m].text = document.text]
          /\ Goto(m, "selecting")
      BY <1>4, <2>4 DEF SelectionRange
    <3>2. held'[m].text = document.text /\ pc'[m] = "selecting"
      BY <1>0, <3>1 DEF Goto, StoreInv, StoreTypes
    <3>3. QED
      BY <2>1, <2>2, <3>1, <3>2 DEF Begins
  <2>5. QED
    BY <2>3, <2>4
<1>5. CASE SkipParse(m) \/ ParseOpened(m)
  <2>1. pc[m] = "opened" /\ ~overlapped
    BY <1>5 DEF SkipParse, ParseOpened, BeginParse
  <2>2. m \in Active /\ Opener(m)
    BY <1>0, <2>1 DEF KindInv, Active, Running, Opener, TextKinds
  <2>3. document # None /\ document.text = held[m].text
    BY <2>1, <2>2 DEF OrderInv, ActiveInv
  <2>4. CASE SkipParse(m)
    BY <1>0, <2>1, <2>2, <2>3, <2>4 DEF SkipParse, Finish, Goto, storeVars, Ends
  <2>5. CASE ParseOpened(m)
    <3>1. BeginParse(m, held[m].text, {})
      BY <2>5 DEF ParseOpened
    <3>2. CASE /\ held' = [held EXCEPT ![m].text = held[m].text, ![m].old_text = {},
                             ![m].generation = parse_state.generation + 1]
               /\ Goto(m, "acquiring") /\ UNCHANGED document
      <4>1. pc'[m] = "acquiring"
        BY <1>0, <3>2 DEF Goto
      <4>2. held'[m].text = held[m].text
        BY <3>2 DEF StoreInv, StoreTypes
      <4>3. QED
        BY <2>1, <2>2, <2>3, <3>2, <4>1, <4>2 DEF Goes, Opener
    <3>3. CASE Insert(held[m].text, "none") /\ Finish(m)
      <4>1. pc'[m] = "done"
        BY <1>0, <3>3 DEF Finish, Goto
      <4>2. document' # None /\ document'.text = held[m].text
            /\ document'.tree = "none"
        BY <1>0, <3>3, InsertStores DEF Trees
      <4>3. QED
        BY <2>1, <2>2, <4>1, <4>2 DEF Ends
    <3>4. QED
      BY <3>1, <3>2, <3>3 DEF BeginParse
  <2>6. QED
    BY <1>5, <2>4, <2>5
<1>6. CASE ReadText(m)
  <2>1. pc[m] = "received" /\ ~overlapped
    BY <1>6 DEF ReadText, BeginParse
  <2>2. m \in Active /\ Changer(m) /\ ~Opener(m)
    BY <1>0, <2>1 DEF KindInv, Active, Running, Opener, Changer, TextKinds,
                      ChangeKinds
  <2>3. document # None
        /\ (kind[m] = "change" => held[m].text = document.text \cup {m})
    BY <2>1, <2>2 DEF OrderInv, ActiveInv
  <2>4. \E t : t = held[m].text /\ BeginParse(m, t, document.text)
    BY <1>6, <2>3 DEF ReadText
  <2>5. QED
    BY <1>0, <2>1, <2>2, <2>3, <2>4, ParseBegins
<1>7. CASE AcquireParser(m)
  <2>1. pc[m] = "acquiring" /\ ~overlapped
    BY <1>7 DEF AcquireParser
  <2>2. m \in Active /\ (Opener(m) \/ Changer(m))
    BY <1>0, <2>1 DEF KindInv, Active, Running, Opener, Changer, TextKinds, Parsing
  <2>3. /\ document # None
        /\ kind[m] = "change" => held[m].old_text = document.text
        /\ kind[m] = "open" => held[m].text = document.text
    BY <2>1, <2>2 DEF OrderInv, ActiveInv
  <2>4. CASE /\ held' = [held EXCEPT ![m].base = OldTree(m)]
             /\ Goto(m, "parsing") /\ UNCHANGED storeVars
    <3>1. pc'[m] = "parsing" /\ UNCHANGED document
      BY <1>0, <2>4 DEF Goto, storeVars
    <3>2. held'[m].text = held[m].text /\ held'[m].base = OldTree(m)
      BY <2>4 DEF StoreInv, StoreTypes
    <3>3. OldTree(m) = "unsound" => document.tree = "unsound" \/ kind[m] = "fullChange"
      BY <2>2, <2>3 DEF OldTree, Opener, Changer, ChangeKinds
    <3>4. QED
      BY <2>1, <2>2, <2>3, <3>1, <3>2, <3>3 DEF Goes
  <2>5. CASE StoreUnparsed(m) /\ Finish(m)
    <3>1. pc'[m] = "done"
      BY <1>0, <2>5 DEF Finish, Goto
    <3>2. document' # None /\ document'.text = held[m].text
          /\ document'.tree = "none"
      BY <1>0, <2>5, InsertStores DEF StoreUnparsed, Trees
    <3>3. QED
      BY <2>1, <2>2, <3>1, <3>2 DEF Ends
  <2>6. QED
    BY <1>7, <2>4, <2>5 DEF AcquireParser
<1>8. CASE FinishParse(m)
  <2>1. pc[m] = "parsing" /\ ~overlapped /\ pc'[m] = "done"
    BY <1>0, <1>8 DEF FinishParse, Finish, Goto
  <2>2. m \in Active
    BY <1>0, <2>1 DEF KindInv, Active, Running, Opener, Changer, TextKinds, Parsing
  <2>3. document' # None /\ document'.text = held[m].text
        /\ (document'.tree = "unsound" => held[m].base = "unsound")
    <3>1. CASE StoreUnparsed(m)
      BY <1>0, <3>1, InsertStores DEF StoreUnparsed, Trees
    <3>2. CASE StoreParsed(m)
      <4> DEFINE tree == IF held[m].base = "unsound" THEN "unsound" ELSE "sound"
      <4>1. tree \in Trees /\ (tree = "unsound" => held[m].base = "unsound")
        BY DEF Trees
      <4>2. Insert(held[m].text, tree)
        BY <3>2 DEF StoreParsed
      <4> HIDE DEF tree
      <4>3. QED
        BY <1>0, <4>1, <4>2, InsertStores
    <3>3. QED
      BY <1>8, <3>1, <3>2 DEF FinishParse
  <2>4. QED
    BY <2>1, <2>2, <2>3 DEF Ends
<1>9. CASE SelectionParsed(m)
  <2>1. pc[m] = "selecting" /\ ~overlapped /\ pc'[m] = "done"
    BY <1>0, <1>9 DEF SelectionParsed, Finish, Goto
  <2>2. m \in Active
    BY <1>0, <2>1 DEF KindInv, Active, Running, TextKinds
  <2>3. document # None /\ document.text = held[m].text
    BY <2>1, <2>2 DEF OrderInv, ActiveInv
  <2>4. CASE UNCHANGED storeVars
    BY <2>1, <2>2, <2>3, <2>4 DEF Ends, storeVars
  <2>5. CASE UpdateDocument(held[m].text)
    <3>1. document' # None /\ document'.text = held[m].text
          /\ document'.tree = "sound"
      BY <1>0, <2>5, InsertStores DEF UpdateDocument, Trees
    <3>2. QED
      BY <2>1, <2>2, <3>1 DEF Ends
  <2>6. QED
    BY <1>9, <2>4, <2>5 DEF SelectionParsed
<1>10. CASE \/ SemanticTokens(m) \/ WaitForParseCompletion(m)
            \/ SemanticTokensRange(m) \/ RangeDone(m)
  <2>1. UNCHANGED document /\ ~overlapped
    BY <1>10, BeginsAlone
       DEF SemanticTokens, WaitForParseCompletion, GetTree, SemanticTokensRange,
           RangeDone, storeVars
  <2>2. kind[m] \in {"semantic", "range"}
    BY <1>0, <1>10 DEF SemanticTokens, WaitForParseCompletion, KindInv,
                       SemanticTokensRange, RangeDone
  <2>3. QED
    BY <2>1, <2>2 DEF Aside
<1>11. CASE ParseOnDemand(m)
  <2>1. kind[m] = "semantic" /\ ~overlapped
    BY <1>0, <1>11 DEF ParseOnDemand, KindInv
  <2>2. CASE UNCHANGED storeVars
    BY <2>1, <2>2 DEF Aside, storeVars
  <2>3. CASE UpdateIfCurrent(m)
    <3>1. /\ document # None /\ document.text = held[m].text
          /\ document' # None /\ document'.text = held[m].text
          /\ document'.tree = "sound"
      BY <1>0, <2>3, InsertStores DEF UpdateIfCurrent, UpdateDocument, Trees
    <3>2. QED
      BY <2>1, <3>1 DEF Aside
  <2>4. QED
    BY <1>11, <2>2, <2>3 DEF ParseOnDemand
<1>12. QED
  BY <1>1, <1>2, <1>3, <1>4, <1>5, <1>6, <1>7, <1>8, <1>9, <1>10, <1>11 DEF Handle

(* When the first message that waits has begun, the next one follows it. *)
LEMMA NextPending ==
  ASSUME ControlTypes, TurnInv, SentInv, NEW m \in Messages,
         pc[m] = "sent", \A n \in Messages : n < m => pc[n] # "sent",
         pc'[m] \notin {"sent", "unsent"}, UNCHANGED clientVars,
         \A n \in Messages : n # m => pc'[n] = pc[n] /\ held'[n] = held[n],
         NEW o, NEW t, o = (kind[m] # "close"), t = held[m].text
  PROVE  Continues(o, t)'
<1>0. UNCHANGED <<client_open, client_text, kind>>
  BY DEF clientVars
<1>1. \A n \in Messages : m < n => pc[n] \in {"sent", "unsent"}
  BY DEF TurnInv
<1>2. ASSUME NEW p \in Messages, pc'[p] = "sent",
             \A n \in Messages : n < p => pc'[n] # "sent"
      PROVE  Follows(o, t, p)'
  <2>1. p # m /\ pc[p] = "sent" /\ m < p
    BY <1>2, MessagesAreNumbers
  <2>2. PICK q \in Messages : q = m + 1
    BY <2>1, HostAssumption DEF Messages
  <2>3. q = p
    <3>1. CASE q < p
      <4>1. pc[q] = "sent"
        BY <1>1, <2>1, <2>2, <3>1, MessagesAreNumbers DEF TurnInv
      <4>2. q # m
        BY <2>2, MessagesAreNumbers
      <4>3. QED
        BY <1>2, <3>1, <4>1, <4>2
    <3>2. QED
      BY <2>1, <2>2, <3>1, MessagesAreNumbers
  <2>4. Follows(o, t, p)
    BY <2>1, <2>2, <2>3 DEF SentInv
  <2>5. QED
    BY <1>0, <2>1, <2>4 DEF Follows, Opener, Changer
<1>3. ASSUME \A n \in Messages : pc'[n] # "sent"
      PROVE  client_open' = o /\ client_text' = t
  <2>1. \A n \in Messages : n = m + 1 => n # m /\ m < n
    BY MessagesAreNumbers
  <2>2. \A n \in Messages : n = m + 1 => pc[n] = "unsent"
    BY <1>1, <1>3, <2>1
  <2>3. QED
    BY <1>0, <2>2 DEF SentInv
<1>4. QED
  BY <1>2, <1>3 DEF Continues

(* A handler that begins continues what the one before it reached. *)
LEMMA BeginsFrom ==
  ASSUME OrderInv, ~overlapped, NEW m \in Messages, pc[m] = "sent",
         \A n \in Messages : n < m => pc[n] # "sent"
  PROVE  \E o \in BOOLEAN, t \in Texts : Reached(o, t) /\ Follows(o, t, m)
BY DEF OrderInv, ReachedInv, Continues

(* What waits is the same after a step of a handler that had begun. *)
LEMMA StillContinues ==
  ASSUME NEW m \in Messages, pc[m] # "sent", pc'[m] # "sent",
         UNCHANGED clientVars,
         \A n \in Messages : n # m => pc'[n] = pc[n] /\ held'[n] = held[n],
         NEW o, NEW t, Continues(o, t)
  PROVE  Continues(o, t)'
<1>0. UNCHANGED <<client_open, client_text, kind>>
  BY DEF clientVars
<1>1. \A n \in Messages : pc'[n] = "sent" <=> pc[n] = "sent"
  OBVIOUS
<1>2. ASSUME NEW p \in Messages, pc'[p] = "sent",
             \A n \in Messages : n < p => pc'[n] # "sent"
      PROVE  Follows(o, t, p)'
  <2>1. Follows(o, t, p) /\ p # m
    BY <1>1, <1>2 DEF Continues
  <2>2. QED
    BY <1>0, <2>1 DEF Follows, Opener, Changer
<1>3. (\A n \in Messages : pc'[n] # "sent")
         => client_open' = o /\ (o => client_text' = t)
  BY <1>0, <1>1 DEF Continues
<1>4. QED
  BY <1>2, <1>3 DEF Continues

(* A handler's step keeps what the store has, or will have when the handler *)
(* at work is done, next to what waits.                                     *)
LEMMA HandleKeepsReached ==
  ASSUME StoreInv, ControlTypes, OrderInv, ~overlapped',
         NEW m \in Messages, Handle(m)
  PROVE  ReachedInv' /\ ActiveInv'
<1>1. /\ UNCHANGED clientVars
      /\ pc[m] \notin {"unsent", "done"} /\ pc'[m] \notin {"unsent", "sent"}
      /\ \A n \in Messages : n # m => pc'[n] = pc[n] /\ held'[n] = held[n]
      /\ pc[m] = "sent" => \A n \in Messages : n < m => pc[n] # "sent"
  BY HandleMoves DEF OrderInv
<1>2. ~overlapped /\ (Aside(m) \/ Begins(m) \/ Goes(m) \/ Ends(m))
  BY HandleEffect
<1>3. UNCHANGED kind /\ held[m].text \in Texts /\ m \in Nat
  BY <1>1, MessagesAreNumbers DEF clientVars, StoreInv, StoreTypes
<1>4. Active' \subseteq Active \cup {m} /\ Active \subseteq Active' \cup {m}
  BY <1>1, <1>3 DEF Active, Running
<1>5. /\ m \in Active' <=> (pc'[m] # "done" /\ kind[m] \in TextKinds)
      /\ m \in Active <=> (pc[m] # "sent" /\ kind[m] \in TextKinds)
  BY <1>1, <1>3 DEF Active, Running
<1>6. ASSUME Aside(m) PROVE ReachedInv' /\ ActiveInv'
  <2>1. m \notin Active /\ Active' = Active
    BY <1>4, <1>5, <1>6 DEF Aside, TextKinds, ChangeKinds
  <2>2. PICK o \in BOOLEAN, t \in Texts : Reached(o, t) /\ Continues(o, t)
    BY <1>2 DEF OrderInv, ReachedInv
  <2>3. \A a \in Active : held'[a] = held[a] /\ pc'[a] = pc[a]
    BY <1>1, <2>1 DEF Active, Running
  <2>4. Reached(o, t)'
    BY <1>6, <2>1, <2>2, <2>3 DEF Reached, Aside
  <2>5. Continues(o, t)'
    <3>1. CASE pc[m] = "sent"
      <4>1. Follows(o, t, m)
        BY <1>1, <2>2, <3>1 DEF Continues
      <4>2. o = (kind[m] # "close") /\ t = held[m].text
        BY <1>6, <4>1 DEF Follows, Opener, Changer, Aside, ChangeKinds
      <4>3. QED
        BY <1>1, <3>1, <4>2, NextPending DEF OrderInv
    <3>2. CASE pc[m] # "sent"
      BY <1>1, <2>2, <3>2, StillContinues
    <3>3. QED
      BY <3>1, <3>2
  <2>6. ActiveInv'
    BY <1>2, <1>3, <1>6, <2>1, <2>3 DEF OrderInv, ActiveInv, Aside
  <2>7. QED
    BY <2>4, <2>5, <2>6 DEF ReachedInv
<1>7. ASSUME Begins(m) PROVE ReachedInv' /\ ActiveInv'
  <2>1. pc[m] = "sent" /\ Active = {} /\ kind[m] \in TextKinds
    BY <1>7 DEF Begins
  <2>2. PICK p \in BOOLEAN, s \in Texts : Reached(p, s) /\ Follows(p, s, m)
    BY <1>1, <1>2, <2>1, BeginsFrom
  <2>3. p = (document # None) /\ (p => document.text = s)
    BY <2>1, <2>2 DEF Reached
  <2>4. PICK o \in BOOLEAN, t \in Texts : o = (kind[m] # "close") /\ t = held[m].text
    BY <1>3
  <2>5. Continues(o, t)'
    BY <1>1, <2>1, <2>4, NextPending DEF OrderInv
  <2>6. CASE Opener(m)
    <3>1. /\ pc'[m] = "opened" /\ held'[m] = held[m]
          /\ document' # None /\ document'.text = held[m].text
      BY <1>7, <2>6 DEF Begins, Opener, Changer, ChangeKinds
    <3>2. Active' = {m} /\ o
      BY <1>4, <1>5, <2>1, <2>4, <2>6, <3>1 DEF Opener
    <3>3. Reached(o, t)'
      BY <2>4, <3>1, <3>2 DEF Reached
    <3>4. ActiveInv'
      BY <1>3, <2>6, <3>1, <3>2 DEF ActiveInv, Opener
    <3>5. QED
      BY <2>5, <3>3, <3>4 DEF ReachedInv
  <2>7. CASE Changer(m)
    <3>1. pc'[m] = "received" /\ held'[m] = held[m] /\ UNCHANGED document
      BY <1>7, <2>7 DEF Begins, Opener, Changer, ChangeKinds
    <3>2. Active' = {m} /\ o /\ p
      BY <1>4, <1>5, <2>1, <2>2, <2>4, <2>7, <3>1
         DEF Opener, Changer, ChangeKinds, Follows
    <3>3. document # None /\ held[m].text = document.text \cup {m}
      BY <2>2, <2>3, <2>7, <3>2 DEF Follows
    <3>4. Reached(o, t)'
      BY <2>4, <3>1, <3>2 DEF Reached
    <3>5. ActiveInv'
      BY <1>3, <3>1, <3>2, <3>3 DEF ActiveInv
    <3>6. QED
      BY <2>5, <3>4, <3>5 DEF ReachedInv
  <2>8. CASE kind[m] = "close"
    <3>1. pc'[m] = "done" /\ document' = None
      BY <1>7, <2>8 DEF Begins, Opener, Changer, ChangeKinds
    <3>2. Active' = {} /\ ~o
      BY <1>4, <1>5, <2>1, <2>4, <2>8, <3>1
    <3>3. Reached(o, t)'
      BY <3>1, <3>2 DEF Reached
    <3>4. ActiveInv'
      BY <3>2 DEF ActiveInv
    <3>5. QED
      BY <2>5, <3>3, <3>4 DEF ReachedInv
  <2>9. CASE kind[m] = "selection"
    <3>1. p /\ held[m].text = s /\ o
      BY <2>2, <2>4, <2>9 DEF Follows, Opener, Changer, ChangeKinds
    <3>2. document # None /\ document.text = held[m].text
      BY <2>3, <3>1
    <3>3. UNCHANGED document
          /\ \/ pc'[m] = "done"
             \/ pc'[m] = "selecting" /\ held'[m].text = document.text
      <4>1. ~Opener(m) /\ ~Changer(m) /\ kind[m] # "close"
        BY <2>9 DEF Opener, Changer, ChangeKinds
      <4>2. QED
        BY <1>7, <4>1 DEF Begins
    <3>4. CASE pc'[m] = "done"
      <4>1. Active' = {}
        BY <1>4, <1>5, <2>1, <3>4
      <4>2. Reached(o, t)' /\ ActiveInv'
        BY <2>4, <3>1, <3>2, <3>3, <4>1 DEF Reached, ActiveInv
      <4>3. QED
        BY <2>5, <4>2 DEF ReachedInv
    <3>5. CASE pc'[m] = "selecting"
      <4>1. Active' = {m} /\ held'[m].text = document.text
        BY <1>4, <1>5, <2>1, <3>3, <3>5
      <4>2. Reached(o, t)'
        BY <2>4, <3>1, <3>2, <4>1 DEF Reached
      <4>3. ActiveInv'
        BY <1>3, <2>9, <3>2, <3>3, <3>5, <4>1 DEF ActiveInv
      <4>4. QED
        BY <2>5, <4>2, <4>3 DEF ReachedInv
    <3>6. QED
      BY <3>3, <3>4, <3>5
  <2>10. QED
    BY <2>1, <2>6, <2>7, <2>8, <2>9 DEF TextKinds, Opener, Changer
<1>8. ASSUME Goes(m) PROVE ReachedInv' /\ ActiveInv'
  <2>1. m \in Active /\ Active = {m} /\ pc[m] # "sent"
    BY <1>2, <1>5, <1>8 DEF Goes, OrderInv, ActiveInv
  <2>2. PICK o \in BOOLEAN, t \in Texts : Reached(o, t) /\ Continues(o, t)
    BY <1>2 DEF OrderInv, ReachedInv
  <2>3. o /\ held[m].text = t
    BY <2>1, <2>2 DEF Reached
  <2>4. held'[m].text = held[m].text /\ document # None /\ UNCHANGED document
        /\ pc'[m] \in {"acquiring", "parsing"}
    BY <1>8 DEF Goes
  <2>5. Active' = {m}
    BY <1>4, <1>5, <2>1, <2>4
  <2>6. Reached(o, t)'
    BY <2>3, <2>4, <2>5 DEF Reached
  <2>7. Continues(o, t)'
    BY <1>1, <2>1, <2>2, StillContinues
  <2>8. ActiveInv'
    <3>1. /\ pc'[m] = "acquiring" /\ kind[m] = "change"
               => held'[m].old_text = document.text
          /\ pc'[m] = "acquiring" /\ kind[m] = "open"
               => held'[m].text = document.text
      BY <1>8, <2>4 DEF Goes, Opener
    <3>2. QED
      BY <1>3, <2>4, <2>5, <3>1 DEF ActiveInv
  <2>9. QED
    BY <2>6, <2>7, <2>8 DEF ReachedInv
<1>9. ASSUME Ends(m) PROVE ReachedInv' /\ ActiveInv'
  <2>1. m \in Active /\ Active = {m} /\ pc[m] # "sent"
    BY <1>2, <1>5, <1>9 DEF Ends, OrderInv, ActiveInv
  <2>2. PICK o \in BOOLEAN, t \in Texts : Reached(o, t) /\ Continues(o, t)
    BY <1>2 DEF OrderInv, ReachedInv
  <2>3. o /\ held[m].text = t
    BY <2>1, <2>2 DEF Reached
  <2>4. document' # None /\ document'.text = held[m].text /\ pc'[m] = "done"
    BY <1>9 DEF Ends
  <2>5. Active' = {}
    BY <1>4, <1>5, <2>1, <2>4
  <2>6. Reached(o, t)' /\ ActiveInv'
    BY <2>3, <2>4, <2>5 DEF Reached, ActiveInv
  <2>7. Continues(o, t)'
    BY <1>1, <2>1, <2>2, StillContinues
  <2>8. QED
    BY <2>6, <2>7 DEF ReachedInv
<1>10. QED
  BY <1>2, <1>6, <1>7, <1>8, <1>9

(* The client's next message follows the last one. *)
LEMMA ClientKeepsReached ==
  ASSUME StoreInv, ControlTypes, OrderInv, ~overlapped, Client
  PROVE  ReachedInv' /\ ActiveInv'
<1>1. PICK m \in Messages :
         /\ pc[m] = "unsent" /\ pc'[m] = "sent"
         /\ \A n \in Messages : n # m => /\ pc'[n] = pc[n] /\ held'[n] = held[n]
                                         /\ kind'[n] = kind[n]
         /\ kind'[m] = "open" <=> ~client_open
         /\ kind'[m] \in ChangeKinds => held'[m].text = client_text \cup {m}
         /\ kind'[m] \notin ChangeKinds \cup {"open"} => held'[m].text = client_text
         /\ UNCHANGED <<storeVars, overlapped>>
  BY SendFacts
<1>2. m \notin Active /\ Active' = Active
  BY <1>1 DEF Active, Running
<1>3. \A a \in Active : /\ held'[a] = held[a] /\ pc'[a] = pc[a]
                        /\ kind'[a] = kind[a]
  BY <1>1, <1>2 DEF Active, Running
<1>4. UNCHANGED document
  BY <1>1 DEF storeVars
<1>5. ActiveInv'
  BY <1>2, <1>3, <1>4 DEF OrderInv, ActiveInv
<1>6. PICK o \in BOOLEAN, t \in Texts : Reached(o, t) /\ Continues(o, t)
  BY DEF OrderInv, ReachedInv
<1>7. Reached(o, t)'
  BY <1>2, <1>3, <1>4, <1>6 DEF Reached
<1>8. ASSUME NEW p \in Messages, pc'[p] = "sent",
             \A n \in Messages : n < p => pc'[n] # "sent"
      PROVE  Follows(o, t, p)'
  <2>1. CASE p # m
    <3>1. pc[p] = "sent" /\ \A n \in Messages : n < p => pc[n] # "sent"
      BY <1>1, <1>8, <2>1
    <3>2. Follows(o, t, p)
      BY <1>6, <3>1 DEF Continues
    <3>3. QED
      BY <1>1, <2>1, <3>2 DEF Follows, Opener, Changer
  <2>2. CASE p = m
    <3>1. \A n \in Messages : pc[n] # "sent"
      <4>1. ASSUME NEW n \in Messages, pc[n] = "sent" PROVE FALSE
        <5>1. n # m /\ pc'[n] = "sent"
          BY <1>1, <4>1
        <5>2. ~(n < m)
          BY <1>8, <2>2, <5>1
        <5>3. ~(m < n)
          BY <1>1, <4>1 DEF OrderInv, TurnInv
        <5>4. QED
          BY <5>1, <5>2, <5>3, MessagesAreNumbers
      <4>2. QED
        BY <4>1
    <3>2. client_open = o /\ (o => client_text = t)
      BY <1>6, <3>1 DEF Continues
    <3>3. QED
      BY <1>1, <2>2, <3>2 DEF Follows, Opener, Changer, ChangeKinds
  <2>3. QED
    BY <2>1, <2>2
<1>9. Continues(o, t)'
  BY <1>1, <1>8 DEF Continues
<1>10. QED
  BY <1>5, <1>7, <1>9 DEF ReachedInv

(* Without whole-text changes, and without overlaps, no tree was made from  *)
(* an old tree that does not fit.                                           *)
SoundInv ==
  ~overlapped /\ (\A m \in Messages : pc[m] # "unsent" => kind[m] # "fullChange") =>
     /\ document # None => document.tree # "unsound"
     /\ \A a \in Active : pc[a] = "parsing" => held[a].base # "unsound"

LEMMA HandleKeepsSound ==
  ASSUME StoreInv, ControlTypes, OrderInv, SoundInv, NEW m \in Messages, Handle(m)
  PROVE  SoundInv'
<1> SUFFICES ASSUME ~overlapped',
                    \A n \in Messages : pc'[n] # "unsent" => kind'[n] # "fullChange"
             PROVE  /\ document' # None => document'.tree # "unsound"
                    /\ \A a \in Active' : pc'[a] = "parsing"
                                             => held'[a].base # "unsound"
  BY DEF SoundInv
<1>1. /\ UNCHANGED kind /\ ~overlapped
      /\ pc[m] \notin {"unsent", "done"}
      /\ \A n \in Messages : n # m => pc'[n] = pc[n] /\ held'[n] = held[n]
      /\ pc'[m] # "unsent"
      /\ Aside(m) \/ Begins(m) \/ Goes(m) \/ Ends(m)
  BY HandleMoves, HandleEffect DEF OrderInv, clientVars
<1>2. /\ document # None => document.tree # "unsound"
      /\ \A a \in Active : pc[a] = "parsing" => held[a].base # "unsound"
      /\ kind[m] # "fullChange"
  BY <1>1 DEF SoundInv
<1>3. document' # None => document'.tree # "unsound"
  <2>1. CASE Aside(m)
    BY <1>2, <2>1 DEF Aside
  <2>2. CASE Begins(m)
    BY <1>2, <2>2 DEF Begins
  <2>3. CASE Goes(m)
    BY <1>2, <2>3 DEF Goes
  <2>4. CASE Ends(m)
    BY <1>2, <2>4 DEF Ends
  <2>5. QED
    BY <1>1, <2>1, <2>2, <2>3, <2>4
<1>4. ASSUME NEW a \in Active', pc'[a] = "parsing" PROVE held'[a].base # "unsound"
  <2>1. a \in Messages
    BY DEF Active, Running
  <2>2. CASE a # m
    <3>1. a \in Active /\ pc[a] = "parsing" /\ held'[a] = held[a]
      BY <1>1, <1>4, <2>1, <2>2 DEF Active, Running
    <3>2. QED
      BY <1>2, <3>1
  <2>3. CASE a = m
    <3>1. Goes(m)
      <4>1. kind[m] \in TextKinds
        BY <1>1, <2>3 DEF Active, Running
      <4>2. ~Aside(m) /\ ~Begins(m) /\ ~Ends(m)
        BY <1>4, <2>3, <4>1 DEF Aside, Begins, Ends, TextKinds, ChangeKinds
      <4>3. QED
        BY <1>1, <4>2
    <3>2. QED
      BY <1>2, <1>4, <2>3, <3>1 DEF Goes
  <2>4. QED
    BY <2>2, <2>3
<1>5. QED
  BY <1>3, <1>4

LEMMA ClientKeepsSound ==
  ASSUME StoreInv, ControlTypes, OrderInv, SoundInv, Client
  PROVE  SoundInv'
<1>1. PICK m \in Messages :
         /\ pc[m] = "unsent" /\ pc'[m] = "sent"
         /\ \A n \in Messages : n # m => /\ pc'[n] = pc[n] /\ held'[n] = held[n]
                                         /\ kind'[n] = kind[n]
         /\ UNCHANGED <<storeVars, overlapped>>
  BY SendFacts
<1>2. (\A n \in Messages : pc'[n] # "unsent" => kind'[n] # "fullChange")
         => \A n \in Messages : pc[n] # "unsent" => kind[n] # "fullChange"
  BY <1>1
<1>3. Active' = Active
      /\ \A a \in Active : held'[a] = held[a] /\ pc'[a] = pc[a] /\ a # m
  BY <1>1 DEF Active, Running
<1>4. UNCHANGED <<document, overlapped>>
  BY <1>1 DEF storeVars
<1>5. QED
  BY <1>2, <1>3, <1>4 DEF SoundInv

(* The whole invariant is kept by every step. *)
HostInv == ControlTypes /\ StoreInv /\ OrderInv /\ SoundInv

LEMMA HostInvariant == Spec => []HostInv
<1>1. Init => OrderInv /\ SoundInv
  <2>1. Init => SoundInv
    <3> SUFFICES ASSUME Init PROVE SoundInv
      OBVIOUS
    <3>1. document = None /\ Active = {}
      BY DEF Init, Active, Running
    <3>2. QED
      BY <3>1 DEF SoundInv
  <2>2. QED
    BY <2>1, InitOrder
<1>2. ASSUME ControlTypes, StoreInv, OrderInv, SoundInv, [Next]_vars
      PROVE  OrderInv' /\ SoundInv'
  <2>1. CASE UNCHANGED vars
    <3>1. Active' = Active /\ Running' = Running
      BY <2>1 DEF vars, Active, Running, clientVars
    <3>2. KindInv' /\ TurnInv' /\ SentInv' /\ ActiveInv' /\ SoundInv'
      BY <1>2, <2>1, <3>1
         DEF vars, clientVars, storeVars, OrderInv, KindInv, TurnInv, SentInv,
             ActiveInv, SoundInv, Follows, Opener, Changer
    <3>3. ReachedInv'
      BY <1>2, <2>1, <3>1 DEF vars, clientVars, storeVars, OrderInv, ReachedInv,
         Reached, Continues, Follows, Opener, Changer
    <3>4. QED
      BY <3>2, <3>3 DEF OrderInv
  <2>2. CASE Block
    <3>1. Active' = Active /\ Running' = Running
      BY <2>2 DEF Block, Active, Running, clientVars
    <3>2. KindInv' /\ TurnInv' /\ SentInv' /\ ActiveInv' /\ SoundInv'
      BY <1>2, <2>2, <3>1
         DEF Block, clientVars, storeVars, OrderInv, KindInv, TurnInv, SentInv,
             ActiveInv, SoundInv, Follows, Opener, Changer
    <3>3. ReachedInv'
      BY <1>2, <2>2, <3>1 DEF Block, clientVars, storeVars, OrderInv, ReachedInv,
         Reached, Continues, Follows, Opener, Changer
    <3>4. QED
      BY <3>2, <3>3 DEF OrderInv
  <2>3. CASE Client
    <3>1. KindInv' /\ TurnInv' /\ SentInv' /\ SoundInv'
      BY <1>2, <2>3, ClientKeepsTurns, ClientKeepsSound DEF OrderInv
    <3>2. overlapped' = overlapped
      BY <1>2, <2>3, SendFacts
    <3>3. ReachedInv' /\ ActiveInv'
      <4>1. CASE overlapped
        BY <3>2, <4>1 DEF ReachedInv, ActiveInv
      <4>2. CASE ~overlapped
        BY <1>2, <2>3, <4>2, ClientKeepsReached
      <4>3. QED
        BY <4>1, <4>2
    <3>4. QED
      BY <3>1, <3>3 DEF OrderInv
  <2>4. ASSUME NEW m \in Messages, Handle(m) PROVE OrderInv' /\ SoundInv'
    <3>1. KindInv' /\ TurnInv' /\ SentInv' /\ SoundInv'
      BY <1>2, <2>4, HandleKeepsTurns, HandleKeepsSound DEF OrderInv
    <3>2. ReachedInv' /\ ActiveInv'
      <4>1. CASE overlapped'
        BY <4>1 DEF ReachedInv, ActiveInv
      <4>2. CASE ~overlapped'
        BY <1>2, <2>4, <4>2, HandleKeepsReached
      <4>3. QED
        BY <4>1, <4>2
    <3>3. QED
      BY <3>1, <3>2 DEF OrderInv
  <2>5. QED
    BY <1>2, <2>1, <2>2, <2>3, <2>4 DEF Next
<1>3. QED
  BY <1>1, <1>2, ControlInvariant, StoreInvariant, PTL DEF Spec, HostInv

(* The store ends with the client's text when the handlers of didOpen,      *)
(* didChange, didClose and selection ranges ran one after the other, and    *)
(* with nothing of a closed document, whatever parses fail, are skipped or  *)
(* are made by requests meanwhile: each handler starts from the text the    *)
(* one before it left, and no one is left out.                              *)
THEOREM TextIsKept == Spec => []TextKept
<1>1. HostInv => TextKept
  <2> SUFFICES ASSUME HostInv, ~overlapped, Quiet
               PROVE  IF client_open
                        THEN document # None /\ document.text = client_text
                        ELSE document = None
    BY DEF TextKept
  <2>1. PICK o \in BOOLEAN, t \in Texts : Reached(o, t) /\ Continues(o, t)
    BY DEF HostInv, OrderInv, ReachedInv
  <2>2. Active = {} /\ \A m \in Messages : pc[m] # "sent"
    BY DEF Quiet, Active, Running
  <2>3. client_open = o /\ (o => client_text = t)
    BY <2>1, <2>2 DEF Continues
  <2>4. o = (document # None) /\ (o => document.text = t)
    BY <2>1, <2>2 DEF Reached
  <2>5. QED
    BY <2>3, <2>4
<1>2. QED
  BY <1>1, HostInvariant, PTL

(* A stored tree is the tree of the text beside it, unless handlers         *)
(* overlapped or a change replaced the whole text: an incremental parse     *)
(* starts from the tree of the very text its edits are made to.             *)
THEOREM TreesAreOfTheirText == Spec => []TreeIsOfText
<1>1. HostInv => TreeIsOfText
  BY DEF HostInv, SoundInv, TreeIsOfText
<1>2. QED
  BY <1>1, HostInvariant, PTL
=============================================================================
