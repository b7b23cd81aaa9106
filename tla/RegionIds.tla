------------------------------ MODULE RegionIds ------------------------------
(***************************************************************************)
(* The identities of the injection regions of one host document:           *)
(* RegionIdTracker (language/region_id_tracker.rs), the content changes    *)
(* that move its positions (lsp/text_sync.rs and did_change) and the       *)
(* requests that look regions up in the snapshot of the document           *)
(* (InjectionResolver, populate_injections).                               *)
(*                                                                         *)
(* A text is a sequence of bytes, and every byte ever typed is told from   *)
(* all the others by its number: what a region is can then be said without *)
(* the tracker, by the bytes it had when it was given its id.  Positions   *)
(* count from 0.  All callers of the tracker are handlers of one task, and *)
(* none awaits between two edits of a message.                             *)
(***************************************************************************)
EXTENDS Integers, Sequences

CONSTANTS
  Kinds,        (* the node kinds of regions                              *)
  MaxText,      (* bound: the length of a text the client opens or sends  *)
  MaxBytes,     (* bound: bytes typed in all                              *)
  MaxIds,       (* bound: ids given out                                   *)
  Environment,  (* "overlaps": requests and closings overlap the parse of *)
                (* a change; "mixedBatches": a change of the whole text   *)
                (* is followed by one with a range in the same message    *)
  None

ASSUME RegionIdsAssumption ==
  /\ MaxText \in Nat /\ MaxBytes \in Nat /\ MaxIds \in Nat
  /\ Environment \subseteq {"overlaps", "mixedBatches"}
  /\ None \notin Seq(Nat)

VARIABLES
  entries,    (* RegionIdTracker.entries of the document; home is history: *)
              (* the region at the birth of the id                        *)
  text,       (* the text the tracker has been told of                    *)
  snapshot,   (* the text and tree of the document store, or None         *)
  phase,      (* of the client's document and the handler of its changes  *)
  pending,    (* the edits of the change still to be applied              *)
  typed,      (* the number of bytes typed so far                         *)
  issued,     (* the number of ids given out                              *)
  reported,   (* the ids returned as invalidated                          *)
  forgotten   (* history: the ids dropped with the document               *)

vars == <<entries, text, snapshot, phase, pending, typed, issued, reported,
          forgotten>>

(* The bytes there were, and those of the region; None when the position    *)
(* was not one of the text the tracker knows.                               *)
Homes == [bytes : SUBSET Nat, region : SUBSET Nat] \cup {None}

Entries == [start : Nat, end : Nat, kind : Kinds, id : 1 .. issued, home : Homes]
EditInfos == [start_byte : Nat, old_end_byte : Nat, new_end_byte : Nat]

(* A change never ends before it starts: EditInfo::new asserts it of the    *)
(* old end, and the new end is the start and a length.                      *)
ValidEdits == {e \in EditInfos : /\ e.start_byte <= e.old_end_byte
                                 /\ e.start_byte <= e.new_end_byte}

TypeOK ==
  /\ entries \subseteq Entries
  /\ text \in Seq(Nat) /\ snapshot \in Seq(Nat) \cup {None}
  /\ phase \in {"closed", "open", "editing", "diffing", "parsing", "lateParse"}
  /\ pending \in Seq(ValidEdits)
  /\ typed \in Nat /\ issued \in Nat
  /\ reported \subseteq 1 .. issued /\ forgotten \subseteq 1 .. issued

Init ==
  /\ entries = {} /\ text = <<>> /\ snapshot = None
  /\ phase = "closed" /\ pending = <<>>
  /\ typed = 0 /\ issued = 0
  /\ reported = {} /\ forgotten = {}
-----------------------------------------------------------------------------
BytesOf(t) == {t[i] : i \in DOMAIN t}
Covered(t, start, end) == {t[i] : i \in (start + 1) .. end}
IdsOf(E) == {e.id : e \in E}
SameKey(a, b) == a.start = b.start /\ a.end = b.end /\ a.kind = b.kind

(* The text is no longer the one the entries are about. *)
Misplaced(E) == {[e EXCEPT !.home = None] : e \in E}

(* n bytes nobody typed before. *)
Fresh(n) == [i \in 1 .. n |-> typed + i]

Replace(t, edit, new) ==
  SubSeq(t, 1, edit.start_byte) \o new \o SubSeq(t, edit.old_end_byte + 1, Len(t))
-----------------------------------------------------------------------------
Delta(edit) == edit.new_end_byte - edit.old_end_byte
IsInsertionOnly(edit) == edit.start_byte = edit.old_end_byte

ApplyDelta(position, delta) ==
  IF position + delta < 0 THEN 0 ELSE position + delta

(* Mutant: a region right behind the edit counts as touched by it. *)
AdjustOnlyApart(e, edit) ==
  IF e.start > edit.old_end_byte
  THEN [e EXCEPT !.start = ApplyDelta(@, Delta(edit)),
                 !.end = ApplyDelta(@, Delta(edit))]
  ELSE IF e.end > edit.start_byte
  THEN [e EXCEPT !.end = IF @ <= edit.old_end_byte THEN edit.new_end_byte
                         ELSE ApplyDelta(@, Delta(edit))]
  ELSE e

(* adjust_position_for_edit; a range that collapses is left to Collapses.   *)
Adjust(e, edit) ==
  IF e.start >= edit.old_end_byte
  THEN [e EXCEPT !.start = ApplyDelta(@, Delta(edit)),
                 !.end = ApplyDelta(@, Delta(edit))]
  ELSE IF e.end > edit.start_byte
  THEN [e EXCEPT !.end = IF @ <= edit.old_end_byte THEN edit.new_end_byte
                         ELSE ApplyDelta(@, Delta(edit))]
  ELSE e

Collapses(e, edit) ==
  /\ e.start < edit.old_end_byte /\ e.end > edit.start_byte
  /\ Adjust(e, edit).end <= e.start

(* Mutant: the end of the edit counts as inside. *)
InvalidateToEnd(e, edit) ==
  IF IsInsertionOnly(edit) THEN e.start = edit.start_byte
  ELSE e.start >= edit.start_byte /\ e.start <= edit.old_end_byte

ShouldInvalidate(e, edit) ==
  IF IsInsertionOnly(edit) THEN e.start = edit.start_byte
  ELSE e.start >= edit.start_byte /\ e.start < edit.old_end_byte

Survivors(edit) ==
  {e \in entries : ~ShouldInvalidate(e, edit) /\ ~Collapses(e, edit)}

(* Of the entries that meet at one position, one is kept: whichever the     *)
(* HashMap yields first.                                                    *)
KeepsFirst(kept, moved) ==
  /\ \A a \in moved : \E b \in kept : SameKey(a, b)
  /\ \A a, b \in kept : SameKey(a, b) => a = b

(* Mutant: an entry that loses its place to another is not reported. *)
ReportInvalidated(edit, kept) ==
  reported' = reported \cup IdsOf(entries \ Survivors(edit))

Report(edit, kept) == reported' = reported \cup (IdsOf(entries) \ IdsOf(kept))

(* apply_single_edit. *)
ApplySingleEdit ==
  /\ pending # <<>>
  /\ LET edit == Head(pending)
         moved == {Adjust(e, edit) : e \in Survivors(edit)}
         size == edit.new_end_byte - edit.start_byte
     IN /\ \E kept \in SUBSET moved :
             KeepsFirst(kept, moved) /\ entries' = kept /\ Report(edit, kept)
        /\ text' = Replace(text, edit, Fresh(size))
        /\ typed' = typed + size
  /\ pending' = Tail(pending)
  /\ UNCHANGED <<snapshot, phase, issued, forgotten>>
-----------------------------------------------------------------------------
(* The edits of a text of n bytes, with room for what they insert.          *)
EditsOf(n, room) ==
  {[start_byte |-> a, old_end_byte |-> b, new_end_byte |-> c] :
     a \in 0 .. n, b \in 0 .. n, c \in 0 .. (n + room)}
  \cap {e \in ValidEdits : e.new_end_byte - e.start_byte <= room}

Room == MaxBytes - typed

(* did_open; its parse ends with StoreParsed.                               *)
Open ==
  /\ phase = "closed"
  /\ \E n \in 0 .. MaxText :
       n <= Room /\ text' = Fresh(n) /\ typed' = typed + n
  /\ phase' = "parsing"
  /\ snapshot' = None
  /\ entries' = Misplaced(entries)
  /\ UNCHANGED <<pending, issued, reported, forgotten>>

(* apply_input_edits: a message with a range, or the next range of one;     *)
(* each is in the text that the one before it leaves.                       *)
ChangeRange ==
  /\ phase \in {"open", "editing"} /\ pending = <<>>
  /\ \E a \in EditsOf(Len(text), Room) : pending' = <<a>>
  /\ phase' = "editing"
  /\ UNCHANGED <<entries, text, snapshot, typed, issued, reported, forgotten>>

(* apply_text_diff: a message without a range.  Its edits are those of a    *)
(* diff, all in the old text and apart from one another, the last first.    *)
ChangeText ==
  /\ phase = "open"
  /\ \/ \E a \in EditsOf(Len(text), Room) : pending' = <<a>>
     \/ \E a, b \in EditsOf(Len(text), Room) :
          /\ a.old_end_byte < b.start_byte
          /\ a.new_end_byte - a.start_byte + b.new_end_byte - b.start_byte <= Room
          /\ pending' = <<b, a>>
  /\ phase' = "diffing"
  /\ UNCHANGED <<entries, text, snapshot, typed, issued, reported, forgotten>>

(* A message with the whole text and then a range: the edits collected are  *)
(* those after the whole text, and the tracker is told of no others.        *)
ChangeMixed ==
  /\ "mixedBatches" \in Environment /\ phase = "open"
  /\ \E n \in 0 .. MaxText :
       /\ n <= Room /\ text' = Fresh(n) /\ typed' = typed + n
       /\ \E a \in EditsOf(n, Room - n) : pending' = <<a>>
  /\ phase' = "editing"
  /\ entries' = Misplaced(entries)
  /\ UNCHANGED <<snapshot, issued, reported, forgotten>>

(* The edits are applied; the handler awaits the parse. *)
BeginParse ==
  /\ phase \in {"editing", "diffing"} /\ pending = <<>>
  /\ phase' = "parsing"
  /\ UNCHANGED <<entries, text, snapshot, pending, typed, issued, reported,
                 forgotten>>

(* The parse ends, with a tree or without: a request that finds no tree     *)
(* looks no region up.  A parse that ends after the didClose stores the     *)
(* document again.                                                          *)
StoreParsed ==
  /\ phase \in {"parsing", "lateParse"}
  /\ snapshot' \in {text, None}
  /\ phase' = IF phase = "parsing" THEN "open" ELSE "closed"
  /\ UNCHANGED <<entries, text, pending, typed, issued, reported, forgotten>>

(* get_or_create *)
GetOrCreate(start, end, kind) ==
  IF \E e \in entries : e.start = start /\ e.end = end /\ e.kind = kind
  THEN UNCHANGED <<entries, issued>>
  ELSE /\ issued < MaxIds
       /\ issued' = issued + 1
       /\ entries' = entries \cup
            {[start |-> start, end |-> end, kind |-> kind, id |-> issued + 1,
              home |-> IF snapshot = text
                       THEN [bytes |-> BytesOf(snapshot),
                             region |-> Covered(snapshot, start, end)]
                       ELSE None]}

(* A request, the forwarding of a change or populate_injections looks a     *)
(* region of the stored tree up.  Which regions a tree has is left open.    *)
Resolve ==
  /\ snapshot # None /\ phase \notin {"editing", "diffing"}
  /\ "overlaps" \in Environment \/ phase = "open"
  /\ \E start \in 0 .. Len(snapshot), end \in 0 .. Len(snapshot), k \in Kinds :
       start < end /\ GetOrCreate(start, end, k)
  /\ UNCHANGED <<text, snapshot, phase, pending, typed, reported, forgotten>>

(* did_close drops the document and the tracker's entries.                  *)
Close ==
  /\ \/ phase = "open"
     \/ phase = "parsing" /\ "overlaps" \in Environment
  /\ snapshot' = None /\ entries' = {}
  /\ forgotten' = forgotten \cup IdsOf(entries)
  /\ phase' = IF phase = "parsing" THEN "lateParse" ELSE "closed"
  /\ UNCHANGED <<text, pending, typed, issued, reported>>

Next ==
  \/ Open \/ ChangeRange \/ ChangeText \/ ChangeMixed \/ ApplySingleEdit
  \/ BeginParse \/ StoreParsed \/ Resolve \/ Close

Spec == Init /\ [][Next]_vars
-----------------------------------------------------------------------------
(* A region has one id, and an id is that of one region, also when edits    *)
(* make two regions meet (apply_single_edit).                               *)
OneIdPerRegion ==
  \A a, b \in entries : (SameKey(a, b) \/ a.id = b.id) => a = b

(* Every id given out is known to the tracker, or was returned as           *)
(* invalidated, so that its virtual document is closed, or went with the    *)
(* host document, and only one of the three.                                *)
IdsAccounted ==
  /\ 1 .. issued = IdsOf(entries) \cup reported \cup forgotten
  /\ IdsOf(entries) \cap reported = {}
  /\ forgotten \cap (IdsOf(entries) \cup reported) = {}

(* A region is never empty, and what survives the START-priority rule does  *)
(* not collapse: the guard of adjust_position_for_edit is unreachable, as   *)
(* its comment argues.                                                      *)
NothingCollapses ==
  /\ \A e \in entries : e.start < e.end
  /\ pending # <<>> =>
       \A e \in entries : ~ShouldInvalidate(e, Head(pending)) =>
                             ~Collapses(e, Head(pending))

(* What the tracker keeps whatever the text is: types, unique ids, none    *)
(* lost, and ranges that are not empty.                                    *)
RegionsSafe == TypeOK /\ OneIdPerRegion /\ IdsAccounted /\ NothingCollapses

(* The position of an id follows its region through every change: of the    *)
(* bytes there were when the id was given, the ones now in its range are    *)
(* the ones of its region that are left, and its range lies in the text.    *)
FollowsText ==
  \A e \in entries : e.home # None =>
     /\ e.end <= Len(text)
     /\ Covered(text, e.start, e.end) \cap e.home.bytes
          = e.home.region \cap BytesOf(text)

(* An id is given up only if the first byte of its region was replaced,     *)
(* something was put right before it, or another region took its place.     *)
InvalidatedForCause ==
  [][\A e \in entries :
       (pending # <<>> /\ e.id \in reported' /\ e.home # None) =>
          \/ text[e.start + 1] \notin BytesOf(text')
          \/ Head(pending).start_byte = e.start /\ IsInsertionOnly(Head(pending))
          \/ \E f \in entries' : f.start = e.start /\ f.kind = e.kind]_vars
=============================================================================
