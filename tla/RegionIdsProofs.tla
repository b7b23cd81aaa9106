--------------------------- MODULE RegionIdsProofs ---------------------------
(***************************************************************************)
(* For any texts, kinds, numbers of ids and changes: the ids of RegionIds   *)
(* are those of one region each and none is lost, no range collapses, a     *)
(* range covers what is left of its region, and ids are given up for a      *)
(* cause.  IInv is of the tracker's entries, TInv of the bytes they cover.  *)
(***************************************************************************)
EXTENDS RegionIds, SequenceTheorems, TLAPS

(* The edits still to be applied lie in the text, each before the others.   *)
PendingFits ==
  /\ \A i \in DOMAIN pending : pending[i].old_end_byte <= Len(text)
  /\ \A i, j \in DOMAIN pending :
        i < j => pending[j].old_end_byte <= pending[i].start_byte
  /\ phase \notin {"editing", "diffing"} => pending = <<>>

NoneEmpty == \A e \in entries : e.start < e.end

IInv == TypeOK /\ PendingFits /\ NoneEmpty /\ OneIdPerRegion /\ IdsAccounted

-----------------------------------------------------------------------------
(* An edit moves a region that it does not invalidate to a range that is    *)
(* not empty, and changes nothing else of it.                               *)
LEMMA AdjustKeepsRange ==
  ASSUME NEW e \in Entries, e.start < e.end, NEW edit \in ValidEdits,
         ~ShouldInvalidate(e, edit)
  PROVE  /\ Adjust(e, edit) \in Entries
         /\ Adjust(e, edit).start < Adjust(e, edit).end
         /\ Adjust(e, edit).id = e.id
         /\ ~Collapses(e, edit)
<1> DEFINE d == Delta(edit)
<1>1. /\ e.start \in Nat /\ e.end \in Nat
      /\ edit.start_byte \in Nat /\ edit.old_end_byte \in Nat
      /\ edit.new_end_byte \in Nat
      /\ edit.start_byte <= edit.old_end_byte
      /\ edit.start_byte <= edit.new_end_byte
      /\ d = edit.new_end_byte - edit.old_end_byte
  BY DEF Entries, ValidEdits, EditInfos, Delta
<1>2. CASE e.start >= edit.old_end_byte
  <2>1. /\ ApplyDelta(e.start, d) = e.start + d
        /\ ApplyDelta(e.end, d) = e.end + d
        /\ e.start + d \in Nat /\ e.end + d \in Nat
    BY <1>1, <1>2 DEF ApplyDelta
  <2>2. Adjust(e, edit) = [e EXCEPT !.start = e.start + d, !.end = e.end + d]
    BY <1>2, <2>1 DEF Adjust
  <2>3. ~Collapses(e, edit)
    BY <1>1, <1>2 DEF Collapses
  <2>4. /\ Adjust(e, edit).start = e.start + d
        /\ Adjust(e, edit).end = e.end + d
        /\ Adjust(e, edit).id = e.id /\ Adjust(e, edit) \in Entries
    BY <2>1, <2>2 DEF Entries
  <2>5. e.start + d < e.end + d
    BY <1>1
  <2>6. QED
    BY <2>3, <2>4, <2>5
<1>3. CASE e.start < edit.old_end_byte /\ e.end > edit.start_byte
  <2>1. e.start < edit.start_byte
    BY <1>1, <1>3 DEF ShouldInvalidate, IsInsertionOnly
  <2> DEFINE end == IF e.end <= edit.old_end_byte THEN edit.new_end_byte
                    ELSE ApplyDelta(e.end, d)
  <2>2. end \in Nat /\ e.start < end
    BY <1>1, <2>1 DEF ApplyDelta
  <2>3. Adjust(e, edit) = [e EXCEPT !.end = end]
    BY <1>1, <1>3 DEF Adjust
  <2> HIDE DEF end
  <2>4. /\ Adjust(e, edit).end = end /\ Adjust(e, edit).start = e.start
        /\ Adjust(e, edit).id = e.id /\ Adjust(e, edit) \in Entries
    BY <2>2, <2>3 DEF Entries
  <2>5. ~Collapses(e, edit)
    BY <1>1, <2>2, <2>4 DEF Collapses
  <2>6. QED
    BY <2>2, <2>4, <2>5
<1>4. CASE e.start < edit.old_end_byte /\ e.end <= edit.start_byte
  <2>1. Adjust(e, edit) = e /\ ~Collapses(e, edit)
    BY <1>1, <1>4 DEF Adjust, Collapses
  <2>2. QED
    BY <2>1
<1>5. QED
  BY <1>1, <1>2, <1>3, <1>4

(* An edit of a text leaves at least what is before it. *)
LEMMA ReplaceKeepsStart ==
  ASSUME NEW t \in Seq(Nat), NEW edit \in ValidEdits, NEW new \in Seq(Nat),
         edit.old_end_byte <= Len(t)
  PROVE  /\ Replace(t, edit, new) \in Seq(Nat)
         /\ edit.start_byte <= Len(Replace(t, edit, new))
<1>1. /\ edit.start_byte \in Nat /\ edit.old_end_byte \in Nat
      /\ edit.start_byte <= edit.old_end_byte /\ Len(t) \in Nat
  BY DEF ValidEdits, EditInfos
<1> DEFINE before == SubSeq(t, 1, edit.start_byte)
           after == SubSeq(t, edit.old_end_byte + 1, Len(t))
<1>2. before \in Seq(Nat) /\ Len(before) = edit.start_byte
  BY <1>1
<1>3. after \in Seq(Nat)
  BY <1>1
<1>4. Replace(t, edit, new) = (before \o new) \o after
  BY DEF Replace
<1> HIDE DEF before, after
<1>5. /\ before \o new \in Seq(Nat)
      /\ Len(before \o new) = Len(before) + Len(new)
  BY <1>2, ConcatProperties
<1>6. /\ (before \o new) \o after \in Seq(Nat)
      /\ Len((before \o new) \o after) = Len(before \o new) + Len(after)
  BY <1>3, <1>5, ConcatProperties
<1>7. Len(new) \in Nat /\ Len(after) \in Nat
  BY <1>3
<1>8. QED
  BY <1>1, <1>2, <1>4, <1>5, <1>6, <1>7

LEMMA FreshIsText == ASSUME typed \in Nat, NEW n \in Nat PROVE Fresh(n) \in Seq(Nat)
<1>1. Fresh(n) \in [1 .. n -> Nat]
  BY DEF Fresh
<1>2. QED
  BY <1>1

LEMMA FreshLength == ASSUME typed \in Nat, NEW n \in Nat PROVE Len(Fresh(n)) = n
<1>1. /\ Fresh(n) \in Seq(Nat) /\ DOMAIN Fresh(n) = 1 .. n
  BY FreshIsText DEF Fresh
<1>2. QED
  BY <1>1

(* What is kept of the entries after an edit. *)
LEMMA EditKeepsIdentity ==
  ASSUME IInv, NEW edit \in ValidEdits,
         NEW kept \in SUBSET {Adjust(e, edit) : e \in Survivors(edit)},
         KeepsFirst(kept, {Adjust(e, edit) : e \in Survivors(edit)})
  PROVE  /\ kept \subseteq Entries
         /\ \A a \in kept : a.start < a.end
         /\ \A a, b \in kept : (SameKey(a, b) \/ a.id = b.id) => a = b
         /\ IdsOf(kept) \subseteq IdsOf(entries)
<1>1. \A e \in Survivors(edit) :
         /\ e \in entries
         /\ Adjust(e, edit) \in Entries
         /\ Adjust(e, edit).start < Adjust(e, edit).end
         /\ Adjust(e, edit).id = e.id
  BY AdjustKeepsRange DEF IInv, TypeOK, NoneEmpty, Survivors
<1>2. kept \subseteq Entries /\ \A a \in kept : a.start < a.end
  BY <1>1
<1>3. ASSUME NEW a \in kept, NEW b \in kept, SameKey(a, b) \/ a.id = b.id
      PROVE  a = b
  <2>1. CASE SameKey(a, b)
    BY <2>1 DEF KeepsFirst
  <2>2. CASE a.id = b.id
    <3>1. PICK e \in Survivors(edit) : a = Adjust(e, edit)
      OBVIOUS
    <3>2. PICK f \in Survivors(edit) : b = Adjust(f, edit)
      OBVIOUS
    <3>3. e = f
      BY <1>1, <2>2, <3>1, <3>2 DEF IInv, OneIdPerRegion
    <3>4. QED
      BY <3>1, <3>2, <3>3
  <2>3. QED
    BY <1>3, <2>1, <2>2
<1>4. IdsOf(kept) \subseteq IdsOf(entries)
  BY <1>1 DEF IdsOf
<1>5. QED
  BY <1>2, <1>3, <1>4

(* The properties that do not look at the text speak of the entries, and of *)
(* the ids that are gone.                                                   *)
LEMMA EntriesStay ==
  ASSUME IInv, UNCHANGED <<entries, issued, reported, forgotten>>
  PROVE  NoneEmpty' /\ OneIdPerRegion' /\ IdsAccounted' /\ entries' \subseteq Entries'
BY DEF IInv, TypeOK, Entries, NoneEmpty, OneIdPerRegion, IdsAccounted, SameKey, IdsOf

LEMMA MisplacedKeeps ==
  ASSUME IInv, entries' = Misplaced(entries), UNCHANGED <<issued, reported, forgotten>>
  PROVE  NoneEmpty' /\ OneIdPerRegion' /\ IdsAccounted' /\ entries' \subseteq Entries'
<1> DEFINE m(e) == [e EXCEPT !.home = None]
<1>1. \A e \in entries :
        /\ m(e).start = e.start /\ m(e).end = e.end /\ m(e).kind = e.kind
        /\ m(e).id = e.id /\ m(e) \in Entries
  BY DEF IInv, TypeOK, Entries, Homes
<1>2. entries' = {m(e) : e \in entries}
  BY DEF Misplaced
<1> HIDE DEF m
<1>3. NoneEmpty'
  BY <1>1, <1>2 DEF IInv, NoneEmpty
<1>4. OneIdPerRegion'
  BY <1>1, <1>2 DEF IInv, OneIdPerRegion, SameKey
<1>5. IdsOf(entries)' = IdsOf(entries)
  BY <1>1, <1>2 DEF IdsOf
<1>6. IdsAccounted'
  BY <1>5 DEF IInv, IdsAccounted
<1>7. entries' \subseteq Entries'
  BY <1>1, <1>2 DEF Entries
<1>8. QED
  BY <1>3, <1>4, <1>6, <1>7

LEMMA InitInv == Init => IInv
BY DEF Init, IInv, TypeOK, PendingFits, NoneEmpty, OneIdPerRegion, IdsAccounted,
       IdsOf, Entries
-----------------------------------------------------------------------------
(* One edit of a change is applied. *)
LEMMA ApplySingleEditInv == IInv /\ ApplySingleEdit => IInv'
<1> SUFFICES ASSUME IInv, ApplySingleEdit PROVE IInv'
  OBVIOUS
<1> DEFINE edit == Head(pending)
           size == edit.new_end_byte - edit.start_byte
           moved == {Adjust(e, edit) : e \in Survivors(edit)}
<1>1. /\ pending \in Seq(ValidEdits) /\ pending # <<>>
      /\ edit = pending[1] /\ 1 \in DOMAIN pending
  BY DEF IInv, TypeOK, ApplySingleEdit
<1>2. edit \in ValidEdits /\ size \in Nat
  BY <1>1 DEF ValidEdits, EditInfos
<1>3. edit.old_end_byte <= Len(text)
  BY <1>1 DEF IInv, PendingFits
<1>4. PICK kept \in SUBSET moved :
        KeepsFirst(kept, moved) /\ entries' = kept /\ Report(edit, kept)
  BY DEF ApplySingleEdit
<1>5. /\ text' = Replace(text, edit, Fresh(size)) /\ typed' = typed + size
      /\ pending' = Tail(pending)
      /\ UNCHANGED <<snapshot, phase, issued, forgotten>>
  BY DEF ApplySingleEdit
<1>6. text' \in Seq(Nat) /\ edit.start_byte <= Len(text')
  BY <1>2, <1>3, <1>5, ReplaceKeepsStart, FreshIsText DEF IInv, TypeOK
<1> HIDE DEF size
<1>7. /\ kept \subseteq Entries
      /\ \A a \in kept : a.start < a.end
      /\ \A a, b \in kept : (SameKey(a, b) \/ a.id = b.id) => a = b
      /\ IdsOf(kept) \subseteq IdsOf(entries)
  BY <1>2, <1>4, EditKeepsIdentity
<1>8. /\ pending' \in Seq(ValidEdits)
      /\ \A i \in DOMAIN pending' : i + 1 \in DOMAIN pending /\ i \in Nat
                                    /\ pending'[i] = pending[i + 1]
  BY <1>1, <1>5
<1>9. reported' = reported \cup (IdsOf(entries) \ IdsOf(kept))
  BY <1>4 DEF Report
<1>10. TypeOK'
  <2>1. entries' \subseteq Entries'
    BY <1>4, <1>5, <1>7 DEF Entries
  <2>2. IdsOf(entries) \subseteq 1 .. issued
    BY DEF IInv, TypeOK, IdsOf, Entries
  <2>3. reported' \subseteq 1 .. issued
    BY <1>9, <2>2 DEF IInv, TypeOK
  <2>4. typed' \in Nat
    BY <1>2, <1>5 DEF IInv, TypeOK
  <2>5. QED
    BY <1>5, <1>6, <1>8, <2>1, <2>3, <2>4 DEF IInv, TypeOK
<1>11. PendingFits'
  <2>1. \A i \in DOMAIN pending' : pending'[i].old_end_byte <= Len(text')
    <3> SUFFICES ASSUME NEW i \in DOMAIN pending'
                 PROVE  pending'[i].old_end_byte <= Len(text')
      OBVIOUS
    <3>1. pending[i + 1].old_end_byte <= edit.start_byte
      <4>1. i + 1 \in DOMAIN pending /\ 1 < i + 1
        BY <1>1, <1>8
      <4>2. QED
        BY <1>1, <4>1 DEF IInv, PendingFits
    <3>2. /\ pending'[i] = pending[i + 1] /\ pending[i + 1] \in ValidEdits
          /\ Len(text') \in Nat
      BY <1>1, <1>6, <1>8
    <3>3. pending[i + 1].old_end_byte \in Nat /\ edit.start_byte \in Nat
      BY <1>2, <3>2 DEF ValidEdits, EditInfos
    <3>4. QED
      BY <1>6, <3>1, <3>2, <3>3
  <2>2. \A i, j \in DOMAIN pending' :
           i < j => pending'[j].old_end_byte <= pending'[i].start_byte
    BY <1>8 DEF IInv, PendingFits
  <2>3. phase' \in {"editing", "diffing"}
    BY <1>1, <1>5 DEF IInv, PendingFits
  <2>4. QED
    BY <2>1, <2>2, <2>3 DEF PendingFits
<1>12. NoneEmpty' /\ OneIdPerRegion'
  BY <1>4, <1>7 DEF NoneEmpty, OneIdPerRegion, SameKey
<1>13. IdsAccounted'
  <2>1. IdsOf(entries') = IdsOf(kept) /\ issued' = issued /\ forgotten' = forgotten
    BY <1>4, <1>5
  <2>2. QED
    BY <1>7, <1>9, <2>1 DEF IInv, IdsAccounted, IdsOf
<1>14. QED
  BY <1>10, <1>11, <1>12, <1>13 DEF IInv

(* A region is looked up: known, or given the next id. *)
LEMMA ResolveInv == IInv /\ Resolve => IInv'
<1> SUFFICES ASSUME IInv, Resolve PROVE IInv'
  OBVIOUS
<1>1. PICK start \in 0 .. Len(snapshot), end \in 0 .. Len(snapshot), k \in Kinds :
        start < end /\ GetOrCreate(start, end, k)
  BY DEF Resolve
<1>2. UNCHANGED <<text, snapshot, phase, pending, typed, reported, forgotten>>
  BY DEF Resolve
<1>3. CASE UNCHANGED <<entries, issued>>
  BY <1>2, <1>3, EntriesStay DEF IInv, TypeOK, PendingFits
<1>4. CASE /\ issued' = issued + 1
           /\ \E h \in Homes :
                entries' = entries \cup {[start |-> start, end |-> end, kind |-> k,
                                          id |-> issued + 1, home |-> h]}
           /\ ~ \E e \in entries : e.start = start /\ e.end = end /\ e.kind = k
  <2>1. PICK h \in Homes :
          entries' = entries \cup {[start |-> start, end |-> end, kind |-> k,
                                    id |-> issued + 1, home |-> h]}
    BY <1>4
  <2> DEFINE new == [start |-> start, end |-> end, kind |-> k,
                     id |-> issued + 1, home |-> h]
  <2>2. snapshot \in Seq(Nat) /\ start \in Nat /\ end \in Nat /\ issued \in Nat
    BY DEF IInv, TypeOK, Resolve
  <2>3. \A e \in entries : e.id \in 1 .. issued
    BY DEF IInv, TypeOK, Entries
  <2>4. new \in Entries' /\ entries \subseteq Entries'
    BY <1>4, <2>2 DEF IInv, TypeOK, Entries
  <2>5. TypeOK' /\ PendingFits'
    BY <1>2, <1>4, <2>1, <2>2, <2>4 DEF IInv, TypeOK, PendingFits
  <2>6. NoneEmpty'
    BY <1>1, <2>1 DEF IInv, NoneEmpty
  <2>7. OneIdPerRegion'
    BY <1>4, <2>1, <2>2, <2>3 DEF IInv, OneIdPerRegion, SameKey
  <2>8. IdsOf(entries)' = IdsOf(entries) \cup {issued + 1}
    <3>1. entries' = entries \cup {new} /\ new.id = issued + 1
      BY <2>1
    <3> HIDE DEF new
    <3>2. QED
      BY <3>1 DEF IdsOf
  <2>9. 1 .. issued' = (1 .. issued) \cup {issued + 1} /\ issued + 1 \notin 1 .. issued
    BY <1>4, <2>2
  <2>10. IdsAccounted'
    BY <1>2, <2>8, <2>9 DEF IInv, TypeOK, IdsAccounted
  <2>11. QED
    BY <2>5, <2>6, <2>7, <2>10 DEF IInv
<1>5. ASSUME snapshot = text
      PROVE  [bytes |-> BytesOf(snapshot), region |-> Covered(snapshot, start, end)]
                \in Homes
  <2>1. /\ snapshot \in Seq(Nat) /\ start \in 0 .. Len(snapshot)
        /\ end \in 0 .. Len(snapshot)
    BY <1>1, <1>5 DEF IInv, TypeOK
  <2>2. BytesOf(snapshot) \subseteq Nat /\ Covered(snapshot, start, end) \subseteq Nat
    BY <2>1 DEF BytesOf, Covered
  <2>3. QED
    BY <2>2 DEF Homes
<1>6. None \in Homes
  BY DEF Homes
<1>7. QED
  BY <1>1, <1>3, <1>4, <1>5, <1>6 DEF GetOrCreate

(* The handlers that change the text of the client, or the snapshot. *)
LEMMA OpenInv == IInv /\ Open => IInv'
<1> SUFFICES ASSUME IInv, Open PROVE IInv'
  OBVIOUS
<1>1. PICK n \in 0 .. MaxText : text' = Fresh(n) /\ typed' = typed + n
  BY DEF Open
<1>2. n \in Nat /\ text' \in Seq(Nat) /\ typed' \in Nat
  BY <1>1, FreshIsText, RegionIdsAssumption DEF IInv, TypeOK
<1>3. NoneEmpty' /\ OneIdPerRegion' /\ IdsAccounted' /\ entries' \subseteq Entries'
  BY MisplacedKeeps DEF Open
<1>4. pending = <<>>
  BY DEF Open, IInv, PendingFits
<1>5. TypeOK' /\ PendingFits'
  BY <1>2, <1>3, <1>4 DEF Open, IInv, TypeOK, PendingFits
<1>6. QED
  BY <1>3, <1>5 DEF IInv

LEMMA EditsFit ==
  ASSUME NEW n \in Nat, NEW room, NEW a \in EditsOf(n, room)
  PROVE  a \in ValidEdits /\ a.old_end_byte <= n
<1>1. \E i \in 0 .. n, j \in 0 .. n, k \in 0 .. (n + room) :
         a = [start_byte |-> i, old_end_byte |-> j, new_end_byte |-> k]
  BY DEF EditsOf
<1>2. a.old_end_byte \in 0 .. n
  BY <1>1
<1>3. QED
  BY <1>2 DEF EditsOf

LEMMA OneEditFits ==
  ASSUME NEW a \in ValidEdits, a.old_end_byte <= Len(text)', pending' = <<a>>,
         phase' \in {"editing", "diffing"}
  PROVE  pending' \in Seq(ValidEdits) /\ PendingFits'
BY DEF PendingFits

LEMMA TwoEditsFit ==
  ASSUME NEW a \in ValidEdits, NEW b \in ValidEdits, text' \in Seq(Nat),
         a.old_end_byte <= Len(text)', b.old_end_byte <= Len(text)',
         a.old_end_byte < b.start_byte, pending' = <<b, a>>,
         phase' \in {"editing", "diffing"}
  PROVE  pending' \in Seq(ValidEdits) /\ PendingFits'
<1>1. a.old_end_byte <= b.start_byte
  BY DEF ValidEdits, EditInfos
<1>2. /\ pending' \in Seq(ValidEdits) /\ DOMAIN pending' = {1, 2}
      /\ pending'[1] = b /\ pending'[2] = a
  OBVIOUS
<1>3. QED
  BY <1>1, <1>2 DEF PendingFits

LEMMA ChangeRangeInv == IInv /\ ChangeRange => IInv'
<1> SUFFICES ASSUME IInv, ChangeRange PROVE IInv'
  OBVIOUS
<1>1. PICK a \in EditsOf(Len(text), Room) : pending' = <<a>>
  BY DEF ChangeRange
<1>2. a \in ValidEdits /\ a.old_end_byte <= Len(text)
  BY EditsFit DEF IInv, TypeOK
<1>3. pending' \in Seq(ValidEdits) /\ PendingFits'
  BY <1>1, <1>2, OneEditFits DEF ChangeRange
<1>4. NoneEmpty' /\ OneIdPerRegion' /\ IdsAccounted' /\ entries' \subseteq Entries'
  BY EntriesStay DEF ChangeRange
<1>5. QED
  BY <1>3, <1>4 DEF ChangeRange, IInv, TypeOK

LEMMA ChangeTextInv == IInv /\ ChangeText => IInv'
<1> SUFFICES ASSUME IInv, ChangeText PROVE IInv'
  OBVIOUS
<1>1. Len(text) \in Nat /\ text' = text /\ text \in Seq(Nat)
  BY DEF IInv, TypeOK, ChangeText
<1>2. pending' \in Seq(ValidEdits) /\ PendingFits'
  <2>1. CASE \E a \in EditsOf(Len(text), Room) : pending' = <<a>>
    BY <1>1, <2>1, EditsFit, OneEditFits DEF ChangeText
  <2>2. CASE \E a, b \in EditsOf(Len(text), Room) :
               a.old_end_byte < b.start_byte /\ pending' = <<b, a>>
    BY <1>1, <2>2, EditsFit, TwoEditsFit DEF ChangeText
  <2>3. QED
    BY <2>1, <2>2 DEF ChangeText
<1>3. NoneEmpty' /\ OneIdPerRegion' /\ IdsAccounted' /\ entries' \subseteq Entries'
  BY EntriesStay DEF ChangeText
<1>4. QED
  BY <1>2, <1>3 DEF ChangeText, IInv, TypeOK

LEMMA ChangeMixedInv == IInv /\ ChangeMixed => IInv'
<1> SUFFICES ASSUME IInv, ChangeMixed PROVE IInv'
  OBVIOUS
<1>1. PICK n \in 0 .. MaxText :
        /\ text' = Fresh(n) /\ typed' = typed + n
        /\ \E a \in EditsOf(n, Room - n) : pending' = <<a>>
  BY DEF ChangeMixed
<1>2. n \in Nat /\ text' \in Seq(Nat) /\ typed' \in Nat /\ Len(text)' = n
  BY <1>1, FreshIsText, FreshLength, RegionIdsAssumption DEF IInv, TypeOK
<1>3. pending' \in Seq(ValidEdits) /\ PendingFits'
  BY <1>1, <1>2, EditsFit, OneEditFits DEF ChangeMixed
<1>4. NoneEmpty' /\ OneIdPerRegion' /\ IdsAccounted' /\ entries' \subseteq Entries'
  BY MisplacedKeeps DEF ChangeMixed
<1>5. QED
  BY <1>2, <1>3, <1>4 DEF ChangeMixed, IInv, TypeOK

LEMMA CloseInv == IInv /\ Close => IInv'
<1> SUFFICES ASSUME IInv, Close PROVE IInv'
  OBVIOUS
<1>1. IdsOf(entries)' = {} /\ IdsOf(entries) \subseteq 1 .. issued
  BY DEF Close, IdsOf, IInv, TypeOK, Entries
<1>2. forgotten' = forgotten \cup IdsOf(entries) /\ UNCHANGED <<issued, reported>>
  BY DEF Close
<1>3. IdsAccounted'
  BY <1>1, <1>2 DEF IInv, IdsAccounted
<1>4. NoneEmpty' /\ OneIdPerRegion'
  BY DEF Close, NoneEmpty, OneIdPerRegion
<1>5. TypeOK' /\ PendingFits'
  BY <1>1, <1>2 DEF Close, IInv, TypeOK, PendingFits
<1>6. QED
  BY <1>3, <1>4, <1>5 DEF IInv

(* The steps that leave the entries and their ids alone. *)
LEMMA OthersInv == IInv /\ (BeginParse \/ StoreParsed \/ UNCHANGED vars) => IInv'
<1> SUFFICES ASSUME IInv, BeginParse \/ StoreParsed \/ UNCHANGED vars PROVE IInv'
  OBVIOUS
<1>1. UNCHANGED <<entries, issued, reported, forgotten, text, pending, typed>>
  BY DEF BeginParse, StoreParsed, vars
<1>2. NoneEmpty' /\ OneIdPerRegion' /\ IdsAccounted' /\ entries' \subseteq Entries'
  BY <1>1, EntriesStay
<1>3. TypeOK' /\ PendingFits'
  BY <1>1, <1>2 DEF IInv, TypeOK, PendingFits, BeginParse, StoreParsed, vars
<1>4. QED
  BY <1>2, <1>3 DEF IInv

LEMMA NextInv == IInv /\ [Next]_vars => IInv'
BY OpenInv, ChangeRangeInv, ChangeTextInv, ChangeMixedInv, ApplySingleEditInv,
   ResolveInv, CloseInv, OthersInv DEF Next

LEMMA Invariance == Spec => []IInv
<1>1. IInv /\ [Next]_vars => IInv'
  BY NextInv
<1>2. QED
  BY InitInv, <1>1, PTL DEF Spec
-----------------------------------------------------------------------------
(* The variables of the tracker and of its callers have their types. *)
THEOREM TypeCorrect == Spec => []TypeOK
<1>1. IInv => TypeOK
  BY DEF IInv
<1>2. QED
  BY Invariance, <1>1, PTL

(* A region has one id, and an id is that of one region: for any number of  *)
(* regions and any sequence of edits.                                       *)
THEOREM IdentityIsUnique == Spec => []OneIdPerRegion
<1>1. IInv => OneIdPerRegion
  BY DEF IInv
<1>2. QED
  BY Invariance, <1>1, PTL

(* No id is lost: it is tracked, was returned to be closed, or went with    *)
(* its host document.                                                       *)
THEOREM NoIdLost == Spec => []IdsAccounted
<1>1. IInv => IdsAccounted
  BY DEF IInv
<1>2. QED
  BY Invariance, <1>1, PTL

(* No region's range is ever empty, and the guard of                        *)
(* adjust_position_for_edit against collapsing ranges is dead code.         *)
THEOREM GuardIsUnreachable == Spec => []NothingCollapses
<1>1. IInv => NothingCollapses
  <2> SUFFICES ASSUME IInv PROVE NothingCollapses
    OBVIOUS
  <2>1. pending # <<>> => Head(pending) \in ValidEdits
    BY DEF IInv, TypeOK
  <2>2. QED
    BY <2>1, AdjustKeepsRange DEF NothingCollapses, IInv, TypeOK, NoneEmpty
<1>2. QED
  BY Invariance, <1>1, PTL

(* What the tracker keeps whatever the text is, for any number of regions,  *)
(* ids and edits.                                                           *)
THEOREM RegionsAreSafe == Spec => []RegionsSafe
BY TypeCorrect, IdentityIsUnique, NoIdLost, GuardIsUnreachable, PTL
   DEF RegionsSafe
-----------------------------------------------------------------------------
(* Where each byte of an edited text comes from. *)
IsEditOf(r, t, edit) ==
  /\ r \in Seq(Nat)
  /\ Len(r) = Len(t) + Delta(edit)
  /\ \A p \in 1 .. edit.start_byte : r[p] = t[p]
  /\ \A p \in (edit.start_byte + 1) .. edit.new_end_byte :
        r[p] = typed + (p - edit.start_byte)
  /\ \A p \in (edit.new_end_byte + 1) .. Len(r) : r[p] = t[p - Delta(edit)]

LEMMA ReplaceIsEdit ==
  ASSUME NEW t \in Seq(Nat), NEW edit \in ValidEdits, typed \in Nat,
         edit.old_end_byte <= Len(t)
  PROVE  IsEditOf(Replace(t, edit, Fresh(edit.new_end_byte - edit.start_byte)), t, edit)
<1> DEFINE a == edit.start_byte
           b == edit.old_end_byte
           c == edit.new_end_byte
           new == Fresh(c - a)
           before == SubSeq(t, 1, a)
           after == SubSeq(t, b + 1, Len(t))
<1>1. /\ a \in Nat /\ b \in Nat /\ c \in Nat /\ a <= b /\ a <= c /\ b <= Len(t)
      /\ Len(t) \in Nat /\ Delta(edit) = c - b
  BY DEF ValidEdits, EditInfos, Delta
<1>2. /\ before \in Seq(Nat) /\ Len(before) = a
      /\ \A p \in 1 .. a : before[p] = t[p]
  BY <1>1
<1>3. /\ after \in Seq(Nat) /\ Len(after) = Len(t) - b
      /\ \A p \in 1 .. Len(t) - b : after[p] = t[b + p]
  <2> HIDE DEF b
  <2>1. b + 1 \in Int /\ Len(t) \in Int
    BY <1>1
  <2>2. \A i \in (b + 1) .. Len(t) : t[i] \in Nat
    BY <1>1
  <2>3. /\ after \in Seq(Nat)
        /\ Len(after) = IF b + 1 <= Len(t) THEN Len(t) - (b + 1) + 1 ELSE 0
        /\ \A p \in 1 .. Len(t) - (b + 1) + 1 : after[p] = t[b + 1 + p - 1]
    BY <2>1, <2>2, SubSeqProperties
  <2> HIDE DEF after
  <2>4. Len(after) = Len(t) - b
    BY <1>1, <2>3
  <2>5. ASSUME NEW p \in 1 .. Len(t) - b PROVE after[p] = t[b + p]
    <3>1. p \in 1 .. Len(t) - (b + 1) + 1 /\ b + 1 + p - 1 = b + p
      BY <1>1
    <3>2. QED
      BY <2>3, <3>1
  <2>6. QED
    BY <2>3, <2>4, <2>5
<1>4. /\ new \in Seq(Nat) /\ Len(new) = c - a
      /\ \A p \in 1 .. c - a : new[p] = typed + p
  <2> HIDE DEF a, c
  <2>1. c - a \in Nat
    BY <1>1
  <2>2. new \in Seq(Nat) /\ Len(new) = c - a
    BY <2>1, FreshIsText, FreshLength
  <2>3. \A p \in 1 .. c - a : new[p] = typed + p
    BY DEF Fresh
  <2>4. QED
    BY <2>2, <2>3
<1>5. Replace(t, edit, new) = (before \o new) \o after
  BY DEF Replace
<1> HIDE DEF a, b, c, new, before, after
<1>6. /\ before \o new \in Seq(Nat) /\ Len(before \o new) = c
      /\ \A p \in 1 .. c : (before \o new)[p] = IF p <= a THEN before[p] ELSE new[p - a]
  <2>1. /\ before \o new \in Seq(Nat)
        /\ Len(before \o new) = Len(before) + Len(new)
        /\ \A p \in 1 .. Len(before) + Len(new) :
             (before \o new)[p] = IF p <= Len(before) THEN before[p]
                                  ELSE new[p - Len(before)]
    BY <1>2, <1>4, ConcatProperties
  <2>2. Len(before) + Len(new) = c
    BY <1>1, <1>2, <1>4
  <2>3. QED
    BY <1>2, <2>1, <2>2
<1> DEFINE r == (before \o new) \o after
<1>7. /\ r \in Seq(Nat) /\ Len(r) = c + (Len(t) - b)
      /\ \A p \in 1 .. c + (Len(t) - b) :
           r[p] = IF p <= c THEN (before \o new)[p] ELSE after[p - c]
  <2>1. /\ r \in Seq(Nat) /\ Len(r) = Len(before \o new) + Len(after)
        /\ \A p \in 1 .. Len(before \o new) + Len(after) :
             r[p] = IF p <= Len(before \o new) THEN (before \o new)[p]
                    ELSE after[p - Len(before \o new)]
    BY <1>3, <1>6, ConcatProperties
  <2>2. QED
    BY <1>3, <1>6, <2>1
<1> HIDE DEF r
<1>8. Len(r) = Len(t) + Delta(edit)
  BY <1>1, <1>7
<1>9. \A p \in 1 .. a : r[p] = t[p]
  <2> SUFFICES ASSUME NEW p \in 1 .. a PROVE r[p] = t[p]
    OBVIOUS
  <2>1. p \in 1 .. c /\ p <= a /\ p <= c /\ p \in 1 .. c + (Len(t) - b)
    BY <1>1
  <2>2. r[p] = (before \o new)[p]
    BY <1>7, <2>1
  <2>3. (before \o new)[p] = before[p]
    BY <1>6, <2>1
  <2>4. QED
    BY <1>2, <2>2, <2>3
<1>10. \A p \in (a + 1) .. c : r[p] = typed + (p - a)
  <2> SUFFICES ASSUME NEW p \in (a + 1) .. c PROVE r[p] = typed + (p - a)
    OBVIOUS
  <2>1. p \in 1 .. c /\ ~(p <= a) /\ p <= c /\ p \in 1 .. c + (Len(t) - b)
    BY <1>1
  <2>4. r[p] = (before \o new)[p]
    BY <1>7, <2>1
  <2>5. (before \o new)[p] = new[p - a]
    BY <1>6, <2>1
  <2>2. p - a \in 1 .. c - a /\ p - a > 0
    BY <1>1
  <2>3. QED
    BY <1>4, <2>2, <2>4, <2>5
<1>11. \A p \in (c + 1) .. Len(r) : r[p] = t[p - Delta(edit)]
  <2> SUFFICES ASSUME NEW p \in (c + 1) .. Len(r) PROVE r[p] = t[p - Delta(edit)]
    OBVIOUS
  <2>1. r[p] = after[p - c]
    BY <1>1, <1>7
  <2>2. p - c \in 1 .. Len(t) - b /\ b + (p - c) = p - Delta(edit)
    BY <1>1, <1>7
  <2>3. QED
    BY <1>3, <2>1, <2>2
<1>12. QED
  BY <1>5, <1>7, <1>8, <1>9, <1>10, <1>11 DEF IsEditOf, r, a, c, new

(* An edit shifts a region behind it, clamps or shifts the end of one it    *)
(* touches, and leaves one before it alone.                                 *)
LEMMA AdjustCases ==
  ASSUME NEW e \in Entries, e.start < e.end, NEW edit \in ValidEdits,
         ~ShouldInvalidate(e, edit)
  PROVE  LET a == edit.start_byte
             b == edit.old_end_byte
             c == edit.new_end_byte
             d == Delta(edit)
             s == e.start
             f == e.end
             s2 == Adjust(e, edit).start
             f2 == Adjust(e, edit).end
         IN /\ s2 \in Nat /\ f2 \in Nat
            /\ \/ s >= b /\ s2 = s + d /\ f2 = f + d
               \/ s < a /\ f > a /\ f <= b /\ s2 = s /\ f2 = c
               \/ s < a /\ f > b /\ s2 = s /\ f2 = f + d
               \/ f <= a /\ s2 = s /\ f2 = f
<1> DEFINE a == edit.start_byte
           b == edit.old_end_byte
           c == edit.new_end_byte
           d == Delta(edit)
           s == e.start
           f == e.end
           s2 == Adjust(e, edit).start
           f2 == Adjust(e, edit).end
<1>1. /\ a \in Nat /\ b \in Nat /\ c \in Nat /\ a <= b /\ a <= c
      /\ d = c - b /\ s \in Nat /\ f \in Nat /\ s < f
  BY DEF ValidEdits, EditInfos, Delta, Entries
<1>2. Adjust(e, edit) \in Entries
  BY AdjustKeepsRange
<1>3. CASE s >= b
  <2>1. ApplyDelta(s, d) = s + d /\ ApplyDelta(f, d) = f + d
    BY <1>1, <1>3 DEF ApplyDelta
  <2>2. Adjust(e, edit) = [e EXCEPT !.start = s + d, !.end = f + d]
    BY <1>3, <2>1 DEF Adjust
  <2>3. QED
    BY <1>2, <1>3, <2>2 DEF Entries
<1>4. CASE s < b /\ f > a
  <2>1. s < a
    BY <1>1, <1>4 DEF ShouldInvalidate, IsInsertionOnly
  <2>2. f > b => ApplyDelta(f, d) = f + d
    BY <1>1 DEF ApplyDelta
  <2>3. Adjust(e, edit) = [e EXCEPT !.end = IF f <= b THEN c ELSE f + d]
    <3>1. ~(s >= b)
      BY <1>1, <1>4
    <3>2. Adjust(e, edit) = [e EXCEPT !.end = IF f <= b THEN c ELSE ApplyDelta(f, d)]
      BY <1>4, <3>1 DEF Adjust
    <3>3. (IF f <= b THEN c ELSE ApplyDelta(f, d)) = (IF f <= b THEN c ELSE f + d)
      BY <1>1, <2>2
    <3>4. QED
      BY <3>2, <3>3
  <2>4. s2 = s /\ f2 = IF f <= b THEN c ELSE f + d
    BY <2>3 DEF Entries
  <2>5. QED
    BY <1>1, <1>2, <1>4, <2>1, <2>4 DEF Entries
<1>5. CASE s < b /\ f <= a
  <2>1. Adjust(e, edit) = e
    BY <1>1, <1>5 DEF Adjust
  <2>2. QED
    BY <1>1, <1>5, <2>1
<1>6. QED
  BY <1>1, <1>3, <1>4, <1>5

(* Of the bytes there were before an edit, a range that is not invalidated  *)
(* has after it the ones it had that are left.                              *)
LEMMA EditFollowed ==
  ASSUME NEW t \in Seq(Nat), NEW r, NEW edit \in ValidEdits, typed \in Nat,
         edit.old_end_byte <= Len(t), IsEditOf(r, t, edit),
         \A i \in DOMAIN t : t[i] \in 1 .. typed,
         \A i, j \in DOMAIN t : t[i] = t[j] => i = j,
         NEW e \in Entries, e.start < e.end, e.end <= Len(t),
         ~ShouldInvalidate(e, edit)
  PROVE  /\ Adjust(e, edit).end <= Len(r)
         /\ \A x \in 1 .. typed :
              x \in Covered(r, Adjust(e, edit).start, Adjust(e, edit).end)
                <=> x \in Covered(t, e.start, e.end) /\ x \in BytesOf(r)
<1> DEFINE a == edit.start_byte
           b == edit.old_end_byte
           c == edit.new_end_byte
           d == Delta(edit)
           s == e.start
           f == e.end
           s2 == Adjust(e, edit).start
           f2 == Adjust(e, edit).end
<1>1. /\ a \in Nat /\ b \in Nat /\ c \in Nat /\ a <= b /\ a <= c /\ b <= Len(t)
      /\ Len(t) \in Nat /\ d = c - b /\ s \in Nat /\ f \in Nat /\ s < f /\ f <= Len(t)
  BY DEF ValidEdits, EditInfos, Delta, Entries
<1>2. /\ r \in Seq(Nat) /\ Len(r) = Len(t) + d /\ DOMAIN r = 1 .. Len(r)
      /\ DOMAIN t = 1 .. Len(t)
      /\ \A p \in 1 .. a : r[p] = t[p]
      /\ \A p \in (a + 1) .. c : r[p] = typed + (p - a)
      /\ \A p \in (c + 1) .. Len(r) : r[p] = t[p - d]
  BY DEF IsEditOf
<1>3. /\ s2 \in Nat /\ f2 \in Nat
      /\ \/ s >= b /\ s2 = s + d /\ f2 = f + d
         \/ s < a /\ f > a /\ f <= b /\ s2 = s /\ f2 = c
         \/ s < a /\ f > b /\ s2 = s /\ f2 = f + d
         \/ f <= a /\ s2 = s /\ f2 = f
  BY AdjustCases
<1> HIDE DEF a, b, c, d, s, f, s2, f2
<1>4. f2 <= Len(r)
  BY <1>1, <1>2, <1>3
<1>5. ASSUME NEW p \in (s2 + 1) .. f2, r[p] \in 1 .. typed
      PROVE  \E q \in (s + 1) .. f : r[p] = t[q]
  <2>1. p \in Nat /\ p >= 1 /\ p <= Len(r)
    BY <1>1, <1>2, <1>3, <1>4
  <2>2. CASE p <= a
    <3>1. r[p] = t[p]
      BY <1>1, <1>2, <2>1, <2>2
    <3>2. p \in (s + 1) .. f
      BY <1>1, <1>3, <2>2
    <3>3. QED
      BY <3>1, <3>2
  <2>3. CASE p > a /\ p <= c
    BY <1>1, <1>2, <1>5, <2>1, <2>3
  <2>4. CASE p > c
    <3>1. r[p] = t[p - d]
      BY <1>1, <1>2, <2>1, <2>4
    <3>2. p - d \in (s + 1) .. f
      BY <1>1, <1>3, <2>4
    <3>3. QED
      BY <3>1, <3>2
  <2>5. QED
    BY <1>1, <2>1, <2>2, <2>3, <2>4
<1>6. ASSUME NEW q \in (s + 1) .. f, NEW p \in 1 .. Len(r), r[p] = t[q]
      PROVE  p \in (s2 + 1) .. f2
  <2>1. q \in 1 .. Len(t) /\ t[q] \in 1 .. typed
    <3>1. q \in 1 .. Len(t)
      BY <1>1
    <3>2. QED
      BY <1>2, <3>1
  <2>2. CASE p <= a
    <3>1. p \in 1 .. Len(t) /\ r[p] = t[p]
      BY <1>1, <1>2, <2>2
    <3>2. p = q
      BY <1>2, <1>6, <2>1, <3>1
    <3>3. QED
      BY <1>1, <1>3, <2>2, <3>2
  <2>3. CASE p > a /\ p <= c
    BY <1>1, <1>2, <1>6, <2>1, <2>3
  <2>4. CASE p > c
    <3>1. p - d \in 1 .. Len(t) /\ r[p] = t[p - d]
      BY <1>1, <1>2, <2>4
    <3>2. p - d = q
      BY <1>2, <1>6, <2>1, <3>1
    <3>3. QED
      BY <1>1, <1>3, <2>4, <3>2
  <2>5. QED
    BY <1>1, <2>2, <2>3, <2>4
<1>7. ASSUME NEW x \in 1 .. typed
      PROVE  x \in Covered(r, s2, f2) <=> x \in Covered(t, s, f) /\ x \in BytesOf(r)
  <2>1. x \in Covered(r, s2, f2) => x \in Covered(t, s, f)
    BY <1>5 DEF Covered
  <2>2. x \in Covered(r, s2, f2) => x \in BytesOf(r)
    <3>1. (s2 + 1) .. f2 \subseteq DOMAIN r
      BY <1>2, <1>3, <1>4
    <3>2. QED
      BY <3>1 DEF Covered, BytesOf
  <2>3. x \in Covered(t, s, f) /\ x \in BytesOf(r) => x \in Covered(r, s2, f2)
    BY <1>2, <1>6 DEF Covered, BytesOf
  <2>4. QED
    BY <2>1, <2>2, <2>3
<1>8. QED
  BY <1>4, <1>7 DEF s, f, s2, f2

(* No byte of the text is there twice, and none is yet to be typed. *)
BytesDistinct ==
  /\ \A i \in DOMAIN text : text[i] \in 1 .. typed
  /\ \A i, j \in DOMAIN text : text[i] = text[j] => i = j

HomesTyped ==
  \A e \in entries : e.home # None =>
    e.home.bytes \subseteq 1 .. typed /\ e.home.region \subseteq e.home.bytes

TInv == IInv /\ BytesDistinct /\ HomesTyped /\ FollowsText

LEMMA AdjustKeepsHome ==
  ASSUME NEW e \in Entries, NEW edit
  PROVE  Adjust(e, edit).home = e.home
BY DEF Adjust, Entries

(* An edit keeps the bytes of a text apart. *)
LEMMA EditKeepsDistinct ==
  ASSUME TInv, NEW edit \in ValidEdits, edit.old_end_byte <= Len(text),
         IsEditOf(text', text, edit),
         typed' = typed + (edit.new_end_byte - edit.start_byte)
  PROVE  /\ BytesDistinct'
         /\ \A x \in 1 .. typed : x \in BytesOf(text') => x \in BytesOf(text)
<1> DEFINE a == edit.start_byte
           b == edit.old_end_byte
           c == edit.new_end_byte
           d == Delta(edit)
           t == text
           r == text'
<1>1. /\ a \in Nat /\ b \in Nat /\ c \in Nat /\ a <= b /\ a <= c /\ b <= Len(t)
      /\ t \in Seq(Nat) /\ Len(t) \in Nat /\ d = c - b /\ typed \in Nat
      /\ typed' = typed + (c - a) /\ DOMAIN t = 1 .. Len(t)
  BY DEF ValidEdits, EditInfos, Delta, TInv, IInv, TypeOK
<1>2. /\ r \in Seq(Nat) /\ Len(r) = Len(t) + d /\ DOMAIN r = 1 .. Len(r)
      /\ \A p \in 1 .. a : r[p] = t[p]
      /\ \A p \in (a + 1) .. c : r[p] = typed + (p - a)
      /\ \A p \in (c + 1) .. Len(r) : r[p] = t[p - d]
  BY DEF IsEditOf
<1>3. /\ \A i \in 1 .. Len(t) : t[i] \in 1 .. typed
      /\ \A i, j \in 1 .. Len(t) : t[i] = t[j] => i = j
  BY <1>1 DEF TInv, BytesDistinct
<1> HIDE DEF a, b, c, d, t, r
(* Where the byte at p comes from: the old text, at o(p), or it is new. *)
<1> DEFINE o(p) == IF p <= a THEN p ELSE p - d
<1>4. ASSUME NEW p \in 1 .. Len(r)
      PROVE  \/ (p <= a \/ p > c) /\ o(p) \in 1 .. Len(t) /\ r[p] = t[o(p)]
                /\ r[p] \in 1 .. typed
             \/ p > a /\ p <= c /\ r[p] = typed + (p - a) /\ r[p] > typed
                /\ r[p] \in 1 .. typed'
  <2>1. CASE p <= a
    <3>1. p \in 1 .. Len(t) /\ p \in 1 .. a
      BY <1>1, <1>2, <2>1
    <3>2. QED
      BY <1>2, <1>3, <2>1, <3>1
  <2>2. CASE p > a /\ p <= c
    <3>1. p \in (a + 1) .. c
      BY <1>1, <1>2, <2>2
    <3>2. r[p] = typed + (p - a)
      BY <1>2, <3>1
    <3>3. typed + (p - a) \in 1 .. typed' /\ typed + (p - a) > typed
      BY <1>1, <3>1
    <3>4. QED
      BY <2>2, <3>2, <3>3
  <2>3. CASE p > c
    <3>1. p - d \in 1 .. Len(t) /\ p \in (c + 1) .. Len(r) /\ ~(p <= a)
      BY <1>1, <1>2, <2>3
    <3>2. r[p] = t[p - d] /\ o(p) = p - d
      BY <1>2, <3>1
    <3>3. QED
      BY <1>3, <2>3, <3>1, <3>2
  <2>4. QED
    BY <1>1, <1>2, <2>1, <2>2, <2>3
<1>5. \A p \in 1 .. Len(r) : r[p] \in 1 .. typed'
  <2>1. 1 .. typed \subseteq 1 .. typed'
    BY <1>1
  <2>2. QED
    BY <1>4, <2>1
<1>6. ASSUME NEW p \in 1 .. Len(r), NEW q \in 1 .. Len(r), r[p] = r[q]
      PROVE  p = q
  <2>1. CASE r[p] \in 1 .. typed
    <3>1. /\ p <= a \/ p > c
          /\ q <= a \/ q > c
          /\ o(p) \in 1 .. Len(t) /\ o(q) \in 1 .. Len(t)
          /\ r[p] = t[o(p)] /\ r[q] = t[o(q)]
      BY <1>1, <1>4, <1>6, <2>1
    <3>2. o(p) = o(q)
      BY <1>3, <1>6, <3>1
    <3>3. (p <= a \/ p - d > b) /\ (q <= a \/ q - d > b) /\ p \in Int /\ q \in Int
      BY <1>1, <1>2, <3>1
    <3>4. CASE p <= a /\ q <= a
      BY <3>2, <3>4
    <3>5. CASE ~(p <= a) /\ ~(q <= a)
      <4>1. p - d = q - d
        BY <3>2, <3>5
      <4>2. QED
        BY <1>1, <3>3, <4>1
    <3>6. CASE p <= a /\ ~(q <= a)
      BY <1>1, <3>2, <3>3, <3>6
    <3>7. CASE ~(p <= a) /\ q <= a
      BY <1>1, <3>2, <3>3, <3>7
    <3>8. QED
      BY <3>4, <3>5, <3>6, <3>7
  <2>2. CASE ~(r[p] \in 1 .. typed)
    <3>1. r[p] = typed + (p - a) /\ r[q] = typed + (q - a)
      BY <1>4, <1>6, <2>2
    <3>2. typed + (p - a) = typed + (q - a)
      BY <1>6, <3>1
    <3>3. p \in Int /\ q \in Int
      BY <1>1, <1>2
    <3>4. QED
      BY <1>1, <3>2, <3>3
  <2>3. QED
    BY <2>1, <2>2
<1>7. BytesDistinct'
  BY <1>2, <1>5, <1>6 DEF BytesDistinct, r
<1>8. ASSUME NEW x \in 1 .. typed, x \in BytesOf(r) PROVE x \in BytesOf(t)
  <2>1. PICK p \in 1 .. Len(r) : x = r[p]
    BY <1>2, <1>8 DEF BytesOf
  <2>2. o(p) \in 1 .. Len(t) /\ x = t[o(p)]
    BY <1>1, <1>4, <2>1
  <2>3. QED
    BY <1>1, <2>2 DEF BytesOf
<1>9. QED
  BY <1>7, <1>8 DEF r, t

LEMMA ApplySingleEditFollows == TInv /\ ApplySingleEdit => TInv'
<1> SUFFICES ASSUME TInv, ApplySingleEdit PROVE TInv'
  OBVIOUS
<1> DEFINE edit == Head(pending)
           size == edit.new_end_byte - edit.start_byte
           moved == {Adjust(e, edit) : e \in Survivors(edit)}
<1>1. edit \in ValidEdits /\ edit.old_end_byte <= Len(text)
  BY DEF TInv, IInv, TypeOK, PendingFits, ApplySingleEdit
<1>2. /\ text' = Replace(text, edit, Fresh(size)) /\ typed' = typed + size
      /\ entries' \subseteq moved
  BY DEF ApplySingleEdit
<1>3. IsEditOf(text', text, edit)
  BY <1>1, <1>2, ReplaceIsEdit DEF TInv, IInv, TypeOK
<1>4. /\ BytesDistinct'
      /\ \A x \in 1 .. typed : x \in BytesOf(text') => x \in BytesOf(text)
  BY <1>1, <1>2, <1>3, EditKeepsDistinct
<1>5. 1 .. typed \subseteq 1 .. typed'
  BY <1>1, <1>2 DEF TInv, IInv, TypeOK, ValidEdits, EditInfos
<1> HIDE DEF edit
<1>6. ASSUME NEW k \in entries', k.home # None
      PROVE  /\ k.home.bytes \subseteq 1 .. typed
             /\ k.home.region \subseteq k.home.bytes
             /\ k.end <= Len(text')
             /\ Covered(text', k.start, k.end) \cap k.home.bytes
                  = k.home.region \cap BytesOf(text')
  <2>1. PICK e \in Survivors(edit) : k = Adjust(e, edit)
    BY <1>2
  <2>2. e \in entries /\ e \in Entries /\ ~ShouldInvalidate(e, edit)
    BY DEF Survivors, TInv, IInv, TypeOK
  <2>3. k.home = e.home /\ e.home # None
    BY <1>6, <2>1, <2>2, AdjustKeepsHome
  <2>4. /\ e.home.bytes \subseteq 1 .. typed /\ e.home.region \subseteq e.home.bytes
        /\ e.end <= Len(text)
        /\ Covered(text, e.start, e.end) \cap e.home.bytes
             = e.home.region \cap BytesOf(text)
    BY <2>2, <2>3 DEF TInv, HomesTyped, FollowsText
  <2>5. /\ k.end <= Len(text')
        /\ \A x \in 1 .. typed :
             x \in Covered(text', k.start, k.end)
               <=> x \in Covered(text, e.start, e.end) /\ x \in BytesOf(text')
    <3>1. text \in Seq(Nat) /\ typed \in Nat /\ e.start < e.end
      BY <2>2 DEF TInv, IInv, TypeOK, NoneEmpty
    <3>2. /\ \A i \in DOMAIN text : text[i] \in 1 .. typed
          /\ \A i, j \in DOMAIN text : text[i] = text[j] => i = j
      BY DEF TInv, BytesDistinct
    <3>3. QED
      BY <1>1, <1>3, <2>1, <2>2, <2>4, <3>1, <3>2, EditFollowed
  <2>6. Covered(text', k.start, k.end) \cap k.home.bytes
          = k.home.region \cap BytesOf(text')
    BY <1>4, <2>3, <2>4, <2>5
  <2>7. QED
    BY <2>3, <2>4, <2>5, <2>6
<1>7. HomesTyped' /\ FollowsText'
  BY <1>5, <1>6 DEF HomesTyped, FollowsText
<1>8. IInv'
  BY ApplySingleEditInv DEF TInv
<1>9. QED
  BY <1>4, <1>7, <1>8 DEF TInv

(* The first text of a document, or one that replaces it whole. *)
LEMMA FreshDistinct ==
  ASSUME TInv, NEW n \in Nat, text' = Fresh(n), typed' = typed + n
  PROVE  BytesDistinct'
<1>1. typed \in Nat
  BY DEF TInv, IInv, TypeOK
<1>2. DOMAIN text' = 1 .. n /\ \A i \in 1 .. n : text'[i] = typed + i
  BY DEF Fresh
<1>3. \A i \in 1 .. n : typed + i \in 1 .. typed'
  BY <1>1
<1>4. \A i, j \in 1 .. n : typed + i = typed + j => i = j
  BY <1>1
<1>5. QED
  BY <1>2, <1>3, <1>4 DEF BytesDistinct

LEMMA MisplacedFollows ==
  ASSUME TInv, entries' = Misplaced(entries)
  PROVE  HomesTyped' /\ FollowsText'
<1>1. \A e \in entries : [e EXCEPT !.home = None].home = None
  BY DEF TInv, IInv, TypeOK, Entries
<1>2. \A e \in entries' : e.home = None
  BY <1>1 DEF Misplaced
<1>3. QED
  BY <1>2 DEF HomesTyped, FollowsText

LEMMA NewTextFollows == TInv /\ (Open \/ ChangeMixed) => TInv'
<1> SUFFICES ASSUME TInv, Open \/ ChangeMixed PROVE TInv'
  OBVIOUS
<1>1. PICK n \in 0 .. MaxText : text' = Fresh(n) /\ typed' = typed + n
  BY DEF Open, ChangeMixed
<1>2. n \in Nat
  BY RegionIdsAssumption
<1>3. BytesDistinct'
  BY <1>1, <1>2, FreshDistinct
<1>4. HomesTyped' /\ FollowsText'
  BY MisplacedFollows DEF Open, ChangeMixed
<1>5. IInv'
  BY OpenInv, ChangeMixedInv DEF TInv
<1>6. QED
  BY <1>3, <1>4, <1>5 DEF TInv

LEMMA ResolveFollows == TInv /\ Resolve => TInv'
<1> SUFFICES ASSUME TInv, Resolve PROVE TInv'
  OBVIOUS
<1>1. PICK start \in 0 .. Len(snapshot), end \in 0 .. Len(snapshot), k \in Kinds :
        start < end /\ GetOrCreate(start, end, k)
  BY DEF Resolve
<1>2. text' = text /\ typed' = typed
  BY DEF Resolve
<1>3. BytesDistinct'
  BY <1>2 DEF TInv, BytesDistinct
<1>4. ASSUME NEW e \in entries', e.home # None
      PROVE  /\ e.home.bytes \subseteq 1 .. typed
             /\ e.home.region \subseteq e.home.bytes
             /\ e.end <= Len(text)
             /\ Covered(text, e.start, e.end) \cap e.home.bytes
                  = e.home.region \cap BytesOf(text)
  <2>1. CASE e \in entries
    BY <1>4, <2>1 DEF TInv, HomesTyped, FollowsText
  <2>2. CASE e \notin entries
    <3> DEFINE home == [bytes |-> BytesOf(text), region |-> Covered(text, start, end)]
    <3>1. /\ snapshot = text
          /\ e = [start |-> start, end |-> end, kind |-> k, id |-> issued + 1,
                  home |-> home]
      BY <1>1, <1>4, <2>2 DEF GetOrCreate
    <3>2. e.start = start /\ e.end = end /\ e.home = home
      BY <3>1
    <3>3. home.bytes = BytesOf(text) /\ home.region = Covered(text, start, end)
      OBVIOUS
    <3>4. text \in Seq(Nat) /\ start \in 0 .. Len(text) /\ end \in 0 .. Len(text)
      BY <1>1, <3>1 DEF TInv, IInv, TypeOK
    <3>5. BytesOf(text) \subseteq 1 .. typed
      BY DEF TInv, BytesDistinct, BytesOf
    <3>6. Covered(text, start, end) \subseteq BytesOf(text)
      <4>1. (start + 1) .. end \subseteq DOMAIN text
        BY <3>4
      <4>2. QED
        BY <4>1 DEF Covered, BytesOf
    <3>7. e.end <= Len(text)
      BY <3>2, <3>4
    <3> HIDE DEF home
    <3>8. QED
      BY <3>2, <3>3, <3>5, <3>6, <3>7
  <2>3. QED
    BY <2>1, <2>2
<1>5. HomesTyped' /\ FollowsText'
  BY <1>2, <1>4 DEF HomesTyped, FollowsText
<1>6. IInv'
  BY ResolveInv DEF TInv
<1>7. QED
  BY <1>3, <1>5, <1>6 DEF TInv

LEMMA OthersFollow ==
  TInv /\ (ChangeRange \/ ChangeText \/ BeginParse \/ StoreParsed \/ Close
             \/ UNCHANGED vars) => TInv'
<1> SUFFICES ASSUME TInv, ChangeRange \/ ChangeText \/ BeginParse \/ StoreParsed
                            \/ Close \/ UNCHANGED vars
             PROVE TInv'
  OBVIOUS
<1>1. text' = text /\ typed' = typed /\ (entries' = entries \/ entries' = {})
  BY DEF ChangeRange, ChangeText, BeginParse, StoreParsed, Close, vars
<1>2. BytesDistinct' /\ HomesTyped' /\ FollowsText'
  BY <1>1 DEF TInv, BytesDistinct, HomesTyped, FollowsText
<1>3. IInv'
  BY ChangeRangeInv, ChangeTextInv, OthersInv, CloseInv DEF TInv
<1>4. QED
  BY <1>2, <1>3 DEF TInv

(* The range of an id is where its region is: whatever is typed and deleted *)
(* around it, of the bytes there were when the id was given it covers the   *)
(* ones of its region that are left, and no others.                         *)
THEOREM RangesFollowText == Spec => []FollowsText
<1>1. Init => TInv
  BY InitInv DEF Init, TInv, BytesDistinct, HomesTyped, FollowsText
<1>2. TInv /\ [Next]_vars => TInv'
  BY ApplySingleEditFollows, NewTextFollows, ResolveFollows, OthersFollow DEF Next
<1>3. TInv => FollowsText
  BY DEF TInv
<1>4. QED
  BY <1>1, <1>2, <1>3, PTL DEF Spec
-----------------------------------------------------------------------------
(* The bytes an edit takes away are gone from the text.                     *)
LEMMA ReplacedBytesGo ==
  ASSUME TInv, NEW edit \in ValidEdits, edit.old_end_byte <= Len(text),
         IsEditOf(text', text, edit),
         NEW i \in (edit.start_byte + 1) .. edit.old_end_byte
  PROVE  text[i] \notin BytesOf(text')
<1> DEFINE a == edit.start_byte
           b == edit.old_end_byte
           c == edit.new_end_byte
           d == Delta(edit)
           t == text
           r == text'
<1>1. /\ a \in Nat /\ b \in Nat /\ c \in Nat /\ a <= b /\ a <= c /\ b <= Len(t)
      /\ Len(t) \in Nat /\ d = c - b /\ typed \in Nat /\ DOMAIN t = 1 .. Len(t)
  BY DEF ValidEdits, EditInfos, Delta, TInv, IInv, TypeOK
<1>2. /\ r \in Seq(Nat) /\ Len(r) = Len(t) + d /\ DOMAIN r = 1 .. Len(r)
      /\ \A p \in 1 .. a : r[p] = t[p]
      /\ \A p \in (a + 1) .. c : r[p] = typed + (p - a)
      /\ \A p \in (c + 1) .. Len(r) : r[p] = t[p - d]
  BY DEF IsEditOf
<1>3. /\ \A j \in 1 .. Len(t) : t[j] \in 1 .. typed
      /\ \A j, k \in 1 .. Len(t) : t[j] = t[k] => j = k
  BY <1>1 DEF TInv, BytesDistinct
<1>4. i \in 1 .. Len(t) /\ i > a /\ i <= b
  BY <1>1
<1> HIDE DEF a, b, c, d, t, r
<1>5. ASSUME NEW p \in 1 .. Len(r), r[p] = t[i] PROVE FALSE
  <2>1. CASE p <= a
    <3>1. p \in 1 .. a /\ p \in 1 .. Len(t)
      BY <1>1, <1>2, <2>1
    <3>2. p = i
      BY <1>2, <1>3, <1>4, <1>5, <3>1
    <3>3. QED
      BY <1>1, <1>4, <2>1, <3>2
  <2>2. CASE p > a /\ p <= c
    <3>1. p \in (a + 1) .. c
      BY <1>1, <1>2, <2>2
    <3>2. r[p] = typed + (p - a)
      BY <1>2, <3>1
    <3>3. typed + (p - a) > typed
      BY <1>1, <3>1
    <3>4. t[i] \in 1 .. typed
      BY <1>3, <1>4
    <3>5. QED
      BY <1>1, <1>5, <3>2, <3>3, <3>4
  <2>3. CASE p > c
    <3>1. p - d \in 1 .. Len(t) /\ p \in (c + 1) .. Len(r) /\ p - d > b
      BY <1>1, <1>2, <2>3
    <3>2. t[p - d] = t[i]
      BY <1>2, <1>5, <3>1
    <3>3. p - d = i
      BY <1>3, <1>4, <3>1, <3>2
    <3>4. QED
      BY <1>1, <1>4, <3>1, <3>3
  <2>4. QED
    BY <1>1, <1>2, <2>1, <2>2, <2>3
<1>6. QED
  BY <1>2, <1>5 DEF BytesOf, r, t

(* Where an edit leaves the start of a region that it does not invalidate.  *)
LEMMA StartAfterEdit ==
  ASSUME NEW e \in Entries, e.start < e.end, NEW edit \in ValidEdits,
         ~ShouldInvalidate(e, edit)
  PROVE  /\ Adjust(e, edit).kind = e.kind
         /\ e.start >= edit.old_end_byte =>
               /\ Adjust(e, edit).start = e.start + Delta(edit)
               /\ Adjust(e, edit).end = e.end + Delta(edit)
               /\ Adjust(e, edit).start >= edit.start_byte
         /\ e.start < edit.old_end_byte =>
               Adjust(e, edit).start = e.start /\ e.start < edit.start_byte
<1> DEFINE d == Delta(edit)
<1>1. /\ e.start \in Nat /\ e.end \in Nat
      /\ edit.start_byte \in Nat /\ edit.old_end_byte \in Nat
      /\ edit.new_end_byte \in Nat
      /\ edit.start_byte <= edit.old_end_byte
      /\ edit.start_byte <= edit.new_end_byte
      /\ d = edit.new_end_byte - edit.old_end_byte
  BY DEF Entries, ValidEdits, EditInfos, Delta
<1>2. CASE e.start >= edit.old_end_byte
  <2>1. /\ ApplyDelta(e.start, d) = e.start + d
        /\ ApplyDelta(e.end, d) = e.end + d
        /\ e.start + d >= edit.start_byte
    BY <1>1, <1>2 DEF ApplyDelta
  <2>2. Adjust(e, edit) = [e EXCEPT !.start = e.start + d, !.end = e.end + d]
    BY <1>2, <2>1 DEF Adjust
  <2>3. /\ Adjust(e, edit).start = e.start + d
        /\ Adjust(e, edit).end = e.end + d
        /\ Adjust(e, edit).kind = e.kind
    BY <2>2 DEF Entries
  <2>4. QED
    BY <1>1, <1>2, <2>1, <2>3
<1>3. CASE e.start < edit.old_end_byte
  <2>1. e.start < edit.start_byte
    BY <1>1, <1>3 DEF ShouldInvalidate, IsInsertionOnly
  <2>2. Adjust(e, edit).start = e.start /\ Adjust(e, edit).kind = e.kind
    BY <1>1, <1>3 DEF Adjust, Entries
  <2>3. QED
    BY <1>1, <1>3, <2>1, <2>2
<1>4. QED
  BY <1>1, <1>2, <1>3

(* The body of InvalidatedForCause. *)
GivenUpForCause ==
  \A e \in entries :
     (pending # <<>> /\ e.id \in reported' /\ e.home # None) =>
        \/ text[e.start + 1] \notin BytesOf(text')
        \/ Head(pending).start_byte = e.start /\ IsInsertionOnly(Head(pending))
        \/ \E f \in entries' : f.start = e.start /\ f.kind = e.kind

LEMMA EditGivesUpForCause == TInv /\ ApplySingleEdit => GivenUpForCause
<1> SUFFICES ASSUME TInv, ApplySingleEdit, NEW e \in entries, e.id \in reported'
             PROVE  \/ text[e.start + 1] \notin BytesOf(text')
                    \/ /\ Head(pending).start_byte = e.start
                       /\ IsInsertionOnly(Head(pending))
                    \/ \E f \in entries' : f.start = e.start /\ f.kind = e.kind
  BY DEF GivenUpForCause
<1> DEFINE edit == Head(pending)
           size == edit.new_end_byte - edit.start_byte
           moved == {Adjust(g, edit) : g \in Survivors(edit)}
<1>1. edit \in ValidEdits /\ edit.old_end_byte <= Len(text)
  BY DEF TInv, IInv, TypeOK, PendingFits, ApplySingleEdit
<1>2. text' = Replace(text, edit, Fresh(size))
  BY DEF ApplySingleEdit
<1>3. IsEditOf(text', text, edit)
  BY <1>1, <1>2, ReplaceIsEdit DEF TInv, IInv, TypeOK
<1>4. PICK kept \in SUBSET moved :
        KeepsFirst(kept, moved) /\ entries' = kept /\ Report(edit, kept)
  BY DEF ApplySingleEdit
<1>5. /\ \A g \in entries : g \in Entries /\ g.start < g.end
      /\ \A g, h \in entries : (SameKey(g, h) \/ g.id = h.id) => g = h
      /\ e.id \notin reported
  BY DEF TInv, IInv, TypeOK, NoneEmpty, OneIdPerRegion, IdsAccounted, IdsOf
<1>6. e.id \notin IdsOf(kept)
  BY <1>4, <1>5 DEF Report
<1>7. /\ edit.start_byte \in Nat /\ edit.old_end_byte \in Nat
      /\ \A g \in entries : g.start \in Nat /\ g.end \in Nat
      /\ Delta(edit) \in Int
  BY <1>1, <1>5 DEF ValidEdits, EditInfos, Entries, Delta
<1> HIDE DEF edit, size
<1>8. CASE ShouldInvalidate(e, edit)
  <2>1. CASE IsInsertionOnly(edit)
    BY <1>8, <2>1 DEF ShouldInvalidate, edit
  <2>2. CASE ~IsInsertionOnly(edit)
    <3>1. e.start + 1 \in (edit.start_byte + 1) .. edit.old_end_byte
      BY <1>7, <1>8, <2>2 DEF ShouldInvalidate
    <3>2. QED
      BY <1>1, <1>3, <3>1, ReplacedBytesGo
  <2>3. QED
    BY <2>1, <2>2
<1>9. CASE ~ShouldInvalidate(e, edit)
  <2> DEFINE a == Adjust(e, edit)
  <2>1. a \in moved /\ a.id = e.id
    BY <1>1, <1>5, <1>9, AdjustKeepsRange DEF Survivors
  <2>2. PICK b \in kept : SameKey(a, b)
    BY <1>4, <2>1 DEF KeepsFirst
  <2>3. PICK g \in Survivors(edit) : b = Adjust(g, edit)
    BY <1>4, <2>2
  <2>4. g \in entries /\ ~ShouldInvalidate(g, edit)
    BY DEF Survivors
  <2>5. b.id = g.id
    BY <1>1, <1>5, <2>3, <2>4, AdjustKeepsRange
  <2>6. g # e
    BY <1>6, <2>2, <2>5 DEF IdsOf
  <2>7. /\ a.kind = e.kind
        /\ e.start >= edit.old_end_byte =>
             /\ a.start = e.start + Delta(edit) /\ a.end = e.end + Delta(edit)
             /\ a.start >= edit.start_byte
        /\ e.start < edit.old_end_byte => a.start = e.start
    BY <1>1, <1>5, <1>9, StartAfterEdit
  <2>8. /\ b.kind = g.kind
        /\ g.start >= edit.old_end_byte =>
             /\ b.start = g.start + Delta(edit) /\ b.end = g.end + Delta(edit)
        /\ g.start < edit.old_end_byte =>
             b.start = g.start /\ g.start < edit.start_byte
    BY <1>1, <1>5, <2>3, <2>4, StartAfterEdit
  <2> HIDE DEF a
  <2>9. a.start = b.start /\ a.end = b.end /\ a.kind = b.kind
    BY <2>2 DEF SameKey
  <2>10. CASE e.start < edit.old_end_byte
    BY <1>4, <2>2, <2>7, <2>9, <2>10
  <2>11. CASE e.start >= edit.old_end_byte
    <3>1. g.start >= edit.old_end_byte
      BY <1>7, <2>4, <2>7, <2>8, <2>9, <2>11
    <3>2. g.start = e.start /\ g.end = e.end
      BY <1>7, <2>4, <2>7, <2>8, <2>9, <2>11, <3>1
    <3>3. g.kind = e.kind
      BY <2>7, <2>8, <2>9
    <3>4. QED
      BY <1>5, <2>4, <2>6, <3>2, <3>3 DEF SameKey
  <2>12. QED
    BY <1>7, <2>10, <2>11
<1>10. QED
  BY <1>8, <1>9

(* Only an edit gives ids up, and an id is given up only if the first byte  *)
(* of its region was replaced, something was put right before it, or        *)
(* another region took its place: edits elsewhere keep it, whatever they    *)
(* are and however the HashMap is ordered.                                  *)
THEOREM IdsGivenUpForCause == Spec => InvalidatedForCause
<1>1. Init => TInv
  BY InitInv DEF Init, TInv, BytesDistinct, HomesTyped, FollowsText
<1>2. TInv /\ [Next]_vars => TInv'
  BY ApplySingleEditFollows, NewTextFollows, ResolveFollows, OthersFollow DEF Next
<1>3. TInv /\ [Next]_vars => GivenUpForCause
  <2>1. ASSUME TInv, reported' = reported PROVE GivenUpForCause
    BY <2>1 DEF GivenUpForCause, TInv, IInv, IdsAccounted, IdsOf
  <2>2. CASE ApplySingleEdit
    BY <2>2, EditGivesUpForCause
  <2>3. ASSUME \/ Open \/ ChangeRange \/ ChangeText \/ ChangeMixed
               \/ BeginParse \/ StoreParsed \/ Resolve \/ Close
               \/ UNCHANGED vars
        PROVE reported' = reported
    BY <2>3 DEF Open, ChangeRange, ChangeText, ChangeMixed, BeginParse,
                StoreParsed, Resolve, Close, vars
  <2>4. QED
    BY <2>1, <2>2, <2>3 DEF Next
<1>4. QED
  BY <1>1, <1>2, <1>3, PTL DEF Spec, InvalidatedForCause, GivenUpForCause
=============================================================================
