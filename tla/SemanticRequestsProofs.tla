----------------------- MODULE SemanticRequestsProofs -----------------------
(***************************************************************************)
(* The safety of SemanticRequests for any number of requests, edits, texts *)
(* and upstream ids: deltas lead from what the client has to the tokens    *)
(* that were computed (DeltaLeads), IInv is the inductive invariant of the *)
(* cache, the tracker and the subscriptions, and CauseInv relates a        *)
(* request that was overtaken to the edit or the request that did it.      *)
(***************************************************************************)
EXTENDS SemanticRequests, FiniteSetTheorems, SequenceTheorems,
  WellFoundedInduction, TLAPS

(* The requests the tracker has seen (one that is dropped before its handler *)
(* is polled is not among them), and those that got tokens.                  *)
Started == {r \in Requests : request_id[r] # None}
Tokened == {r \in Requests : HasTokens(r)}

(* Each handler that starts takes the next id of the tracker, each that     *)
(* makes tokens the next result id.                                         *)
Counts ==
  /\ next_request_id = Cardinality(Started) + 1
  /\ next_result_id = Cardinality(Tokened) + 1

(* What a handler has, by where it is. *)
HandlersKnown ==
  \A r \in Requests :
     /\ HasTokens(r) => /\ pc[r] = "done"
                        /\ answer[r].result \in ResultIds
                        /\ answer[r].result < next_result_id
                        /\ request_id[r] # None
     /\ pc[r] \in {"unsent", "sent"} => request_id[r] = None
     /\ r \in Running => request_id[r] # None
     /\ request_id[r] # None => request_id[r] < next_request_id
     /\ pc[r] \in {"parsing", "computing"} => held[r].text \in Texts
     /\ r \in InFlight => held[r].upstream \in Upstreams
     /\ pc[r] \in {"unsent", "sent"} => cancel_rx[r] = "none"
     /\ r \in Running => cancel_rx[r] # "none"

(* The client uses an id once at a time, the tracker each of its own once. *)
IdsUsedOnce ==
  /\ \A q, r \in InFlight : held[q].upstream = held[r].upstream => q = r
  /\ \A q, r \in Requests :
        request_id[q] = request_id[r] /\ request_id[q] # None => q = r

(* Only the request that started last is ever the active one. *)
ActiveIsLast == active_request # None => active_request + 1 = next_request_id

IInv ==
  /\ TypeOK /\ Counts /\ HandlersKnown /\ IdsUsedOnce /\ ActiveIsLast
  /\ ClientHasCached /\ ResultsComputed /\ CacheOfOpenDocument /\ AnswersInOrder /\ SubscribersRun
  /\ CancelHeeded

LEMMA NoneApart ==
  /\ None \notin Requests /\ None \notin ResultIds /\ None \notin Upstreams
  /\ None \notin Texts /\ None \notin Tokens /\ Requests \subseteq Nat
  /\ ResultIds \subseteq Nat /\ NoTokens \in Tokens
  /\ \A t \in Texts : TokensOf[t] \in Tokens
  /\ ResultIds = Requests
<1>1. Requests \subseteq Nat /\ ResultIds = Requests
  BY DEF Requests, ResultIds
<1>2. /\ None \notin Nat /\ Upstreams \subseteq Nat
      /\ None \notin Tokens /\ None \notin Texts
      /\ \A t \in Texts : TokensOf[t] \in Tokens
  BY SemanticAssumption
<1>3. NoTokens \in Tokens
  BY DEF Tokens, NoTokens
<1>4. QED
  BY <1>1, <1>2, <1>3

LEMMA RequestsFinite ==
  IsFiniteSet(Requests) /\ Cardinality(Requests) = MaxRequests
<1>1. MaxRequests \in Nat /\ 1 \in Int /\ MaxRequests \in Int
  BY SemanticAssumption
<1>2. /\ IsFiniteSet(1 .. MaxRequests)
      /\ Cardinality(1 .. MaxRequests) = IF 1 > MaxRequests THEN 0 ELSE MaxRequests - 1 + 1
  BY <1>1, FS_Interval
<1>3. QED
  BY <1>1, <1>2 DEF Requests

LEMMA CountBelow ==
  ASSUME NEW S \in SUBSET Requests, NEW r \in Requests, r \notin S
  PROVE  /\ Cardinality(S) \in Nat /\ Cardinality(S) + 1 \in Requests
         /\ Cardinality(S \cup {r}) = Cardinality(S) + 1
<1>1. IsFiniteSet(S) /\ Cardinality(S) \in Nat
  BY RequestsFinite, FS_Subset, FS_CardinalityType
<1>2. Cardinality(S \cup {r}) = Cardinality(S) + 1
  BY <1>1, FS_AddElement
<1>3. Cardinality(S \cup {r}) <= Cardinality(Requests)
  BY RequestsFinite, FS_Subset
<1>4. QED
  BY <1>1, <1>2, <1>3, RequestsFinite, SemanticAssumption DEF Requests

(* The longest common beginning exists and is one, and so is the end. *)
LEMMA LongestExists ==
  ASSUME NEW m \in Nat, NEW S \in SUBSET (0 .. m), 0 \in S
  PROVE  \E n \in S : n < m => n + 1 \notin S
<1> DEFINE R == {k \in Nat : k <= m /\ m - k \in S}
<1>1. m \in R
  OBVIOUS
<1>2. PICK k \in R : \A j \in 0 .. (k - 1) : j \notin R
  <2>1. PICK k \in R : \A j \in R : <<j, k>> \notin OpToRel(<, Nat)
    <3>1. R # {} /\ R \subseteq Nat
      BY <1>1
    <3> HIDE DEF R
    <3>2. QED
      BY <3>1, NatLessThanWellFounded, WFMin
  <2>2. \A j \in R : ~(j < k)
    BY <2>1 DEF OpToRel
  <2>3. QED
    BY <2>2
<1>3. m - k \in S /\ m - k \in 0 .. m
  OBVIOUS
<1>4. ASSUME m - k < m PROVE (m - k) + 1 \notin S
  <2>1. k \in Nat /\ k - 1 \in 0 .. (k - 1) /\ m - (k - 1) = (m - k) + 1
    BY <1>4
  <2>2. QED
    BY <1>2, <2>1
<1>5. QED
  BY <1>3, <1>4

LEMMA PrefixAgrees ==
  ASSUME NEW S, NEW s \in Seq(S), NEW t \in Seq(S)
  PROVE  /\ CommonPrefixLen(s, t) \in 0 .. Len(s)
         /\ CommonPrefixLen(s, t) \in 0 .. Len(t)
         /\ \A i \in 1 .. CommonPrefixLen(s, t) : s[i] = t[i]
<1> DEFINE m == Shorter(s, t)
           Common == {n \in 0 .. m : \A i \in 1 .. n : s[i] = t[i]}
<1>1. m \in Nat /\ m <= Len(s) /\ m <= Len(t)
  BY DEF Shorter
<1>2. PICK n \in Common : n < m => n + 1 \notin Common
  <2>1. Common \in SUBSET (0 .. m) /\ 0 \in Common
    BY <1>1
  <2> HIDE DEF Common, m
  <2>2. QED
    BY <1>1, <2>1, LongestExists
<1>3. n < m => s[n + 1] # t[n + 1]
  <2> SUFFICES ASSUME n < m, s[n + 1] = t[n + 1] PROVE FALSE
    OBVIOUS
  <2>1. n + 1 \in 0 .. m /\ \A i \in 1 .. (n + 1) : i \in 1 .. n \/ i = n + 1
    BY <1>1
  <2>2. QED
    BY <1>2, <2>1
<1>4. \E k \in 0 .. m : /\ \A i \in 1 .. k : s[i] = t[i]
                        /\ k < m => s[k + 1] # t[k + 1]
  BY <1>2, <1>3
<1>5. /\ CommonPrefixLen(s, t) \in 0 .. m
      /\ \A i \in 1 .. CommonPrefixLen(s, t) : s[i] = t[i]
  BY <1>4 DEF CommonPrefixLen
<1>6. QED
  BY <1>1, <1>5

LEMMA SuffixAgrees ==
  ASSUME NEW S, NEW s \in Seq(S), NEW t \in Seq(S)
  PROVE  /\ CommonSuffixLen(s, t) \in 0 .. Len(s)
         /\ CommonSuffixLen(s, t) \in 0 .. Len(t)
         /\ \A i \in 0 .. (CommonSuffixLen(s, t) - 1) : s[Len(s) - i] = t[Len(t) - i]
<1> DEFINE m == Shorter(s, t)
           Common == {n \in 0 .. m : \A i \in 0 .. (n - 1) : s[Len(s) - i] = t[Len(t) - i]}
<1>1. m \in Nat /\ m <= Len(s) /\ m <= Len(t)
  BY DEF Shorter
<1>2. PICK n \in Common : n < m => n + 1 \notin Common
  <2>1. Common \in SUBSET (0 .. m) /\ 0 \in Common
    BY <1>1
  <2> HIDE DEF Common, m
  <2>2. QED
    BY <1>1, <2>1, LongestExists
<1>3. n < m => s[Len(s) - n] # t[Len(t) - n]
  <2> SUFFICES ASSUME n < m, s[Len(s) - n] = t[Len(t) - n] PROVE FALSE
    OBVIOUS
  <2>1. n + 1 \in 0 .. m /\ \A i \in 0 .. n : i \in 0 .. (n - 1) \/ i = n
    BY <1>1
  <2>2. QED
    BY <1>2, <2>1
<1>4. \E k \in 0 .. m : /\ \A i \in 0 .. (k - 1) : s[Len(s) - i] = t[Len(t) - i]
                        /\ k < m => s[Len(s) - k] # t[Len(t) - k]
  BY <1>2, <1>3
<1>5. /\ CommonSuffixLen(s, t) \in 0 .. m
      /\ \A i \in 0 .. (CommonSuffixLen(s, t) - 1) : s[Len(s) - i] = t[Len(t) - i]
  BY <1>4 DEF CommonSuffixLen
<1>6. QED
  BY <1>1, <1>5

(* An edit that replaces what is between a common beginning of p and a     *)
(* common end of q leads from s to t.                                      *)
LEMMA EditLeads ==
  ASSUME NEW S, NEW s \in Seq(S), NEW t \in Seq(S),
         NEW p \in Nat, NEW q \in Nat, p + q <= Len(s), p + q <= Len(t),
         \A i \in 1 .. p : s[i] = t[i],
         \A i \in 0 .. (q - 1) : s[Len(s) - i] = t[Len(t) - i]
  PROVE  (SubSeq(s, 1, p) \o SubSeq(t, p + 1, Len(t) - q))
           \o SubSeq(s, (Len(s) - q) + 1, Len(s)) = t
<1> DEFINE a == SubSeq(s, 1, p)
           b == SubSeq(t, p + 1, Len(t) - q)
           c == SubSeq(s, (Len(s) - q) + 1, Len(s))
           w == a \o b
           x == w \o c
           k == Len(t) - q
<1>1. /\ a \in Seq(S) /\ Len(a) = p /\ \A i \in 1 .. p : a[i] = s[i]
      /\ b \in Seq(S) /\ Len(b) = k - p
      /\ \A i \in 1 .. (k - p) : b[i] = t[p + i]
      /\ c \in Seq(S) /\ Len(c) = q
      /\ \A i \in 1 .. q : c[i] = s[(Len(s) - q) + i]
  OBVIOUS
<1> HIDE DEF a, b, c
<1>2. /\ w \in Seq(S) /\ Len(w) = Len(a) + Len(b)
      /\ \A i \in 1 .. Len(a) + Len(b) :
            w[i] = IF i <= Len(a) THEN a[i] ELSE b[i - Len(a)]
  <2>1. a \in Seq(S) /\ b \in Seq(S)
    BY <1>1
  <2>2. QED
    BY <2>1, ConcatProperties
<1> HIDE DEF w
<1>3. /\ x \in Seq(S) /\ Len(x) = Len(w) + Len(c)
      /\ \A i \in 1 .. Len(w) + Len(c) :
            x[i] = IF i <= Len(w) THEN w[i] ELSE c[i - Len(w)]
  <2>1. w \in Seq(S) /\ c \in Seq(S)
    BY <1>1, <1>2
  <2>2. QED
    BY <2>1, ConcatProperties
<1> HIDE DEF x
<1>4. k \in Nat /\ p <= k /\ Len(w) = k /\ Len(x) = Len(t) /\ Len(t) = k + q
  BY <1>1, <1>2, <1>3
<1> HIDE DEF k
<1>5. ASSUME NEW i \in 1 .. Len(t) PROVE x[i] = t[i]
  <2>1. CASE i <= p
    <3>1. i \in 1 .. k /\ i \in 1 .. p
      BY <1>4, <2>1
    <3>2. x[i] = w[i]
      BY <1>1, <1>3, <1>4, <3>1
    <3>3. w[i] = a[i]
      BY <1>1, <1>2, <1>4, <3>1
    <3>4. QED
      BY <1>1, <3>1, <3>2, <3>3
  <2>2. CASE i > p /\ i <= k
    <3>1. i \in 1 .. k /\ i - p \in 1 .. (k - p) /\ p + (i - p) = i
      BY <1>4, <2>2
    <3>2. x[i] = w[i]
      BY <1>1, <1>3, <1>4, <3>1
    <3>3. w[i] = b[i - p]
      BY <1>1, <1>2, <1>4, <2>2, <3>1
    <3>4. b[i - p] = t[p + (i - p)]
      BY <1>1, <3>1
    <3>5. QED
      BY <3>1, <3>2, <3>3, <3>4
  <2>3. CASE i > k
    <3>1. x[i] = c[i - k]
      BY <1>1, <1>3, <1>4, <2>3
    <3>2. /\ i - k \in 1 .. q /\ Len(t) - i \in 0 .. (q - 1)
          /\ Len(s) - q + (i - k) = Len(s) - (Len(t) - i)
          /\ Len(t) - (Len(t) - i) = i
      BY <1>4, <2>3
    <3>3. c[i - k] = s[Len(s) - (Len(t) - i)]
      BY <1>1, <3>2
    <3>4. QED
      BY <3>1, <3>2, <3>3
  <2>4. QED
    BY <1>4, <2>1, <2>2, <2>3
<1>6. x = t
  BY <1>3, <1>4, <1>5, SeqEqual
<1>7. QED
  BY <1>6 DEF a, b, c, w, x, k

(* The delta of two results, applied to the first, gives the second.  This *)
(* does not depend on the line counts that the code compares before it     *)
(* looks for a common end.                                                 *)
THEOREM DeltaLeads ==
  ASSUME NEW S, NEW s \in Seq(S), NEW t \in Seq(S)
  PROVE  ApplyDelta(s, Delta(s, t)) = t
<1> DEFINE p == CommonPrefixLen(s, t)
           u == Drop(s, p)
           v == Drop(t, p)
           q == IF TotalLines(s) # TotalLines(t) THEN 0 ELSE CommonSuffixLen(u, v)
           e == [start |-> p, delete |-> Len(u) - q,
                 data |-> SubSeq(t, p + 1, Len(t) - q)]
<1>1. /\ p \in 0 .. Len(s) /\ p \in 0 .. Len(t)
      /\ \A i \in 1 .. p : s[i] = t[i]
  BY PrefixAgrees
<1> HIDE DEF p
<1>2. /\ u \in Seq(S) /\ Len(u) = Len(s) - p /\ \A i \in 1 .. Len(u) : u[i] = s[p + i]
      /\ v \in Seq(S) /\ Len(v) = Len(t) - p /\ \A i \in 1 .. Len(v) : v[i] = t[p + i]
  BY <1>1 DEF Drop
<1> HIDE DEF u, v
<1>3. /\ q \in 0 .. Len(u) /\ q \in 0 .. Len(v)
      /\ \A i \in 0 .. (q - 1) : u[Len(u) - i] = v[Len(v) - i]
  <2>1. CASE q = 0
    BY <1>2, <2>1
  <2>2. CASE q = CommonSuffixLen(u, v)
    <3>1. /\ CommonSuffixLen(u, v) \in 0 .. Len(u)
          /\ CommonSuffixLen(u, v) \in 0 .. Len(v)
          /\ \A i \in 0 .. (CommonSuffixLen(u, v) - 1) : u[Len(u) - i] = v[Len(v) - i]
      <4>1. u \in Seq(S) /\ v \in Seq(S)
        BY <1>2
      <4>2. QED
        BY <4>1, SuffixAgrees
    <3> HIDE DEF q
    <3>2. QED
      BY <2>2, <3>1
  <2>3. QED
    BY <2>1, <2>2
<1> HIDE DEF q
<1>4. \A i \in 0 .. (q - 1) : s[Len(s) - i] = t[Len(t) - i]
  <2> SUFFICES ASSUME NEW i \in 0 .. (q - 1) PROVE s[Len(s) - i] = t[Len(t) - i]
    OBVIOUS
  <2>1. /\ Len(u) - i \in 1 .. Len(u) /\ p + (Len(u) - i) = Len(s) - i
        /\ Len(v) - i \in 1 .. Len(v) /\ p + (Len(v) - i) = Len(t) - i
    BY <1>1, <1>2, <1>3
  <2>2. QED
    BY <1>2, <1>3, <2>1
<1>5. p + q <= Len(s) /\ p + q <= Len(t) /\ p \in Nat /\ q \in Nat
  BY <1>1, <1>2, <1>3
<1>6. CASE p = Len(s) /\ p = Len(t)
  <2>1. s = t
    <3>1. Len(s) = Len(t) /\ \A i \in 1 .. Len(s) : s[i] = t[i]
      BY <1>1, <1>6
    <3>2. QED
      BY <3>1, SeqEqual
  <2>2. Delta(s, t) = << >>
    BY <1>6 DEF Delta, p
  <2>3. QED
    BY <2>1, <2>2 DEF ApplyDelta
<1>7. CASE ~(p = Len(s) /\ p = Len(t))
  <2>1. Delta(s, t) = <<e>>
    BY <1>7 DEF Delta, p, q, u, v
  <2>2. Delta(s, t) # << >> /\ Delta(s, t)[1] = e
    BY <2>1
  <2>3. (IF e.start < Len(s) THEN e.start ELSE Len(s)) = p
    BY <1>1
  <2>4. Drop(s, e.start + e.delete) = SubSeq(s, (Len(s) - q) + 1, Len(s))
    <3>1. e.start + e.delete = Len(s) - q
      BY <1>1, <1>2, <1>3
    <3>2. QED
      BY <3>1 DEF Drop
  <2>5. ApplyDelta(s, Delta(s, t)) =
          (SubSeq(s, 1, p) \o SubSeq(t, p + 1, Len(t) - q))
            \o SubSeq(s, (Len(s) - q) + 1, Len(s))
    <3>1. ApplyDelta(s, Delta(s, t)) =
            (SubSeq(s, 1, p) \o e.data) \o Drop(s, e.start + e.delete)
      <4> HIDE DEF e
      <4>1. QED
        BY <2>2, <2>3 DEF ApplyDelta
    <3>2. QED
      BY <2>4, <3>1
  <2>6. QED
    BY <1>1, <1>4, <1>5, <2>5, EditLeads
<1>8. QED
  BY <1>6, <1>7
-----------------------------------------------------------------------------
LEMMA InitInv == Init => IInv
<1> SUFFICES ASSUME Init PROVE IInv
  OBVIOUS
<1>1. Started = {} /\ Tokened = {}
  BY DEF Init, Started, Tokened, HasTokens, Answer
<1>2. Counts
  BY <1>1, FS_EmptySet DEF Init, Counts
<1>3. TypeOK
  BY SemanticAssumption
  DEF Init, TypeOK, Places, Locals, NoLocals, Answers, Answer, Requests, ResultIds
<1>4. HandlersKnown /\ IdsUsedOnce /\ ActiveIsLast
  BY DEF Init, HandlersKnown, IdsUsedOnce, ActiveIsLast, InFlight, Running, HasTokens,
     Answer
<1>5. ClientHasCached /\ ResultsComputed /\ CacheOfOpenDocument /\ AnswersInOrder
  BY NoneApart DEF Init, ClientHasCached, ResultsComputed, CacheOfOpenDocument,
     AnswersInOrder, HasTokens, Answer
<1>6. SubscribersRun /\ CancelHeeded
  BY NoneApart DEF Init, SubscribersRun, CancelHeeded, Running, InFlight
<1>7. QED
  BY <1>2, <1>3, <1>4, <1>5, <1>6 DEF IInv
-----------------------------------------------------------------------------
(* The document is opened, changed or closed. *)
LEMMA OpenOrChangeInv == IInv /\ OpenOrChange => IInv'
<1> SUFFICES ASSUME IInv, OpenOrChange PROVE IInv'
  OBVIOUS
<1>1. UNCHANGED <<clientVars, cancelVars, trackerVars, tokenVars, handlerVars>>
  BY DEF OpenOrChange
<1>2. document' \in Texts /\ edits' \in 0 .. MaxEdits
  BY SemanticAssumption DEF OpenOrChange, Edit, IInv, TypeOK
<1>3. TypeOK'
  BY <1>1, <1>2
  DEF IInv, TypeOK, clientVars, cancelVars, trackerVars, tokenVars, handlerVars
<1>4. Counts' /\ HandlersKnown' /\ IdsUsedOnce' /\ ActiveIsLast' /\ ClientHasCached'
  BY <1>1 DEF IInv, Counts, Started, Tokened, HandlersKnown, IdsUsedOnce, ActiveIsLast,
     ClientHasCached, HasTokens, InFlight, Running,
     clientVars, cancelVars, trackerVars, tokenVars, handlerVars
<1>5. /\ ResultsComputed' /\ CacheOfOpenDocument' /\ AnswersInOrder' /\ SubscribersRun'
      /\ CancelHeeded'
  BY <1>1, <1>2, NoneApart DEF IInv, ResultsComputed, CacheOfOpenDocument,
     AnswersInOrder, SubscribersRun, CancelHeeded, HasTokens, InFlight, Running,
     clientVars, cancelVars, trackerVars, tokenVars, handlerVars
<1>6. QED
  BY <1>3, <1>4, <1>5 DEF IInv

LEMMA CloseInv == IInv /\ Close => IInv'
<1> SUFFICES ASSUME IInv, Close PROVE IInv'
  OBVIOUS
<1>1. /\ UNCHANGED <<clientVars, cancelVars, next_request_id, next_result_id, handlerVars>>
      /\ document' = None /\ cache' = None /\ active_request' = None
  BY DEF Close, RemoveDocument
<1>2. edits' \in 0 .. MaxEdits
  BY SemanticAssumption DEF Close, Edit, IInv, TypeOK
<1>3. TypeOK'
  BY <1>1, <1>2 DEF IInv, TypeOK, clientVars, cancelVars, handlerVars
<1>4. Counts' /\ HandlersKnown' /\ IdsUsedOnce' /\ ActiveIsLast' /\ ClientHasCached'
  BY <1>1 DEF IInv, Counts, Started, Tokened, HandlersKnown, IdsUsedOnce, ActiveIsLast,
     ClientHasCached, HasTokens, InFlight, Running, clientVars, cancelVars, handlerVars
<1>5. /\ ResultsComputed' /\ CacheOfOpenDocument' /\ AnswersInOrder' /\ SubscribersRun'
      /\ CancelHeeded'
  BY <1>1 DEF IInv, ResultsComputed, CacheOfOpenDocument, AnswersInOrder,
     SubscribersRun, CancelHeeded, HasTokens, InFlight, Running,
     clientVars, cancelVars, handlerVars
<1>6. QED
  BY <1>3, <1>4, <1>5 DEF IInv
-----------------------------------------------------------------------------
(* The client sends a request, or cancels one. *)
LEMMA SendInv == IInv /\ Send => IInv'
<1> SUFFICES ASSUME IInv, Send PROVE IInv'
  OBVIOUS
<1>1. PICK r \in Requests, u \in Upstreams, p \in {None, client_result} :
        /\ pc[r] = "unsent" /\ Free(u)
        /\ held' = [held EXCEPT ![r].upstream = u, ![r].previous = p]
        /\ pc' = [pc EXCEPT ![r] = "sent"]
  BY DEF Send, Goto
<1>2. UNCHANGED <<documentVars, clientVars, cancelVars, trackerVars, tokenVars,
                  request_id, answer>>
  BY DEF Send
<1> DEFINE l == [held[r] EXCEPT !.upstream = u, !.previous = p]
<1>3. /\ pc \in [Requests -> Places] /\ held \in [Requests -> Locals]
      /\ client_result \in ResultIds \cup {None}
  BY DEF IInv, TypeOK
<1>4. held' = [held EXCEPT ![r] = l] /\ l \in Locals /\ l.upstream = u
      /\ l.text = held[r].text
  BY <1>1, <1>3 DEF Locals
<1> HIDE DEF l
<1>5. TypeOK'
  <2>1. pc' \in [Requests -> Places] /\ held' \in [Requests -> Locals]
    BY <1>1, <1>3, <1>4 DEF Places
  <2>2. QED
    BY <1>2, <2>1
    DEF IInv, TypeOK, documentVars, clientVars, cancelVars, trackerVars, tokenVars
<1>6. /\ \A q \in Requests \ {r} : pc'[q] = pc[q] /\ held'[q] = held[q]
      /\ pc'[r] = "sent" /\ held'[r] = l
      /\ InFlight' = InFlight \cup {r} /\ Running' = Running
      /\ Started' = Started /\ Tokened' = Tokened
  BY <1>1, <1>2, <1>3, <1>4 DEF InFlight, Running, Started, Tokened, HasTokens
<1>7. Counts' /\ HandlersKnown'
  BY <1>1, <1>2, <1>4, <1>6
  DEF IInv, Counts, HandlersKnown, HasTokens, cancelVars, trackerVars, tokenVars
<1>8. IdsUsedOnce'
  <2>1. ASSUME NEW q \in InFlight' PROVE q \in Requests /\ (q # r => q \in InFlight)
    BY <1>6 DEF InFlight
  <2>2. ASSUME NEW q \in InFlight', NEW p2 \in InFlight',
               held'[q].upstream = held'[p2].upstream
        PROVE  q = p2
    <3>1. \A o \in InFlight : held[o].upstream # u
      BY <1>1 DEF Free
    <3>2. CASE q # r /\ p2 # r
      BY <1>6, <2>1, <2>2, <3>2 DEF IInv, IdsUsedOnce
    <3>3. CASE q = r /\ p2 # r
      BY <1>4, <1>6, <2>1, <2>2, <3>1, <3>3
    <3>4. CASE q # r /\ p2 = r
      BY <1>4, <1>6, <2>1, <2>2, <3>1, <3>4
    <3>5. QED
      BY <3>2, <3>3, <3>4
  <2>3. QED
    BY <1>2, <2>2 DEF IInv, IdsUsedOnce
<1>9. ActiveIsLast' /\ ClientHasCached' /\ ResultsComputed' /\ CacheOfOpenDocument'
      /\ AnswersInOrder' /\ CancelHeeded'
  BY <1>2 DEF IInv, ActiveIsLast, ClientHasCached, ResultsComputed, CacheOfOpenDocument,
     AnswersInOrder, CancelHeeded, HasTokens, documentVars, clientVars, cancelVars,
     trackerVars, tokenVars
<1>10. SubscribersRun'
  <2>1. \A q \in Running : q # r /\ held'[q] = held[q]
    BY <1>1, <1>6 DEF Running, InFlight
  <2>2. QED
    BY <1>2, <1>6, <2>1 DEF IInv, SubscribersRun, cancelVars
<1>11. QED
  BY <1>5, <1>7, <1>8, <1>9, <1>10 DEF IInv

LEMMA CancelRequestInv ==
  ASSUME IInv, NEW r \in Requests, CancelRequest(r) PROVE IInv'
<1> DEFINE u == held[r].upstream
<1>1. /\ r \in InFlight /\ u \in Upstreams
      /\ UNCHANGED <<documentVars, client_tokens, client_result, trackerVars,
                     tokenVars, handlerVars>>
      /\ cancelled' \subseteq Requests
  BY DEF CancelRequest, IInv, HandlersKnown, TypeOK
<1>2. CASE UNCHANGED cancelVars
  <2>1. TypeOK'
    BY <1>1, <1>2
    DEF IInv, TypeOK, documentVars, cancelVars, trackerVars, tokenVars, handlerVars
  <2>2. Counts' /\ HandlersKnown' /\ IdsUsedOnce' /\ ActiveIsLast' /\ ClientHasCached'
    BY <1>1, <1>2 DEF IInv, Counts, HandlersKnown, IdsUsedOnce, ActiveIsLast,
       ClientHasCached, HasTokens, Started, Tokened, InFlight, Running,
       cancelVars, trackerVars, tokenVars, handlerVars
  <2>3. /\ ResultsComputed' /\ CacheOfOpenDocument' /\ AnswersInOrder'
        /\ SubscribersRun' /\ CancelHeeded'
    BY <1>1, <1>2 DEF IInv, ResultsComputed, CacheOfOpenDocument, AnswersInOrder,
       SubscribersRun, CancelHeeded, HasTokens, InFlight, Running,
       documentVars, cancelVars, trackerVars, tokenVars, handlerVars
  <2>4. QED
    BY <2>1, <2>2, <2>3 DEF IInv
<1>3. CASE NotifyCancel(u)
  <2> DEFINE q == subscribers[u]
  <2>1. q \in Requests /\ q \in Running /\ held[q].upstream = u
    BY <1>1, <1>3 DEF IInv, TypeOK, SubscribersRun, NotifyCancel
  <2>2. /\ cancel_rx' = [cancel_rx EXCEPT ![q] = "notified"]
        /\ subscribers' = [subscribers EXCEPT ![u] = None]
    BY <1>3 DEF NotifyCancel
  <2>3. /\ subscribers \in [Upstreams -> Requests \cup {None}]
        /\ cancel_rx \in [Requests -> {"none", "open", "notified"}]
    BY DEF IInv, TypeOK
  <2> HIDE DEF q
  <2>4. TypeOK'
    BY <1>1, <2>1, <2>2, <2>3 DEF IInv, TypeOK, documentVars, trackerVars, tokenVars,
       handlerVars
  <2>5. InFlight' = InFlight /\ Running' = Running /\ Started' = Started
        /\ Tokened' = Tokened
    BY <1>1 DEF InFlight, Running, Started, Tokened, HasTokens, handlerVars
  <2>6. HandlersKnown' /\ CancelHeeded'
    BY <1>1, <2>1, <2>2, <2>3, <2>5 DEF IInv, HandlersKnown, CancelHeeded, HasTokens,
       InFlight, Running, trackerVars, tokenVars, handlerVars
  <2>7. /\ Counts' /\ IdsUsedOnce' /\ ActiveIsLast' /\ ClientHasCached'
        /\ ResultsComputed' /\ CacheOfOpenDocument' /\ AnswersInOrder'
    BY <1>1, <2>5 DEF IInv, Counts, IdsUsedOnce, ActiveIsLast, ClientHasCached,
       ResultsComputed, CacheOfOpenDocument, AnswersInOrder, HasTokens,
       documentVars, trackerVars, tokenVars, handlerVars
  <2>8. SubscribersRun'
    <3> SUFFICES ASSUME NEW w \in Upstreams, NEW p \in Requests
                 PROVE  subscribers'[w] = p <=>
                          p \in Running /\ held[p].upstream = w /\ cancel_rx'[p] # "notified"
      BY <1>1, <2>5 DEF SubscribersRun, handlerVars
    <3>1. subscribers[w] = p <=>
            p \in Running /\ held[p].upstream = w /\ cancel_rx[p] # "notified"
      BY DEF IInv, SubscribersRun
    <3>2. CASE w = u
      <4>1. p \in Running /\ held[p].upstream = w => p = q
        BY <2>1, <3>2 DEF IInv, IdsUsedOnce, Running
      <4>2. QED
        BY <1>1, <2>1, <2>2, <2>3, <3>2, <4>1, NoneApart
    <3>3. CASE w # u
      BY <2>1, <2>2, <2>3, <3>1, <3>3
    <3>4. QED
      BY <3>2, <3>3
  <2>9. QED
    BY <2>4, <2>6, <2>7, <2>8 DEF IInv
<1>4. QED
  BY <1>2, <1>3 DEF CancelRequest
-----------------------------------------------------------------------------
(* A handler starts. *)
LEMMA StartFacts ==
  ASSUME IInv, NEW r \in Requests, StartRequest(r)
  PROVE  /\ pc[r] = "sent" /\ r \in InFlight /\ r \notin Running
         /\ next_request_id \in Requests /\ request_id[r] = None
         /\ next_request_id' = next_request_id + 1
         /\ request_id' = [request_id EXCEPT ![r] = next_request_id]
         /\ Cardinality(Started \cup {r}) = Cardinality(Started) + 1
         /\ cancel_rx[r] = "none" /\ ~HasTokens(r) /\ held[r].upstream \in Upstreams
<1>1. pc[r] = "sent" /\ r \notin Started /\ r \in InFlight /\ r \notin Running
  BY DEF IInv, HandlersKnown, StartRequest, Started, InFlight, Running
<1>2. /\ Cardinality(Started) + 1 \in Requests
      /\ Cardinality(Started \cup {r}) = Cardinality(Started) + 1
  BY <1>1, CountBelow DEF Started
<1>3. QED
  BY <1>1, <1>2 DEF IInv, Counts, HandlersKnown, StartRequest

(* The request that starts has the last id, and it alone. *)
LEMMA StartIds ==
  ASSUME IInv, NEW r \in Requests, StartRequest(r)
  PROVE  /\ request_id' \in [Requests -> Requests \cup {None}]
         /\ next_request_id' \in 1 .. (MaxRequests + 1)
         /\ \A q \in Requests : request_id'[q] = IF q = r THEN next_request_id
                                                 ELSE request_id[q]
         /\ \A q \in Requests : request_id'[q] # None => request_id'[q] < next_request_id'
         /\ \A p, q \in Requests :
               request_id'[p] = request_id'[q] /\ request_id'[p] # None => p = q
<1>1. /\ next_request_id \in Requests /\ request_id[r] = None
      /\ next_request_id' = next_request_id + 1
      /\ request_id' = [request_id EXCEPT ![r] = next_request_id]
      /\ request_id \in [Requests -> Requests \cup {None}]
  BY StartFacts DEF IInv, TypeOK
<1>2. next_request_id' \in 1 .. (MaxRequests + 1)
  BY <1>1, SemanticAssumption DEF Requests
<1>3. \A q \in Requests : request_id[q] # None =>
         request_id[q] < next_request_id /\ request_id[q] \in Nat
  BY <1>1, NoneApart DEF IInv, HandlersKnown
<1>4. \A q \in Requests : request_id'[q] = IF q = r THEN next_request_id ELSE request_id[q]
  BY <1>1
<1>5. \A q \in Requests : request_id'[q] # None => request_id'[q] < next_request_id'
  BY <1>1, <1>3, <1>4, NoneApart
<1>6. \A p, q \in Requests :
         request_id'[p] = request_id'[q] /\ request_id'[p] # None => p = q
  <2>1. next_request_id # None /\ next_request_id \in Nat
    BY <1>1, NoneApart
  <2>2. \A q \in Requests : request_id[q] # next_request_id
    BY <1>3, <2>1
  <2>3. QED
    BY <1>4, <2>2 DEF IInv, IdsUsedOnce
<1>7. QED
  BY <1>1, <1>2, <1>4, <1>5, <1>6

LEMMA StartInv ==
  ASSUME IInv, NEW r \in Requests, Start(r) PROVE IInv'
<1> DEFINE u == held[r].upstream
<1>1. /\ pc[r] = "sent" /\ r \in InFlight /\ r \notin Running
      /\ next_request_id \in Requests
      /\ next_request_id' = next_request_id + 1
      /\ Cardinality(Started \cup {r}) = Cardinality(Started) + 1
      /\ cancel_rx[r] = "none" /\ ~HasTokens(r) /\ u \in Upstreams
      /\ active_request' = next_request_id
      /\ UNCHANGED <<documentVars, clientVars, tokenVars, answer>>
  BY StartFacts DEF Start
<1>2. /\ request_id' \in [Requests -> Requests \cup {None}]
      /\ next_request_id' \in 1 .. (MaxRequests + 1)
      /\ \A q \in Requests : request_id'[q] = IF q = r THEN next_request_id
                                              ELSE request_id[q]
      /\ \A q \in Requests : request_id'[q] # None => request_id'[q] < next_request_id'
      /\ \A p, q \in Requests :
            request_id'[p] = request_id'[q] /\ request_id'[p] # None => p = q
  BY StartIds DEF Start
<1>3. subscribers[u] = None
  <2> SUFFICES ASSUME subscribers[u] # None PROVE FALSE
    OBVIOUS
  <2>1. subscribers[u] \in Requests
    BY <1>1 DEF IInv, TypeOK
  <2>2. subscribers[u] \in Running /\ held[subscribers[u]].upstream = u
    BY <1>1, <2>1 DEF IInv, SubscribersRun
  <2>3. subscribers[u] = r
    BY <1>1, <2>2 DEF IInv, IdsUsedOnce, Running
  <2>4. QED
    BY <1>1, <2>2, <2>3
<1>4. /\ subscribers' = [subscribers EXCEPT ![u] = r]
      /\ cancel_rx' = [cancel_rx EXCEPT ![r] = "open"]
  BY <1>3 DEF Start, Subscribe
<1>5. /\ pc' = [pc EXCEPT ![r] = "waiting"]
      /\ held' = [held EXCEPT ![r] = [held[r] EXCEPT !.edits = edits]]
  BY DEF Start, Goto
<1>6. /\ pc \in [Requests -> Places] /\ held \in [Requests -> Locals]
      /\ subscribers \in [Upstreams -> Requests \cup {None}]
      /\ cancel_rx \in [Requests -> {"none", "open", "notified"}]
      /\ edits \in 0 .. MaxEdits
  BY DEF IInv, TypeOK
<1>7. /\ [held[r] EXCEPT !.edits = edits] \in Locals
      /\ [held[r] EXCEPT !.edits = edits].upstream = u
  BY <1>6 DEF Locals
<1> HIDE DEF u
<1>8. \A q \in Requests : held'[q].upstream = held[q].upstream
                          /\ (q # r => held'[q] = held[q])
  BY <1>5, <1>6, <1>7 DEF u
<1>9. TypeOK'
  <2>1. pc' \in [Requests -> Places] /\ held' \in [Requests -> Locals]
    BY <1>5, <1>6, <1>7 DEF Places
  <2>2. /\ subscribers' \in [Upstreams -> Requests \cup {None}]
        /\ cancel_rx' \in [Requests -> {"none", "open", "notified"}]
    BY <1>1, <1>4, <1>6
  <2>3. QED
    BY <1>1, <1>2, <2>1, <2>2
    DEF IInv, TypeOK, documentVars, clientVars, tokenVars
<1>10. /\ InFlight' = InFlight /\ Running' = Running \cup {r}
       /\ Started' = Started \cup {r} /\ Tokened' = Tokened
  <2>1. InFlight' = InFlight /\ Running' = Running \cup {r} /\ Tokened' = Tokened
    BY <1>1, <1>5, <1>6 DEF InFlight, Running, Tokened, HasTokens
  <2>2. Started' = Started \cup {r}
    BY <1>1, <1>2, NoneApart DEF Started
  <2>3. QED
    BY <2>1, <2>2
<1>11. Counts'
  BY <1>1, <1>10 DEF IInv, Counts, tokenVars
<1>12. HandlersKnown'
  <2> SUFFICES ASSUME NEW q \in Requests
               PROVE  /\ HasTokens(q)' => /\ pc'[q] = "done"
                                          /\ answer'[q].result \in ResultIds
                                          /\ answer'[q].result < next_result_id'
                                          /\ request_id'[q] # None
                      /\ pc'[q] \in {"unsent", "sent"} => request_id'[q] = None
                      /\ q \in Running' => request_id'[q] # None
                      /\ request_id'[q] # None => request_id'[q] < next_request_id'
                      /\ pc'[q] \in {"parsing", "computing"} => held'[q].text \in Texts
                      /\ q \in InFlight' => held'[q].upstream \in Upstreams
                      /\ pc'[q] \in {"unsent", "sent"} => cancel_rx'[q] = "none"
                      /\ q \in Running' => cancel_rx'[q] # "none"
    BY DEF HandlersKnown
  <2>1. CASE q = r
    BY <1>1, <1>2, <1>4, <1>5, <1>6, <1>8, <1>10, <2>1, NoneApart
    DEF HasTokens, u
  <2>2. CASE q # r
    BY <1>1, <1>2, <1>4, <1>5, <1>6, <1>8, <1>10, <2>2
    DEF IInv, HandlersKnown, HasTokens, tokenVars
  <2>3. QED
    BY <2>1, <2>2
<1>13. IdsUsedOnce'
  <2>1. InFlight \subseteq Requests
    BY DEF InFlight
  <2>2. QED
    BY <1>2, <1>8, <1>10, <2>1 DEF IInv, IdsUsedOnce
<1>14. ActiveIsLast'
  BY <1>1 DEF ActiveIsLast
<1>15. ClientHasCached' /\ ResultsComputed' /\ CacheOfOpenDocument'
  BY <1>1 DEF IInv, ClientHasCached, ResultsComputed, CacheOfOpenDocument,
     documentVars, clientVars, tokenVars
<1>16. AnswersInOrder'
  <2>1. \A q \in Requests : HasTokens(q)' <=> HasTokens(q)
    BY <1>1 DEF HasTokens
  <2>2. \A q \in Requests : HasTokens(q) => request_id'[q] = request_id[q]
    BY <1>1, <1>2
  <2>3. QED
    BY <1>1, <2>1, <2>2 DEF IInv, AnswersInOrder
<1>17. SubscribersRun'
  <2> SUFFICES ASSUME NEW w \in Upstreams, NEW q \in Requests
               PROVE  subscribers'[w] = q <=>
                        /\ q \in Running' /\ held'[q].upstream = w
                        /\ cancel_rx'[q] # "notified"
    BY DEF SubscribersRun
  <2>1. subscribers[w] = q <=>
          q \in Running /\ held[q].upstream = w /\ cancel_rx[q] # "notified"
    BY DEF IInv, SubscribersRun
  <2>2. CASE q = r
    <3>1. subscribers[w] # r
      BY <1>1, <2>1, <2>2
    <3>2. QED
      BY <1>1, <1>4, <1>6, <1>8, <1>10, <2>2, <3>1 DEF u
  <2>3. CASE q # r /\ w = u
    <3>1. ~(q \in Running /\ held[q].upstream = u)
      BY <1>1, <2>3 DEF IInv, IdsUsedOnce, Running, u
    <3>2. QED
      BY <1>4, <1>6, <1>8, <1>10, <2>3, <3>1
  <2>4. CASE q # r /\ w # u
    BY <1>4, <1>6, <1>8, <1>10, <2>1, <2>4
  <2>5. QED
    BY <2>2, <2>3, <2>4
<1>18. CancelHeeded'
  BY <1>1, <1>4, <1>6 DEF IInv, CancelHeeded, HasTokens
<1>19. QED
  BY <1>9, <1>11, <1>12, <1>13, <1>14, <1>15, <1>16, <1>17, <1>18 DEF IInv
-----------------------------------------------------------------------------
(* A handler ends: whatever it answers, it leaves no subscription. *)
LEMMA ReturnFacts ==
  ASSUME IInv, NEW r \in InFlight, NEW a \in Answers, Return(r, a),
         a.type = "tokens" => cancel_rx[r] # "notified"
  PROVE  /\ pc' \in [Requests -> Places] /\ held' \in [Requests -> Locals]
         /\ answer' \in [Requests -> Answers] /\ cancelled' \subseteq Requests
         /\ subscribers' \in [Upstreams -> Requests \cup {None}]
         /\ cancel_rx' \in [Requests -> {"none", "open", "notified"}]
         /\ UNCHANGED documentVars
         /\ pc'[r] = "done" /\ answer'[r] = a
         /\ \A q \in Requests \ {r} : /\ pc'[q] = pc[q] /\ held'[q] = held[q]
                                      /\ answer'[q] = answer[q]
                                      /\ cancel_rx'[q] = cancel_rx[q]
         /\ InFlight' = InFlight \ {r} /\ Running' = Running \ {r}
         /\ SubscribersRun' /\ CancelHeeded'
<1> DEFINE u == held[r].upstream
<1>1. /\ r \in Requests /\ u \in Upstreams
      /\ pc \in [Requests -> Places] /\ held \in [Requests -> Locals]
      /\ answer \in [Requests -> Answers] /\ cancelled \subseteq Requests
      /\ subscribers \in [Upstreams -> Requests \cup {None}]
      /\ cancel_rx \in [Requests -> {"none", "open", "notified"}]
  BY DEF IInv, TypeOK, InFlight, HandlersKnown
<1>2. /\ pc' = [pc EXCEPT ![r] = "done"] /\ held' = [held EXCEPT ![r] = NoLocals]
      /\ answer' = [answer EXCEPT ![r] = a] /\ cancelled' = cancelled \ {r}
      /\ cancel_rx' = [cancel_rx EXCEPT ![r] = IF @ = "open" THEN "none" ELSE @]
      /\ subscribers' = IF cancel_rx[r] = "none" THEN subscribers
                        ELSE [subscribers EXCEPT ![u] = None]
      /\ UNCHANGED documentVars
  BY DEF Return, Goto, DropGuard
<1>3. NoLocals \in Locals
  BY SemanticAssumption DEF NoLocals, Locals
<1> HIDE DEF u
<1>4. /\ pc' \in [Requests -> Places] /\ held' \in [Requests -> Locals]
      /\ answer' \in [Requests -> Answers] /\ cancelled' \subseteq Requests
      /\ subscribers' \in [Upstreams -> Requests \cup {None}]
      /\ cancel_rx' \in [Requests -> {"none", "open", "notified"}]
  <2>1. pc' \in [Requests -> Places] /\ held' \in [Requests -> Locals]
    BY <1>1, <1>2, <1>3 DEF Places
  <2>2. answer' \in [Requests -> Answers] /\ cancelled' \subseteq Requests
    BY <1>1, <1>2
  <2>3. /\ subscribers' \in [Upstreams -> Requests \cup {None}]
        /\ cancel_rx' \in [Requests -> {"none", "open", "notified"}]
    BY <1>1, <1>2
  <2>4. QED
    BY <2>1, <2>2, <2>3
<1>5. /\ pc'[r] = "done" /\ answer'[r] = a
      /\ cancel_rx'[r] = IF cancel_rx[r] = "open" THEN "none" ELSE cancel_rx[r]
      /\ \A q \in Requests \ {r} : /\ pc'[q] = pc[q] /\ held'[q] = held[q]
                                   /\ answer'[q] = answer[q]
                                   /\ cancel_rx'[q] = cancel_rx[q]
  BY <1>1, <1>2
<1>6. InFlight' = InFlight \ {r} /\ Running' = Running \ {r}
  BY <1>1, <1>5 DEF InFlight, Running
<1>7. SubscribersRun'
  <2> SUFFICES ASSUME NEW w \in Upstreams, NEW q \in Requests
               PROVE  subscribers'[w] = q <=>
                        /\ q \in Running' /\ held'[q].upstream = w
                        /\ cancel_rx'[q] # "notified"
    BY DEF SubscribersRun
  <2>1. \A o \in Requests : subscribers[w] = o <=>
          o \in Running /\ held[o].upstream = w /\ cancel_rx[o] # "notified"
    BY DEF IInv, SubscribersRun
  <2>2. cancel_rx[r] = "none" => r \notin Running
    BY <1>1 DEF IInv, HandlersKnown
  <2>3. CASE q = r
    <3>1. subscribers'[w] # r
      <4>1. CASE cancel_rx[r] = "none"
        BY <1>1, <1>2, <2>1, <2>2, <4>1
      <4>2. CASE cancel_rx[r] # "none" /\ w = u
        BY <1>1, <1>2, <4>2, NoneApart
      <4>3. CASE cancel_rx[r] # "none" /\ w # u
        <5>1. subscribers'[w] = subscribers[w]
          BY <1>1, <1>2, <4>3
        <5>2. QED
          BY <1>1, <2>1, <4>3, <5>1 DEF u
      <4>4. QED
        BY <4>1, <4>2, <4>3
    <3>2. QED
      BY <1>6, <2>3, <3>1
  <2>4. CASE q # r
    <3>1. /\ held'[q] = held[q] /\ cancel_rx'[q] = cancel_rx[q]
          /\ q \in Running' <=> q \in Running
      BY <1>5, <1>6, <2>4
    <3>2. CASE cancel_rx[r] = "none" \/ w # u
      <4>1. subscribers'[w] = subscribers[w]
        BY <1>1, <1>2, <3>2
      <4>2. QED
        BY <2>1, <3>1, <4>1
    <3>3. CASE cancel_rx[r] # "none" /\ w = u
      <4>1. subscribers'[w] # q
        BY <1>1, <1>2, <3>3, NoneApart
      <4>2. ~(q \in Running /\ held[q].upstream = u)
        BY <2>4 DEF IInv, IdsUsedOnce, Running, u
      <4>3. QED
        BY <3>1, <3>3, <4>1, <4>2
    <3>4. QED
      BY <3>2, <3>3
  <2>5. QED
    BY <2>3, <2>4
<1>8. CancelHeeded'
  <2> SUFFICES ASSUME NEW q \in Requests, cancel_rx'[q] = "notified"
               PROVE  answer'[q].type # "tokens"
    BY DEF CancelHeeded, HasTokens
  <2>1. CASE q = r
    BY <1>5, <2>1
  <2>2. CASE q # r
    BY <1>5, <2>2 DEF IInv, CancelHeeded, HasTokens
  <2>3. QED
    BY <2>1, <2>2
<1>9. QED
  BY <1>2, <1>4, <1>5, <1>6, <1>7, <1>8

(* What the tracker has of the handlers when r has ended. *)
TrackedAt(r) ==
  /\ request_id' \in [Requests -> Requests \cup {None}]
  /\ next_request_id' \in 1 .. (MaxRequests + 1)
  /\ next_request_id' = Cardinality(Started') + 1
  /\ \A q \in Requests \ {r} : request_id'[q] = request_id[q]
  /\ \A q \in Requests : request_id'[q] # None => request_id'[q] < next_request_id'
  /\ \A p, q \in Requests :
        request_id'[p] = request_id'[q] /\ request_id'[p] # None => p = q
  /\ \/ active_request' = None
     \/ active_request' = active_request /\ next_request_id' = next_request_id

LEMMA EndUntracked ==
  ASSUME IInv, NEW r \in InFlight, UNCHANGED <<next_request_id, request_id>>,
         active_request' \in {None, active_request}
  PROVE  TrackedAt(r)
<1>1. Started' = Started
  BY DEF Started
<1>2. QED
  BY <1>1 DEF IInv, TypeOK, Counts, HandlersKnown, IdsUsedOnce, TrackedAt

LEMMA EndAtStart ==
  ASSUME IInv, NEW r \in Requests, StartRequest(r), active_request' = None
  PROVE  TrackedAt(r)
<1>1. /\ request_id' \in [Requests -> Requests \cup {None}]
      /\ next_request_id' \in 1 .. (MaxRequests + 1)
      /\ \A q \in Requests : request_id'[q] = IF q = r THEN next_request_id
                                              ELSE request_id[q]
      /\ \A q \in Requests : request_id'[q] # None => request_id'[q] < next_request_id'
      /\ \A p, q \in Requests :
            request_id'[p] = request_id'[q] /\ request_id'[p] # None => p = q
  BY StartIds
<1>2. next_request_id' = Cardinality(Started \cup {r}) + 1
  BY StartFacts DEF IInv, Counts
<1>3. Started' = Started \cup {r}
  <2>1. next_request_id # None
    BY StartFacts, NoneApart
  <2>2. \A q \in Requests : request_id'[q] # None <=> q \in Started \cup {r}
    BY <1>1, <2>1 DEF Started
  <2>3. QED
    BY <2>2 DEF Started
<1>4. QED
  BY <1>1, <1>2, <1>3 DEF TrackedAt

(* A handler ends without tokens. *)
LEMMA EndWithoutTokens ==
  ASSUME IInv, NEW r \in InFlight, NEW a \in Answers, a.type # "tokens", Return(r, a),
         TrackedAt(r), UNCHANGED <<client_tokens, client_result, tokenVars>>
  PROVE  IInv'
<1>1. /\ pc' \in [Requests -> Places] /\ held' \in [Requests -> Locals]
      /\ answer' \in [Requests -> Answers] /\ cancelled' \subseteq Requests
      /\ subscribers' \in [Upstreams -> Requests \cup {None}]
      /\ cancel_rx' \in [Requests -> {"none", "open", "notified"}]
      /\ UNCHANGED documentVars
      /\ pc'[r] = "done" /\ answer'[r] = a
      /\ \A q \in Requests \ {r} : /\ pc'[q] = pc[q] /\ held'[q] = held[q]
                                   /\ answer'[q] = answer[q]
                                   /\ cancel_rx'[q] = cancel_rx[q]
      /\ InFlight' = InFlight \ {r} /\ Running' = Running \ {r}
      /\ SubscribersRun' /\ CancelHeeded'
  BY ReturnFacts
<1>2. r \in Requests /\ ~HasTokens(r)
  BY DEF InFlight, IInv, HandlersKnown
<1>3. \A q \in Requests : HasTokens(q)' <=> HasTokens(q)
  BY <1>1, <1>2 DEF HasTokens
<1>4. Tokened' = Tokened
  BY <1>3 DEF Tokened
<1>5. TypeOK'
  BY <1>1 DEF IInv, TypeOK, TrackedAt, documentVars, tokenVars
<1>6. Counts'
  BY <1>1, <1>4 DEF IInv, Counts, TrackedAt, tokenVars
<1>7. HandlersKnown'
  <2> SUFFICES ASSUME NEW q \in Requests
               PROVE  /\ HasTokens(q)' => /\ pc'[q] = "done"
                                          /\ answer'[q].result \in ResultIds
                                          /\ answer'[q].result < next_result_id'
                                          /\ request_id'[q] # None
                      /\ pc'[q] \in {"unsent", "sent"} => request_id'[q] = None
                      /\ q \in Running' => request_id'[q] # None
                      /\ request_id'[q] # None => request_id'[q] < next_request_id'
                      /\ pc'[q] \in {"parsing", "computing"} => held'[q].text \in Texts
                      /\ q \in InFlight' => held'[q].upstream \in Upstreams
                      /\ pc'[q] \in {"unsent", "sent"} => cancel_rx'[q] = "none"
                      /\ q \in Running' => cancel_rx'[q] # "none"
    BY DEF HandlersKnown
  <2>1. CASE q = r
    BY <1>1, <1>2, <1>3, <2>1 DEF TrackedAt
  <2>2. CASE q # r
    BY <1>1, <1>3, <2>2 DEF IInv, HandlersKnown, TrackedAt, tokenVars, InFlight, Running
  <2>3. QED
    BY <2>1, <2>2
<1>8. IdsUsedOnce'
  <2>1. \A q \in InFlight' : q \in InFlight /\ held'[q] = held[q]
    BY <1>1 DEF InFlight
  <2>2. QED
    BY <2>1 DEF IInv, IdsUsedOnce, TrackedAt
<1>9. ActiveIsLast'
  BY DEF IInv, ActiveIsLast, TrackedAt
<1>10. ClientHasCached' /\ ResultsComputed' /\ CacheOfOpenDocument'
  BY <1>1 DEF IInv, ClientHasCached, ResultsComputed, CacheOfOpenDocument,
     documentVars, tokenVars
<1>11. AnswersInOrder'
  <2>1. \A q \in Requests : HasTokens(q)' =>
          /\ HasTokens(q) /\ request_id'[q] = request_id[q] /\ answer'[q] = answer[q]
    BY <1>1, <1>2, <1>3 DEF TrackedAt
  <2>2. QED
    BY <2>1 DEF IInv, AnswersInOrder
<1>12. QED
  BY <1>1, <1>5, <1>6, <1>7, <1>8, <1>9, <1>10, <1>11 DEF IInv
-----------------------------------------------------------------------------
(* A handler goes on with the text that is stored. *)
LEMMA WorkInv ==
  ASSUME IInv, NEW r \in Requests, NEW l \in {"parsing", "computing"},
         r \in Running, document # None, Work(r, l)
  PROVE  IInv'
<1>1. /\ pc' = [pc EXCEPT ![r] = l]
      /\ held' = [held EXCEPT ![r] = [held[r] EXCEPT !.text = document]]
      /\ UNCHANGED <<documentVars, clientVars, cancelVars, trackerVars, tokenVars,
                     request_id, answer>>
  BY DEF Work, Goto
<1>2. /\ pc \in [Requests -> Places] /\ held \in [Requests -> Locals]
      /\ document \in Texts /\ pc[r] \notin {"unsent", "sent", "done"}
  BY DEF IInv, TypeOK, Running, InFlight
<1>3. /\ [held[r] EXCEPT !.text = document] \in Locals
      /\ [held[r] EXCEPT !.text = document].upstream = held[r].upstream
      /\ [held[r] EXCEPT !.text = document].text = document
  BY <1>2 DEF Locals
<1>4. /\ \A q \in Requests : held'[q].upstream = held[q].upstream
      /\ \A q \in Requests \ {r} : held'[q] = held[q] /\ pc'[q] = pc[q]
      /\ held'[r].text = document /\ pc'[r] = l
  BY <1>1, <1>2, <1>3
<1>5. pc' \in [Requests -> Places] /\ held' \in [Requests -> Locals]
  BY <1>1, <1>2, <1>3 DEF Places
<1>6. TypeOK'
  BY <1>1, <1>5
  DEF IInv, TypeOK, documentVars, clientVars, cancelVars, trackerVars, tokenVars
<1>7. /\ InFlight' = InFlight /\ Running' = Running /\ Started' = Started
      /\ Tokened' = Tokened
  BY <1>1, <1>2, <1>4 DEF InFlight, Running, Started, Tokened, HasTokens
<1>8. Counts' /\ HandlersKnown'
  <2>1. ~HasTokens(r)
    BY <1>2 DEF IInv, HandlersKnown
  <2>2. QED
    BY <1>1, <1>2, <1>4, <1>7, <2>1
    DEF IInv, Counts, HandlersKnown, HasTokens, cancelVars, trackerVars, tokenVars
<1>9. IdsUsedOnce'
  <2>1. InFlight \subseteq Requests
    BY DEF InFlight
  <2>2. QED
    BY <1>1, <1>4, <1>7, <2>1 DEF IInv, IdsUsedOnce
<1>10. ActiveIsLast' /\ ClientHasCached' /\ ResultsComputed' /\ CacheOfOpenDocument'
       /\ AnswersInOrder' /\ CancelHeeded'
  BY <1>1 DEF IInv, ActiveIsLast, ClientHasCached, ResultsComputed, CacheOfOpenDocument,
     AnswersInOrder, CancelHeeded, HasTokens, documentVars, clientVars, cancelVars,
     trackerVars, tokenVars
<1>11. SubscribersRun'
  BY <1>1, <1>4, <1>7 DEF IInv, SubscribersRun, cancelVars
<1>12. QED
  BY <1>6, <1>8, <1>9, <1>10, <1>11 DEF IInv

(* The tokens t of r, whose text is stored and which was not superseded. *)
StoreTokens(r, t) ==
  /\ next_result_id' = next_result_id + 1
  /\ cache' = [result |-> next_result_id, tokens |-> t]
  /\ Receive(r, t)
  /\ Return(r, Answer("tokens", next_result_id)) /\ FinishRequest(r)
  /\ UNCHANGED <<next_request_id, request_id>>

LEMMA StoreInv ==
  ASSUME IInv, NEW r \in Requests, pc[r] = "computing", NotCancelled(r), ~Stale(r),
         IsActive(r), NEW t \in {TokensOf[x] : x \in Texts} \cup {NoTokens},
         StoreTokens(r, t)
  PROVE  IInv'
<1> DEFINE a == Answer("tokens", next_result_id)
<1>1. r \in InFlight /\ r \in Running /\ ~HasTokens(r) /\ r \notin Tokened
  BY DEF InFlight, Running, IInv, HandlersKnown, Tokened
<1>2. /\ next_result_id \in ResultIds
      /\ Cardinality(Tokened \cup {r}) = next_result_id
  <2>1. Tokened \in SUBSET Requests
    BY DEF Tokened
  <2>2. /\ Cardinality(Tokened) + 1 \in Requests
        /\ Cardinality(Tokened \cup {r}) = Cardinality(Tokened) + 1
    BY <1>1, <2>1, CountBelow
  <2>3. QED
    BY <2>2, NoneApart DEF IInv, Counts
<1>3. a \in Answers /\ a.type = "tokens" /\ a.result = next_result_id
  BY <1>2 DEF Answer, Answers
<1>4. Return(r, a) /\ cancel_rx[r] # "notified"
  BY DEF StoreTokens, NotCancelled
<1> HIDE DEF a
<1>5. /\ pc' \in [Requests -> Places] /\ held' \in [Requests -> Locals]
      /\ answer' \in [Requests -> Answers] /\ cancelled' \subseteq Requests
      /\ subscribers' \in [Upstreams -> Requests \cup {None}]
      /\ cancel_rx' \in [Requests -> {"none", "open", "notified"}]
      /\ UNCHANGED documentVars
      /\ pc'[r] = "done" /\ answer'[r] = a
      /\ \A q \in Requests \ {r} : /\ pc'[q] = pc[q] /\ held'[q] = held[q]
                                   /\ answer'[q] = answer[q]
                                   /\ cancel_rx'[q] = cancel_rx[q]
      /\ InFlight' = InFlight \ {r} /\ Running' = Running \ {r}
      /\ SubscribersRun' /\ CancelHeeded'
  BY <1>1, <1>3, <1>4, ReturnFacts
<1>6. TrackedAt(r)
  BY <1>1, EndUntracked DEF StoreTokens, FinishRequest
<1>7. /\ next_result_id' = next_result_id + 1
      /\ cache' = [result |-> next_result_id, tokens |-> t]
      /\ client_result' = next_result_id
      /\ UNCHANGED <<next_request_id, request_id>>
  BY DEF StoreTokens, Receive
<1>8. client_tokens' = [client_tokens EXCEPT ![next_result_id] = t]
  <2>1. /\ TokensIfValid(r) # None =>
             /\ client_tokens[held[r].previous] = TokensIfValid(r)
             /\ TokensIfValid(r) \in Tokens
    BY DEF IInv, TypeOK, ClientHasCached, TokensIfValid
  <2>2. t \in Tokens
    BY NoneApart
  <2>3. Received(r, t) = t
    BY <2>1, <2>2, DeltaLeads DEF Received, Tokens
  <2>4. QED
    BY <2>3 DEF StoreTokens, Receive
<1>9. client_tokens \in [ResultIds -> Tokens \cup {None}]
  BY DEF IInv, TypeOK
<1>10. client_tokens' \in [ResultIds -> Tokens \cup {None}]
  <2>1. t \in Tokens
    BY NoneApart
  <2>2. QED
    BY <1>2, <1>8, <1>9, <2>1
<1>11. next_result_id' \in 1 .. (MaxRequests + 1) /\ next_result_id \in Nat
  BY <1>2, <1>7, SemanticAssumption DEF ResultIds
<1>12. cache' \in [result : ResultIds, tokens : Tokens] \cup {None}
  <2>1. t \in Tokens
    BY NoneApart
  <2>2. QED
    BY <1>2, <1>7, <2>1
<1>13. active_request' \in Requests \cup {None}
  BY <1>6 DEF IInv, TypeOK, TrackedAt
<1>14. TypeOK'
  BY <1>2, <1>5, <1>6, <1>7, <1>10, <1>11, <1>12, <1>13
  DEF IInv, TypeOK, TrackedAt, documentVars
<1>15. \A q \in Requests : HasTokens(q)' <=> HasTokens(q) \/ q = r
  BY <1>3, <1>5 DEF HasTokens
<1>16. Counts'
  <2>1. Tokened' = Tokened \cup {r}
    BY <1>15 DEF Tokened
  <2>2. QED
    BY <1>2, <1>6, <1>7, <2>1 DEF Counts, TrackedAt
<1>17. HandlersKnown'
  <2> SUFFICES ASSUME NEW q \in Requests
               PROVE  /\ HasTokens(q)' => /\ pc'[q] = "done"
                                          /\ answer'[q].result \in ResultIds
                                          /\ answer'[q].result < next_result_id'
                                          /\ request_id'[q] # None
                      /\ pc'[q] \in {"unsent", "sent"} => request_id'[q] = None
                      /\ q \in Running' => request_id'[q] # None
                      /\ request_id'[q] # None => request_id'[q] < next_request_id'
                      /\ pc'[q] \in {"parsing", "computing"} => held'[q].text \in Texts
                      /\ q \in InFlight' => held'[q].upstream \in Upstreams
                      /\ pc'[q] \in {"unsent", "sent"} => cancel_rx'[q] = "none"
                      /\ q \in Running' => cancel_rx'[q] # "none"
    BY DEF HandlersKnown
  <2>1. CASE q = r
    BY <1>1, <1>2, <1>3, <1>5, <1>6, <1>7, <1>11, <2>1
    DEF IInv, HandlersKnown, TrackedAt
  <2>2. CASE q # r
    <3>1. HasTokens(q)' => /\ pc'[q] = "done"
                           /\ answer'[q].result \in ResultIds
                           /\ answer'[q].result < next_result_id'
                           /\ request_id'[q] # None
      <4>1. HasTokens(q)' => HasTokens(q)
        BY <1>15, <2>2
      <4>2. HasTokens(q) => /\ pc[q] = "done" /\ answer[q].result \in ResultIds
                            /\ answer[q].result < next_result_id
                            /\ request_id[q] # None
        BY DEF IInv, HandlersKnown
      <4>3. \A i \in ResultIds : i < next_result_id => i < next_result_id'
        BY <1>7, <1>11, NoneApart
      <4>4. pc'[q] = pc[q] /\ answer'[q] = answer[q] /\ request_id'[q] = request_id[q]
        BY <1>5, <1>7, <2>2
      <4>5. QED
        BY <4>1, <4>2, <4>3, <4>4
    <3>2. QED
      BY <1>5, <1>7, <2>2, <3>1 DEF IInv, HandlersKnown, InFlight, Running
  <2>3. QED
    BY <2>1, <2>2
<1>18. IdsUsedOnce'
  <2>1. \A q \in InFlight' : q \in InFlight /\ held'[q] = held[q]
    BY <1>5 DEF InFlight
  <2>2. QED
    BY <2>1, <1>6 DEF IInv, IdsUsedOnce, TrackedAt
<1>19. ActiveIsLast'
  BY <1>6 DEF IInv, ActiveIsLast, TrackedAt
<1>20. ClientHasCached'
  BY <1>2, <1>7, <1>8, <1>9 DEF ClientHasCached
<1>21. ResultsComputed'
  BY <1>2, <1>8, <1>9, NoneApart DEF IInv, ResultsComputed
<1>22. CacheOfOpenDocument'
  BY <1>1, <1>5, NoneApart
  DEF IInv, HandlersKnown, Stale, CacheOfOpenDocument, documentVars
<1>23. AnswersInOrder'
  <2> SUFFICES ASSUME NEW p \in Requests, NEW q \in Requests, HasTokens(p)',
                      HasTokens(q)', request_id'[p] < request_id'[q]
               PROVE  answer'[p].result < answer'[q].result
    BY DEF AnswersInOrder
  <2>1. CASE p # r /\ q # r
    BY <1>5, <1>7, <1>15, <2>1 DEF IInv, AnswersInOrder
  <2>2. CASE q = r /\ p # r
    BY <1>3, <1>5, <1>15, <2>2 DEF IInv, HandlersKnown
  <2>3. request_id[r] \in Nat /\ request_id[r] + 1 = next_request_id
    BY <1>1, NoneApart DEF IInv, TypeOK, HandlersKnown, ActiveIsLast, IsActive
  <2>4. request_id[q] \in Nat /\ request_id[q] < request_id[r] + 1
    BY <1>1, <1>15, <2>3, NoneApart DEF IInv, TypeOK, HandlersKnown
  <2>5. p # r
    BY <1>7, <2>3, <2>4
  <2>6. QED
    BY <2>1, <2>2, <2>5
<1>24. QED
  BY <1>5, <1>14, <1>16, <1>17, <1>18, <1>19, <1>20, <1>21, <1>22, <1>23 DEF IInv
-----------------------------------------------------------------------------
(* The steps that end a handler without tokens. *)
LEMMA GiveUpInv ==
  ASSUME IInv, NEW r \in InFlight, NEW a \in Answers, a.type # "tokens",
         GiveUp(r, a) \/ Superseded(r)
  PROVE  IInv'
<1>1. CASE GiveUp(r, a)
  <2>1. TrackedAt(r)
    BY <1>1, EndUntracked DEF GiveUp, FinishRequest
  <2>2. QED
    BY <1>1, <2>1, EndWithoutTokens DEF GiveUp
<1>2. CASE Superseded(r)
  <2> DEFINE b == Answer("null", None)
  <2>1. b \in Answers /\ b.type # "tokens"
    BY DEF Answer, Answers
  <2>2. TrackedAt(r)
    BY <1>2, EndUntracked DEF Superseded, trackerVars
  <2>3. Return(r, b) /\ UNCHANGED <<client_tokens, client_result, tokenVars>>
    BY <1>2 DEF Superseded
  <2> HIDE DEF b
  <2>4. QED
    BY <2>1, <2>2, <2>3, EndWithoutTokens
<1>3. QED
  BY <1>1, <1>2

LEMMA AnswersTyped ==
  \A l \in {"empty", "null", "cancelled"} :
     Answer(l, None) \in Answers /\ Answer(l, None).type # "tokens"
BY DEF Answer, Answers

LEMMA HandleInv ==
  ASSUME IInv, NEW r \in Requests, Handle(r) PROVE IInv'
<1>1. CASE Start(r)
  BY <1>1, StartInv
<1>2. CASE StartWithoutLanguage(r)
  <2> DEFINE a == Answer("empty", None)
  <2>1. a \in Answers /\ a.type # "tokens"
    BY AnswersTyped
  <2>2. r \in InFlight /\ TrackedAt(r)
    BY <1>2, StartFacts, EndAtStart DEF StartWithoutLanguage
  <2>3. Return(r, a) /\ UNCHANGED <<client_tokens, client_result, tokenVars>>
    BY <1>2 DEF StartWithoutLanguage
  <2> HIDE DEF a
  <2>4. QED
    BY <2>1, <2>2, <2>3, EndWithoutTokens
<1>3. CASE GetTree(r)
  <2>1. r \in InFlight /\ r \in Running
    BY <1>3 DEF GetTree, InFlight, Running
  <2>2. \/ GiveUp(r, Answer("empty", None)) \/ Superseded(r)
        \/ document # None /\ Work(r, "parsing")
        \/ document # None /\ Work(r, "computing")
    BY <1>3 DEF GetTree
  <2>3. QED
    BY <2>1, <2>2, AnswersTyped, GiveUpInv, WorkInv
<1>4. CASE ParseEnds(r)
  <2>1. r \in InFlight /\ r \in Running
    BY <1>4 DEF ParseEnds, InFlight, Running
  <2>2. \/ GiveUp(r, Answer("empty", None)) \/ Superseded(r)
        \/ document # None /\ Work(r, "computing")
    BY <1>4, NoneApart DEF ParseEnds, IInv, HandlersKnown
  <2>3. QED
    BY <2>1, <2>2, AnswersTyped, GiveUpInv, WorkInv
<1>5. CASE ComputeEnds(r)
  <2>1. r \in InFlight /\ pc[r] = "computing" /\ NotCancelled(r)
    BY <1>5 DEF ComputeEnds, InFlight
  <2>2. CASE GiveUp(r, Answer("null", None)) \/ Superseded(r)
    BY <2>1, <2>2, AnswersTyped, GiveUpInv
  <2>3. CASE ~Stale(r) /\ IsActive(r) /\ Store(r)
    <3>1. PICK t \in {TokensOf[held[r].text], NoTokens} : StoreTokens(r, t)
      BY <2>3 DEF Store, StoreTokens
    <3>2. t \in {TokensOf[x] : x \in Texts} \cup {NoTokens}
      BY <2>1, NoneApart DEF IInv, HandlersKnown
    <3>3. QED
      BY <2>1, <2>3, <3>1, <3>2, StoreInv
  <2>4. QED
    BY <1>5, <2>2, <2>3 DEF ComputeEnds
<1>6. CASE CancelSeen(r)
  <2>1. r \in InFlight /\ GiveUp(r, Answer("cancelled", None))
    BY <1>6 DEF CancelSeen, InFlight
  <2>2. QED
    BY <2>1, AnswersTyped, GiveUpInv
<1>7. QED
  BY <1>1, <1>2, <1>3, <1>4, <1>5, <1>6 DEF Handle

LEMMA DropFutureInv ==
  ASSUME IInv, NEW r \in Requests, DropFuture(r) PROVE IInv'
<1> DEFINE a == Answer("cancelled", None)
<1>1. a \in Answers /\ a.type # "tokens"
  BY AnswersTyped
<1>2. r \in InFlight /\ Return(r, a)
      /\ UNCHANGED <<client_tokens, client_result, tokenVars>>
  BY DEF DropFuture
<1>3. TrackedAt(r)
  BY <1>2, EndUntracked DEF DropFuture, trackerVars
<1> HIDE DEF a
<1>4. QED
  BY <1>1, <1>2, <1>3, EndWithoutTokens

LEMMA NextInv == IInv /\ [Next]_vars => IInv'
<1> SUFFICES ASSUME IInv, [Next]_vars PROVE IInv'
  OBVIOUS
<1>1. CASE OpenOrChange \/ Close \/ Send
  BY <1>1, OpenOrChangeInv, CloseInv, SendInv
<1>2. ASSUME NEW r \in Requests, CancelRequest(r) \/ Handle(r) \/ DropFuture(r)
      PROVE  IInv'
  BY <1>2, CancelRequestInv, HandleInv, DropFutureInv
<1>3. CASE UNCHANGED vars
  <2>1. UNCHANGED <<document, edits, cancelled, client_tokens, client_result, subscribers,
                    cancel_rx, active_request, next_request_id, next_result_id, cache,
                    pc, request_id, held, answer>>
    BY <1>3 DEF vars, documentVars, clientVars, cancelVars, trackerVars, tokenVars,
       handlerVars
  <2>2. TypeOK' /\ Counts'
    BY <2>1 DEF IInv, TypeOK, Counts, Started, Tokened, HasTokens
  <2>3. HandlersKnown' /\ IdsUsedOnce' /\ ActiveIsLast' /\ ClientHasCached'
    BY <2>1 DEF IInv, HandlersKnown, IdsUsedOnce, ActiveIsLast, ClientHasCached,
       HasTokens, InFlight, Running
  <2>4. /\ ResultsComputed' /\ CacheOfOpenDocument' /\ AnswersInOrder'
        /\ SubscribersRun' /\ CancelHeeded'
    BY <2>1 DEF IInv, ResultsComputed, CacheOfOpenDocument, AnswersInOrder,
       SubscribersRun, CancelHeeded, HasTokens, InFlight, Running
  <2>5. QED
    BY <2>2, <2>3, <2>4 DEF IInv
<1>4. QED
  BY <1>1, <1>2, <1>3 DEF Next

LEMMA Invariance == Spec => []IInv
  BY InitInv, NextInv, PTL DEF Spec
-----------------------------------------------------------------------------
(* Every variable has its type: next_request_id and next_result_id, which  *)
(* the code only ever increments, count the handlers and the results.      *)
THEOREM TypeCorrect == Spec => []TypeOK
<1>1. IInv => TypeOK
  BY DEF IInv
<1>2. QED
  BY Invariance, <1>1, PTL

(* What the client makes of deltas and full results are the tokens of the  *)
(* cache and of texts, for any number of requests, edits and texts and     *)
(* whatever the tokens of the texts are: deltas lead where they should     *)
(* (DeltaLeads), and are made from what the client has.                    *)
THEOREM DeltasFit == Spec => []DeltaFitsClient
<1>1. IInv => DeltaFitsClient
  BY DEF IInv, DeltaFitsClient
<1>2. QED
  BY Invariance, <1>1, PTL

(* The cache has nothing of a document that is closed: a request that      *)
(* outlives its document stores nothing.                                   *)
THEOREM ClosedIsForgotten == Spec => []CacheOfOpenDocument
<1>1. IInv => CacheOfOpenDocument
  BY DEF IInv
<1>2. QED
  BY Invariance, <1>1, PTL

(* A superseded request never replaces the tokens of a later one.          *)
THEOREM LaterRequestWins == Spec => []AnswersInOrder
<1>1. IInv => AnswersInOrder
  BY DEF IInv
<1>2. QED
  BY Invariance, <1>1, PTL

(* The subscribers are the handlers that run and were not informed.        *)
THEOREM SubscriptionsExact == Spec => []SubscribersRun
<1>1. IInv => SubscribersRun
  BY DEF IInv
<1>2. QED
  BY Invariance, <1>1, PTL

(* A handler that was informed of a cancel answers no tokens.              *)
THEOREM CancelWins == Spec => []CancelHeeded
<1>1. IInv => CancelHeeded
  BY DEF IInv
<1>2. QED
  BY Invariance, <1>1, PTL

(* Types, subscriptions, cancels and the cache, for any number of requests *)
(* and edits, and however the client uses its ids again.                   *)
THEOREM RequestsAreSafe == Spec => []RequestsSafe
BY TypeCorrect, ClosedIsForgotten, SubscriptionsExact, CancelWins, PTL
   DEF RequestsSafe
-----------------------------------------------------------------------------
(* Why a request is answered as it is.                                     *)

(* A request that is not the active one, or whose text is not the stored   *)
(* one, has been overtaken: by an edit, or by a request that started.      *)
Overtaken(r) ==
  edits > held[r].edits \/ request_id[r] + 1 < next_request_id

CauseInv ==
  \A r \in Running :
     /\ held[r].edits <= edits
     /\ active_request # request_id[r] => Overtaken(r)
     /\ pc[r] \in {"parsing", "computing"} /\ document # held[r].text => edits > held[r].edits

(* The handler of r ends with the answer a, in one of the three ways in    *)
(* which the tracker hears of it.                                          *)
Ended(r, a) ==
  /\ Return(r, a)
  /\ \/ UNCHANGED <<trackerVars, request_id>>
     \/ FinishRequest(r) /\ UNCHANGED <<next_request_id, request_id>>
     \/ StartRequest(r) /\ active_request' = None

AnswerDue(r, a) ==
  /\ a.type = "null" => /\ r \in Running
                        /\ ~IsActive(r) \/ (pc[r] = "computing" /\ Stale(r))
  /\ a.type = "tokens" => /\ document # None
                          /\ client_tokens'[a.result] \in {TokensOf[document], NoTokens}

LEMMA EndedWithoutTokens ==
  ASSUME IInv, NEW r \in Running,
         NEW l \in {"empty", "null", "cancelled"},
         l = "null" => ~IsActive(r) \/ (pc[r] = "computing" /\ Stale(r)),
         GiveUp(r, Answer(l, None)) \/ (l = "null" /\ Superseded(r))
  PROVE  \E a \in Answers : Ended(r, a) /\ AnswerDue(r, a)
<1> DEFINE a == Answer(l, None)
<1>1. a \in Answers /\ a.type = l
  BY AnswersTyped DEF Answer
<1>2. Return(r, a)
  BY DEF GiveUp, Superseded
<1>3. \/ UNCHANGED <<trackerVars, request_id>>
      \/ FinishRequest(r) /\ UNCHANGED <<next_request_id, request_id>>
  BY DEF GiveUp, Superseded
<1> HIDE DEF a
<1>4. QED
  BY <1>1, <1>2, <1>3 DEF Ended, AnswerDue

(* The tokens of a text that is stored are received as they are. *)
LEMMA TokensDue ==
  ASSUME IInv, NEW r \in Requests, pc[r] = "computing", ~Stale(r), Store(r)
  PROVE  \E a \in Answers : Ended(r, a) /\ AnswerDue(r, a)
<1> DEFINE a == Answer("tokens", next_result_id)
<1>1. PICK t \in {TokensOf[held[r].text], NoTokens} : StoreTokens(r, t)
  BY DEF Store, StoreTokens
<1>2. document = held[r].text /\ document \in Texts /\ document # None
  BY NoneApart DEF IInv, HandlersKnown, Stale
<1>3. t \in Tokens
  BY <1>2, NoneApart
<1>4. r \notin Tokened /\ Tokened \in SUBSET Requests
  BY DEF IInv, HandlersKnown, Tokened
<1>5. next_result_id \in ResultIds
  BY <1>4, CountBelow, NoneApart DEF IInv, Counts
<1>6. a \in Answers /\ a.type = "tokens" /\ a.result = next_result_id
  BY <1>5 DEF Answer, Answers
<1>7. Ended(r, a)
  BY <1>1 DEF StoreTokens, Ended
<1>8. client_tokens' = [client_tokens EXCEPT ![next_result_id] = t]
  <2>1. /\ TokensIfValid(r) # None =>
             /\ client_tokens[held[r].previous] = TokensIfValid(r)
             /\ TokensIfValid(r) \in Tokens
    BY DEF IInv, TypeOK, ClientHasCached, TokensIfValid
  <2>2. Received(r, t) = t
    BY <1>3, <2>1, DeltaLeads DEF Received, Tokens
  <2>3. QED
    BY <1>1, <2>2 DEF StoreTokens, Receive
<1>9. client_tokens'[a.result] = t
  BY <1>5, <1>6, <1>8 DEF IInv, TypeOK
<1> HIDE DEF a
<1>10. AnswerDue(r, a)
  BY <1>1, <1>2, <1>6, <1>9 DEF AnswerDue
<1>11. QED
  BY <1>6, <1>7, <1>10

(* What a handler does in a step. *)
LEMMA HandlerSteps ==
  ASSUME IInv, NEW r \in Requests, Handle(r) \/ DropFuture(r)
  PROVE  \/ Start(r)
         \/ r \in Running /\ (Work(r, "parsing") \/ Work(r, "computing"))
         \/ r \in InFlight /\ \E a \in Answers : Ended(r, a) /\ AnswerDue(r, a)
<1>1. CASE Start(r)
  BY <1>1
<1>2. CASE StartWithoutLanguage(r)
  <2> DEFINE a == Answer("empty", None)
  <2>1. a \in Answers /\ a.type = "empty"
    BY AnswersTyped DEF Answer
  <2>2. Return(r, a) /\ StartRequest(r) /\ active_request' = None
    BY <1>2 DEF StartWithoutLanguage
  <2>3. r \in InFlight
    BY <1>2, StartFacts DEF StartWithoutLanguage
  <2> HIDE DEF a
  <2>4. QED
    BY <2>1, <2>2, <2>3 DEF Ended, AnswerDue
<1>3. CASE GetTree(r)
  <2>1. r \in InFlight /\ r \in Running
    BY <1>3 DEF GetTree, InFlight, Running
  <2>2. \/ GiveUp(r, Answer("empty", None)) \/ Superseded(r)
        \/ Work(r, "parsing") \/ Work(r, "computing")
    BY <1>3 DEF GetTree
  <2>3. Superseded(r) => ~IsActive(r)
    BY DEF Superseded
  <2>4. CASE GiveUp(r, Answer("empty", None))
    BY <2>1, <2>4, EndedWithoutTokens
  <2>5. CASE Superseded(r)
    BY <2>1, <2>3, <2>5, EndedWithoutTokens
  <2>6. QED
    BY <2>1, <2>2, <2>4, <2>5
<1>4. CASE ParseEnds(r)
  <2>1. r \in InFlight /\ r \in Running
    BY <1>4 DEF ParseEnds, InFlight, Running
  <2>2. \/ GiveUp(r, Answer("empty", None)) \/ Superseded(r)
        \/ Work(r, "computing")
    BY <1>4 DEF ParseEnds
  <2>3. Superseded(r) => ~IsActive(r)
    BY DEF Superseded
  <2>4. CASE GiveUp(r, Answer("empty", None))
    BY <2>1, <2>4, EndedWithoutTokens
  <2>5. CASE Superseded(r)
    BY <2>1, <2>3, <2>5, EndedWithoutTokens
  <2>6. QED
    BY <2>1, <2>2, <2>4, <2>5
<1>5. CASE ComputeEnds(r)
  <2>1. r \in InFlight /\ r \in Running /\ pc[r] = "computing"
    BY <1>5 DEF ComputeEnds, InFlight, Running
  <2>2. CASE Stale(r) /\ GiveUp(r, Answer("null", None))
    BY <2>1, <2>2, EndedWithoutTokens
  <2>3. CASE Superseded(r)
    <3>1. ~IsActive(r)
      BY <2>3 DEF Superseded
    <3>2. QED
      BY <2>1, <2>3, <3>1, EndedWithoutTokens
  <2>4. CASE ~Stale(r) /\ Store(r)
    BY <2>1, <2>4, TokensDue
  <2>5. QED
    BY <1>5, <2>2, <2>3, <2>4 DEF ComputeEnds
<1>6. CASE CancelSeen(r)
  <2>1. r \in InFlight /\ r \in Running /\ GiveUp(r, Answer("cancelled", None))
    BY <1>6 DEF CancelSeen, InFlight, Running
  <2>2. QED
    BY <2>1, EndedWithoutTokens
<1>7. CASE DropFuture(r)
  <2> DEFINE a == Answer("cancelled", None)
  <2>1. a \in Answers /\ a.type = "cancelled"
    BY AnswersTyped DEF Answer
  <2>2. r \in InFlight /\ Return(r, a) /\ UNCHANGED <<trackerVars, request_id>>
    BY <1>7 DEF DropFuture
  <2> HIDE DEF a
  <2>3. QED
    BY <2>1, <2>2 DEF Ended, AnswerDue
<1>8. QED
  BY <1>1, <1>2, <1>3, <1>4, <1>5, <1>6, <1>7 DEF Handle

LEMMA InitCause == Init => CauseInv
BY DEF Init, CauseInv, Running, InFlight

(* A step of another handler, or of none, that raises or leaves the edits. *)
LEMMA CauseLasts ==
  ASSUME IInv, CauseInv, NEW r \in Running,
         edits' \in Nat, edits <= edits',
         UNCHANGED <<held[r], pc[r], request_id[r]>>,
         document' # document => edits < edits',
         \/ UNCHANGED <<active_request, next_request_id>>
         \/ edits < edits' /\ UNCHANGED next_request_id
         \/ next_request_id' = next_request_id + 1
         \/ active_request # request_id[r] /\ UNCHANGED next_request_id
  PROVE  /\ held'[r].edits <= edits'
         /\ active_request' # request_id'[r] =>
               edits' > held'[r].edits \/ request_id'[r] + 1 < next_request_id'
         /\ pc'[r] \in {"parsing", "computing"} /\ document' # held'[r].text =>
               edits' > held'[r].edits
<1> DEFINE e == held[r].edits
           i == request_id[r]
<1>1. r \in Requests
  BY DEF Running, InFlight
<1>2. held[r] \in Locals /\ edits \in Nat /\ next_request_id \in Nat
  BY <1>1 DEF IInv, TypeOK
<1>3. e \in Nat
  BY <1>2 DEF Locals
<1>4. i \in Nat /\ i < next_request_id
  BY <1>1, NoneApart DEF IInv, TypeOK, HandlersKnown
<1>5. /\ e <= edits
      /\ active_request # i => edits > e \/ i + 1 < next_request_id
      /\ pc[r] \in {"parsing", "computing"} /\ document # held[r].text => edits > e
  BY DEF CauseInv, Overtaken
<1>6. held'[r] = held[r] /\ pc'[r] = pc[r] /\ request_id'[r] = i /\ held'[r].edits = e
  OBVIOUS
<1> HIDE DEF e, i
<1>7. held'[r].edits <= edits'
  BY <1>2, <1>3, <1>5, <1>6
<1>8. ASSUME active_request' # i
      PROVE  edits' > e \/ i + 1 < next_request_id'
  <2>1. CASE UNCHANGED <<active_request, next_request_id>>
    BY <1>2, <1>3, <1>5, <1>8, <2>1
  <2>2. CASE edits < edits'
    BY <1>2, <1>3, <1>5, <2>2
  <2>3. CASE next_request_id' = next_request_id + 1
    BY <1>2, <1>4, <2>3
  <2>4. CASE active_request # i /\ UNCHANGED next_request_id
    BY <1>2, <1>3, <1>5, <2>4
  <2>5. QED
    BY <2>1, <2>2, <2>3, <2>4 DEF i
<1>9. ASSUME pc'[r] \in {"parsing", "computing"}, document' # held'[r].text
      PROVE  edits' > e
  BY <1>2, <1>3, <1>5, <1>6, <1>9
<1>10. QED
  BY <1>6, <1>7, <1>8, <1>9

LEMMA NextCause == IInv /\ CauseInv /\ [Next]_vars => CauseInv'
<1> SUFFICES ASSUME IInv, CauseInv, [Next]_vars, NEW r \in Running'
             PROVE  /\ held'[r].edits <= edits'
                    /\ active_request' # request_id'[r] =>
                          edits' > held'[r].edits \/ request_id'[r] + 1 < next_request_id'
                    /\ /\ pc'[r] \in {"parsing", "computing"}
                       /\ document' # held'[r].text
                       => edits' > held'[r].edits
  BY DEF CauseInv, Overtaken
<1>1. r \in Requests /\ pc'[r] \notin {"unsent", "sent", "done"}
  BY DEF Running, InFlight
<1>2. /\ edits \in Nat /\ edits <= edits /\ next_request_id \in Nat
      /\ pc \in [Requests -> Places] /\ held \in [Requests -> Locals]
      /\ request_id \in [Requests -> Requests \cup {None}]
  BY DEF IInv, TypeOK
<1>3. pc'[r] = pc[r] => r \in Running
  BY <1>1 DEF Running, InFlight
<1>4. CASE OpenOrChange \/ Close
  <2>1. /\ UNCHANGED <<held, pc, request_id, next_request_id>>
        /\ edits' = edits + 1
    BY <1>4 DEF OpenOrChange, Close, Edit, handlerVars, trackerVars
  <2>2. edits' \in Nat /\ edits < edits' /\ edits <= edits'
    BY <1>2, <2>1
  <2>3. r \in Running /\ UNCHANGED <<held[r], pc[r], request_id[r]>>
    BY <1>3, <2>1
  <2>4. QED
    BY <2>1, <2>2, <2>3, CauseLasts
<1>5. CASE Send
  <2>1. PICK q \in Requests : /\ pc[q] = "unsent" /\ pc' = [pc EXCEPT ![q] = "sent"]
                              /\ \A o \in Requests \ {q} : held'[o] = held[o]
    <3>1. PICK q \in Requests, u \in Upstreams, p \in {None, client_result} :
            /\ pc[q] = "unsent" /\ pc' = [pc EXCEPT ![q] = "sent"]
            /\ held' = [held EXCEPT ![q].upstream = u, ![q].previous = p]
      BY <1>5 DEF Send, Goto
    <3>2. \A o \in Requests \ {q} : held'[o] = held[o]
      BY <1>2, <3>1
    <3>3. QED
      BY <3>1, <3>2
  <2>2. r # q /\ UNCHANGED <<held[r], pc[r]>>
    BY <1>1, <1>2, <2>1
  <2>3. UNCHANGED <<edits, document, active_request, next_request_id, request_id>>
    BY <1>5 DEF Send, documentVars, trackerVars
  <2>4. r \in Running
    BY <1>3, <2>2
  <2>5. QED
    BY <1>2, <2>2, <2>3, <2>4, CauseLasts
<1>6. ASSUME NEW q \in Requests, CancelRequest(q)
      PROVE  /\ r \in Running
             /\ UNCHANGED <<edits, document, active_request, next_request_id,
                            held[r], pc[r], request_id[r]>>
  BY <1>3, <1>6 DEF CancelRequest, documentVars, trackerVars, handlerVars
<1>7. ASSUME NEW q \in Requests, Start(q)
      PROVE  /\ held'[r].edits <= edits'
             /\ active_request' # request_id'[r] =>
                   edits' > held'[r].edits \/ request_id'[r] + 1 < next_request_id'
             /\ /\ pc'[r] \in {"parsing", "computing"}
                /\ document' # held'[r].text
                => edits' > held'[r].edits
  <2>1. /\ pc' = [pc EXCEPT ![q] = "waiting"]
        /\ held' = [held EXCEPT ![q] = [held[q] EXCEPT !.edits = edits]]
        /\ request_id' = [request_id EXCEPT ![q] = next_request_id]
        /\ next_request_id' = next_request_id + 1
        /\ active_request' = next_request_id
        /\ UNCHANGED <<document, edits>>
    BY <1>7 DEF Start, StartRequest, Goto, documentVars
  <2>2. CASE r = q
    <3>1. held[q] \in Locals
      BY <1>2
    <3>2. held'[r].edits = edits
      BY <1>2, <2>1, <2>2, <3>1 DEF Locals
    <3>3. pc'[r] = "waiting" /\ request_id'[r] = active_request'
      BY <1>2, <2>1, <2>2
    <3>4. QED
      BY <1>2, <2>1, <3>2, <3>3
  <2>3. CASE r # q
    <3>1. UNCHANGED <<held[r], pc[r], request_id[r]>>
      BY <1>1, <1>2, <2>1, <2>3
    <3>2. r \in Running
      BY <1>3, <3>1
    <3>3. QED
      BY <1>2, <2>1, <3>1, <3>2, CauseLasts
  <2>4. QED
    BY <2>2, <2>3
<1>8. ASSUME NEW q \in Running, Work(q, "parsing") \/ Work(q, "computing")
      PROVE  /\ held'[r].edits <= edits'
             /\ active_request' # request_id'[r] =>
                   edits' > held'[r].edits \/ request_id'[r] + 1 < next_request_id'
             /\ /\ pc'[r] \in {"parsing", "computing"}
                /\ document' # held'[r].text
                => edits' > held'[r].edits
  <2>1. PICK l \in {"parsing", "computing"} : Work(q, l)
    BY <1>8
  <2>2. /\ pc' = [pc EXCEPT ![q] = l]
        /\ held' = [held EXCEPT ![q] = [held[q] EXCEPT !.text = document]]
        /\ UNCHANGED <<document, edits, active_request, next_request_id, request_id>>
        /\ q \in Requests
    BY <2>1 DEF Work, Goto, documentVars, trackerVars, Running, InFlight
  <2>3. CASE r = q
    <3>1. held[q] \in Locals
      BY <1>2, <2>2
    <3>2. held'[r].edits = held[r].edits /\ held'[r].text = document
      BY <1>2, <2>2, <2>3, <3>1 DEF Locals
    <3>3. QED
      BY <1>8, <2>2, <2>3, <3>2 DEF CauseInv, Overtaken
  <2>4. CASE r # q
    <3>1. UNCHANGED <<held[r], pc[r], request_id[r]>>
      BY <1>1, <1>2, <2>2, <2>4
    <3>2. r \in Running
      BY <1>3, <3>1
    <3>3. QED
      BY <1>2, <2>2, <3>1, <3>2, CauseLasts
  <2>5. QED
    BY <2>3, <2>4
<1>9. ASSUME NEW q \in InFlight, NEW a \in Answers, Ended(q, a)
      PROVE  /\ held'[r].edits <= edits'
             /\ active_request' # request_id'[r] =>
                   edits' > held'[r].edits \/ request_id'[r] + 1 < next_request_id'
             /\ /\ pc'[r] \in {"parsing", "computing"}
                /\ document' # held'[r].text
                => edits' > held'[r].edits
  <2>1. /\ pc' = [pc EXCEPT ![q] = "done"] /\ held' = [held EXCEPT ![q] = NoLocals]
        /\ UNCHANGED <<document, edits>> /\ q \in Requests
    BY <1>9 DEF Ended, Return, Goto, documentVars, InFlight
  <2>2. r # q /\ UNCHANGED <<held[r], pc[r]>>
    BY <1>1, <1>2, <2>1
  <2>3. r \in Running
    BY <1>3, <2>2
  <2>4. CASE UNCHANGED <<trackerVars, request_id>>
    BY <1>2, <2>1, <2>2, <2>3, <2>4, CauseLasts DEF trackerVars
  <2>5. CASE FinishRequest(q) /\ UNCHANGED <<next_request_id, request_id>>
    <3>1. CASE active_request = request_id[q] /\ request_id[q] # None
      <4>1. active_request # request_id[r]
        BY <1>1, <2>1, <2>2, <3>1 DEF IInv, IdsUsedOnce
      <4>2. QED
        BY <1>2, <2>1, <2>2, <2>3, <2>5, <4>1, CauseLasts
    <3>2. CASE active_request # request_id[q] \/ request_id[q] = None
      <4>1. UNCHANGED active_request
        BY <2>5, <3>2 DEF FinishRequest
      <4>2. QED
        BY <1>2, <2>1, <2>2, <2>3, <2>5, <4>1, CauseLasts
    <3>3. QED
      BY <3>1, <3>2
  <2>6. CASE StartRequest(q) /\ active_request' = None
    <3>1. next_request_id' = next_request_id + 1 /\ request_id'[r] = request_id[r]
      BY <1>1, <1>2, <2>2, <2>6 DEF StartRequest
    <3>2. QED
      BY <1>2, <2>1, <2>2, <2>3, <3>1, CauseLasts
  <2>7. QED
    BY <1>9, <2>4, <2>5, <2>6 DEF Ended
<1>10. CASE UNCHANGED vars
  <2>1. UNCHANGED <<document, edits, active_request, next_request_id, pc, request_id, held>>
    BY <1>10 DEF vars, documentVars, trackerVars, handlerVars
  <2>2. r \in Running
    BY <1>3, <2>1
  <2>3. QED
    BY <1>2, <2>1, <2>2, CauseLasts
<1>11. ASSUME NEW q \in Requests, CancelRequest(q) \/ Handle(q) \/ DropFuture(q)
       PROVE  /\ held'[r].edits <= edits'
              /\ active_request' # request_id'[r] =>
                    edits' > held'[r].edits \/ request_id'[r] + 1 < next_request_id'
              /\ /\ pc'[r] \in {"parsing", "computing"}
                 /\ document' # held'[r].text
                 => edits' > held'[r].edits
  <2>1. CASE CancelRequest(q)
    <3>1. /\ r \in Running
          /\ UNCHANGED <<edits, document, active_request, next_request_id,
                         held[r], pc[r], request_id[r]>>
      BY <1>6, <2>1
    <3>2. QED
      BY <1>2, <3>1, CauseLasts
  <2>2. CASE Handle(q) \/ DropFuture(q)
    BY <1>7, <1>8, <1>9, <2>2, HandlerSteps
  <2>3. QED
    BY <1>11, <2>1, <2>2
<1>12. QED
  BY <1>4, <1>5, <1>10, <1>11 DEF Next

(* The answer of a step is due. *)
LEMMA StepAnswers ==
  ASSUME IInv, [Next]_vars, NEW r \in Requests, answer'[r] # answer[r]
  PROVE  r \in InFlight /\ AnswerDue(r, answer'[r])
<1>1. answer \in [Requests -> Answers]
  BY DEF IInv, TypeOK
<1>2. PICK q \in Requests : Handle(q) \/ DropFuture(q)
  <2>1. UNCHANGED answer => FALSE
    OBVIOUS
  <2>2. OpenOrChange \/ Close \/ Send \/ UNCHANGED vars => UNCHANGED answer
    BY DEF OpenOrChange, Close, Send, vars, handlerVars
  <2>3. \A q \in Requests : CancelRequest(q) => UNCHANGED answer
    BY DEF CancelRequest, handlerVars
  <2>4. QED
    BY <2>1, <2>2, <2>3 DEF Next
<1>3. ~Start(q) /\ ~Work(q, "parsing") /\ ~Work(q, "computing")
  BY DEF Start, Work
<1>4. PICK a \in Answers : q \in InFlight /\ Ended(q, a) /\ AnswerDue(q, a)
  BY <1>2, <1>3, HandlerSteps
<1>5. answer' = [answer EXCEPT ![q] = a]
  BY <1>4 DEF Ended, Return
<1>6. r = q /\ answer'[r] = a
  BY <1>1, <1>5
<1>7. QED
  BY <1>4, <1>6

(* Tokens are given for the text that is stored when they are given, and a *)
(* request is told that it is out of date only when an edit or a later     *)
(* request made it so: no earlier request's end, cancel or timeout takes   *)
(* the entry of a later one out of the tracker.                            *)
THEOREM AnswersAreForCause == Spec => AnswersForCause
<1>1. IInv /\ CauseInv /\ [Next]_vars =>
        [\A r \in Requests :
           HasTokens(r)' /\ ~HasTokens(r) =>
              /\ document # None
              /\ client_tokens'[answer'[r].result] \in {TokensOf[document], NoTokens}]_vars
  <2> SUFFICES ASSUME IInv, [Next]_vars, NEW r \in Requests,
                      HasTokens(r)', ~HasTokens(r)
               PROVE  /\ document # None
                      /\ client_tokens'[answer'[r].result] \in
                           {TokensOf[document], NoTokens}
    OBVIOUS
  <2>1. answer'[r] # answer[r] /\ answer'[r].type = "tokens"
    BY DEF HasTokens
  <2>2. AnswerDue(r, answer'[r])
    BY <2>1, StepAnswers
  <2>3. QED
    BY <2>1, <2>2 DEF AnswerDue
<1>2. IInv /\ CauseInv /\ [Next]_vars =>
        [\A r \in Requests :
           answer'[r].type = "null" /\ answer[r].type # "null" =>
              \/ edits > held[r].edits
              \/ request_id[r] + 1 < next_request_id]_vars
  <2> SUFFICES ASSUME IInv, CauseInv, [Next]_vars, NEW r \in Requests,
                      answer'[r].type = "null", answer[r].type # "null"
               PROVE  \/ edits > held[r].edits
                      \/ request_id[r] + 1 < next_request_id
    OBVIOUS
  <2>1. answer'[r] # answer[r]
    OBVIOUS
  <2>2. /\ r \in Running
        /\ ~IsActive(r) \/ (pc[r] = "computing" /\ Stale(r))
    BY <2>1, StepAnswers DEF AnswerDue
  <2>3. QED
    BY <2>2 DEF CauseInv, Overtaken, IsActive, Stale
<1>3. Spec => []CauseInv
  <2>1. IInv /\ CauseInv /\ [Next]_vars => CauseInv'
    BY NextCause
  <2>2. QED
    BY <2>1, InitCause, Invariance, PTL DEF Spec
<1>4. Spec => TokensOfCurrentText
  BY <1>1, <1>3, Invariance, PTL DEF Spec, TokensOfCurrentText
<1>5. Spec => GivenUpForCause
  BY <1>2, <1>3, Invariance, PTL DEF Spec, GivenUpForCause
<1>6. QED
  BY <1>4, <1>5 DEF AnswersForCause
=============================================================================
