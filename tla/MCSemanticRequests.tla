------------------------- MODULE MCSemanticRequests -------------------------
(***************************************************************************)
(* An instance of SemanticRequests: two texts whose tokens SemanticTokens  *)
(* makes of their captures, and the comparison of its Finalize with a      *)
(* reference over small documents.                                         *)
(***************************************************************************)
EXTENDS SemanticRequests, SemanticTokens

CONSTANTS t1, t2

Raw(line, column, length, name, depth, pattern) ==
  [line |-> line, column |-> column, length |-> length, name |-> name,
   depth |-> depth, node_depth |-> 0, pattern_index |-> pattern]

Region(l, c, m, d) ==
  [start_line |-> l, start_col |-> c, end_line |-> m, end_col |-> d]

(* One line whose tokens are encoded alike, so that the beginning and the  *)
(* end that the results of the two texts have in common would overlap if   *)
(* the end were looked for in all of them.                                 *)
Words(n) == [i \in 1..n |-> Raw(0, i - 1, 1, IF i % 2 = 1 THEN "a" ELSE "b", 0, 0)]

Finalized ==
  (t1 :> Finalize(Words(2), << >>, {}, <<4, 3>>)
   @@ t2 :> Finalize(Words(4), << >>, {}, <<4, 3>>))

(* A definition of its own, so that TLC computes Finalized once.           *)
MCTokensOf == Finalized

(* Two captures of two lines, of the host or injected, and three of one    *)
(* line, with a region in the middle or without.                           *)
SmallRegions == {{}, {Region(0, 1, 1, 1)}}
OfTwoLines(name) ==
  {Raw(l, c, n, name, d, 0) : l \in 0..1, c \in 0..1, n \in 1..4, d \in 0..1}
OfOneLine(name) ==
  {Raw(0, c, n, name, 0, q) : c \in 0..2, n \in 1..3, q \in 0..1}

Split(tokens, d) == SelectSeq(tokens, LAMBDA t : t.depth = d)

ASSUME TwoLinesShowHighest ==
  \A a \in OfTwoLines("a"), b \in OfTwoLines("b"), rs \in SmallRegions :
     ShowsHighest(Split(<<a, b>>, 0), Split(<<a, b>>, 1), rs, <<2, 2>>)

ASSUME OneLineShowsHighest ==
  \A a \in OfOneLine("a"), b \in OfOneLine("b"), c \in OfOneLine("a") :
     ShowsHighest(<<a, b, c>>, << >>, {}, <<3>>)

(* A delta leads from any tokens to any others.                            *)
SmallTokens ==
  {Encode(Split(<<Raw(0, 0, 1, n, 0, 0), Raw(l, 1, 1, m, o, 0), Raw(k, 2, 1, n, 0, 0)>>, 0)) :
     l \in 0..1, k \in 1..2, n \in {"a", "b"}, m \in {"a", "b"}, o \in 0..1}

ASSUME DeltasLead ==
  \A s, t \in SmallTokens : ApplyDelta(s, Delta(s, t)) = t
=============================================================================
