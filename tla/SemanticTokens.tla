--------------------------- MODULE SemanticTokens ---------------------------
(***************************************************************************)
(* From the captures of a document and of its injections to the tokens     *)
(* that are sent (analysis/semantic/finalize.rs, and the choice of active  *)
(* injection regions in parallel.rs).                                      *)
(*                                                                         *)
(* A capture is a raw token: line, column and length (a newline counts one *)
(* when it is longer than its line), name, and the three numbers of its    *)
(* priority.  A document is the widths of its lines; lines count from 0.   *)
(***************************************************************************)
EXTENDS SemanticDelta, Integers, FiniteSetsExt, SequencesExt

Monus(a, b) == IF a < b THEN 0 ELSE a - b

(* a comes before b, compared number by number.                            *)
LexLess(a, b) ==
  \E n \in 1..Len(a) : a[n] < b[n] /\ \A m \in 1..(n - 1) : a[m] = b[m]

(* split_multiline_tokens: one piece for each line; the rest of a line and *)
(* its newline are taken off what remains.                                 *)
Pieces(t, widths) ==
  IF t.line >= Len(widths) \/ t.column + t.length <= widths[t.line + 1] THEN <<t>>
  ELSE LET column(k) == IF k = t.line THEN t.column ELSE 0
           room(k) == Monus(widths[k + 1], column(k))
           remaining[k \in t.line..(Len(widths) - 1)] ==
             IF k = t.line THEN t.length
             ELSE Monus(remaining[k - 1], Min({remaining[k - 1], room(k - 1)}) + 1)
           last == Max({k \in DOMAIN remaining : remaining[k] > 0})
       IN  [n \in 1..(last - t.line + 1) |->
              LET k == t.line + n - 1 IN
              [t EXCEPT !.line = k, !.column = column(k),
                        !.length = Min({remaining[k], room(k)})]]

StartOf(r) == <<r.start_line, r.start_col>>
EndOf(r) == <<r.end_line, r.end_col>>

(* is_in_active_injection_region: from its first column to its end.        *)
InRegion(t, r) ==
  /\ ~LexLess(<<t.line, t.column>>, StartOf(r))
  /\ ~LexLess(EndOf(r), <<t.line, t.column + t.length>>)

(* compute_active_injection_regions: those in which an injected token      *)
(* starts.                                                                 *)
ActiveRegions(regions, injected) ==
  {r \in regions : \E i \in DOMAIN injected :
     LET t == <<injected[i].line, injected[i].column>> IN
     ~LexLess(t, StartOf(r)) /\ LexLess(t, EndOf(r))}

(* The pieces that are left: those of the host that lie in an active       *)
(* region are not.                                                         *)
Kept(tokens, active, widths) ==
  SelectSeq(FlattenSeq([i \in DOMAIN tokens |-> Pieces(tokens[i], widths)]),
            LAMBDA t : /\ t.length > 0
                       /\ t.depth > 0 \/ \A r \in active : ~InRegion(t, r))

(* Which of two tokens shows: first by token_priority, and among equals    *)
(* the last one in the order of columns, which the sort leaves as it was   *)
(* for tokens of one column.                                               *)
Priority(t) == <<t.depth, t.node_depth, t.pattern_index>>
Rank(tokens, i) == Priority(tokens[i]) \o <<tokens[i].column, i>>

Winner(tokens, covering) ==
  CHOOSE i \in covering :
     \A j \in covering \ {i} : LexLess(Rank(tokens, j), Rank(tokens, i))

(* split_overlapping_tokens on one line: between two breakpoints that      *)
(* follow each other the winner of the tokens that cover them.             *)
FragmentsOfLine(tokens, line) ==
  LET here == {i \in DOMAIN tokens : tokens[i].line = line}
      breakpoints == {tokens[i].column : i \in here}
                     \cup {tokens[i].column + tokens[i].length : i \in here}
      next(a) == Min({b \in breakpoints : b > a})
      covering(a) == {i \in here : /\ tokens[i].column <= a
                                   /\ tokens[i].column + tokens[i].length >= next(a)}
  IN  {[tokens[Winner(tokens, covering(a))] EXCEPT !.column = a, !.length = next(a) - a] :
         a \in {b \in breakpoints : b # Max(breakpoints) /\ covering(b) # {}}}

Fragments(tokens) ==
  SetToSortSeq(
    UNION {FragmentsOfLine(tokens, l) : l \in {tokens[i].line : i \in DOMAIN tokens}},
    LAMBDA a, b : LexLess(<<a.line, a.column>>, <<b.line, b.column>>))

(* merge_adjacent_fragments.                                               *)
Joins(a, b) ==
  /\ a.line = b.line /\ a.column + a.length = b.column
  /\ a.name = b.name /\ Priority(a) = Priority(b)

Merge(fragments) ==
  LET heads == {i \in DOMAIN fragments :
                  i = 1 \/ ~Joins(fragments[i - 1], fragments[i])}
      last(i) == Min({j \in heads : j > i} \cup {Len(fragments) + 1}) - 1
      order == SetToSortSeq(heads, <)
  IN  [n \in DOMAIN order |->
         LET i == order[n]
             end == fragments[last(i)].column + fragments[last(i)].length
         IN  [fragments[i] EXCEPT !.length = end - fragments[i].column]]

(* Each token relative to the one before it.                               *)
Encode(tokens) ==
  [n \in DOMAIN tokens |->
     LET t == tokens[n]
         last_line == IF n = 1 THEN 0 ELSE tokens[n - 1].line
         last_start == IF n = 1 THEN 0 ELSE tokens[n - 1].column
     IN  [delta_line |-> t.line - last_line,
          delta_start |-> t.column - (IF t.line = last_line THEN last_start ELSE 0),
          length |-> t.length, type |-> t.name]]

(* finalize_tokens: the captures of the host and those of the injections,  *)
(* whose regions are given.                                                *)
Finalize(host, injected, regions, widths) ==
  Encode(Merge(Fragments(
    Kept(host \o injected, ActiveRegions(regions, injected), widths))))
-----------------------------------------------------------------------------
(* What a client shows: the name at every place a token covers.            *)
Decode(data) ==
  LET line[n \in 0..Len(data)] ==
        IF n = 0 THEN 0 ELSE line[n - 1] + data[n].delta_line
      start[n \in 0..Len(data)] ==
        IF n = 0 THEN 0
        ELSE data[n].delta_start + (IF data[n].delta_line = 0 THEN start[n - 1] ELSE 0)
  IN  [n \in DOMAIN data |->
         [line |-> line[n], column |-> start[n], length |-> data[n].length,
          name |-> data[n].type]]

Shown(data) ==
  LET d == Decode(data) IN
  UNION {{<<d[n].line, d[n].column + k, d[n].name>> : k \in 0..(d[n].length - 1)} :
           n \in DOMAIN d}

(* The reference.  A place of the document counts from its beginning, with *)
(* one for each newline, and a capture covers as many as it is long.       *)
Offset(widths, line, column) ==
  LET before[l \in 0..line] == IF l = 0 THEN 0 ELSE before[l - 1] + widths[l] + 1
  IN  before[line] + column

(* The part of the capture t on a line, from and up to a column.           *)
PartOn(t, line, widths) ==
  LET begin == Offset(widths, t.line, t.column)
      from == Offset(widths, line, 0)
  IN  <<Monus(begin, from),
        Min({Monus(begin + t.length, from), widths[line + 1]})>>

(* A capture shows at a place that it covers, unless it is the host's and  *)
(* its part of the line lies in an active region.                          *)
ShowsAt(t, line, column, active, widths) ==
  LET part == PartOn(t, line, widths) IN
  /\ t.line <= line /\ part[1] <= column /\ column < part[2]
  /\ t.depth > 0 \/ \A r \in active :
       LexLess(<<line, part[1]>>, StartOf(r)) \/ LexLess(EndOf(r), <<line, part[2]>>)

(* What is sent decodes to tokens that are apart and in order, and every   *)
(* place shows the name of a capture of the highest priority there, and    *)
(* nothing where there is none.                                            *)
ShowsHighest(host, injected, regions, widths) ==
  LET data == Finalize(host, injected, regions, widths)
      shown == Shown(data)
      tokens == host \o injected
      active == ActiveRegions(regions, injected)
      at(l, c) == {t \in Range(tokens) : ShowsAt(t, l, c, active, widths)}
      highest(S) == {t \in S : \A u \in S : ~LexLess(Priority(t), Priority(u))}
  IN  /\ data \in Tokens /\ \A n \in DOMAIN data : data[n].length > 0
      /\ \A p, q \in shown : p[1] = q[1] /\ p[2] = q[2] => p = q
      /\ \A p \in shown : p[1] < Len(widths) /\ p[2] < widths[p[1] + 1]
      /\ \A l \in 0..(Len(widths) - 1) : \A c \in 0..(widths[l + 1] - 1) :
           LET names == {p[3] : p \in {q \in shown : q[1] = l /\ q[2] = c}} IN
           IF at(l, c) = {} THEN names = {}
           ELSE \E t \in highest(at(l, c)) : names = {t.name}
=============================================================================
