--------------------------- MODULE SemanticDelta ---------------------------
(***************************************************************************)
(* The edit that leads from the tokens of one result to those of the next  *)
(* (analysis/semantic/delta.rs).                                           *)
(*                                                                         *)
(* The code counts the numbers of the encoded tokens, five of each; an     *)
(* edit counts tokens here.                                                *)
(***************************************************************************)
EXTENDS Naturals, Sequences

(* A token as it is sent: its place relative to the token before it, and   *)
(* its type with the modifiers.                                            *)
SemanticToken ==
  [delta_line : Nat, delta_start : Nat, length : Nat, type : STRING]
Tokens == Seq(SemanticToken)
NoTokens == << >>

Shorter(s, t) == IF Len(s) < Len(t) THEN Len(s) ELSE Len(t)

(* How many tokens the two begin with in common.                           *)
CommonPrefixLen(s, t) ==
  CHOOSE n \in 0..Shorter(s, t) :
     /\ \A i \in 1..n : s[i] = t[i]
     /\ n < Shorter(s, t) => s[n + 1] # t[n + 1]

(* How many tokens the two end with in common.                             *)
CommonSuffixLen(s, t) ==
  CHOOSE n \in 0..Shorter(s, t) :
     /\ \A i \in 0..(n - 1) : s[Len(s) - i] = t[Len(t) - i]
     /\ n < Shorter(s, t) => s[Len(s) - n] # t[Len(t) - n]

TotalLines(s) ==
  LET sum[i \in 0..Len(s)] == IF i = 0 THEN 0 ELSE sum[i - 1] + s[i].delta_line
  IN  sum[Len(s)]

Drop(s, n) == SubSeq(s, n + 1, Len(s))

(* One edit, or none if nothing changed.  The common end is looked for in  *)
(* what follows the common beginning, and only if the last tokens are on   *)
(* the same line.                                                          *)
Delta(previous, current) ==
  LET start == CommonPrefixLen(previous, current)
      prev_suffix == Drop(previous, start)
      curr_suffix == Drop(current, start)
      suffix == IF TotalLines(previous) # TotalLines(current) THEN 0
                ELSE CommonSuffixLen(prev_suffix, curr_suffix)
  IN  IF start = Len(previous) /\ start = Len(current) THEN << >>
      ELSE <<[start |-> start, delete |-> Len(prev_suffix) - suffix,
              data |-> SubSeq(current, start + 1, Len(current) - suffix)]>>

(* What a client makes of the tokens s that it has (the protocol).         *)
ApplyDelta(s, edits) ==
  IF edits = << >> THEN s
  ELSE LET e == edits[1]
           start == IF e.start < Len(s) THEN e.start ELSE Len(s)
       IN  (SubSeq(s, 1, start) \o e.data) \o Drop(s, e.start + e.delete)
=============================================================================
