-------------------------------- MODULE Sift --------------------------------
(***************************************************************************)
(* The elements of a sequence that are in a set, in their order: what a    *)
(* comprehension with a condition leaves of a list; and what the numbers   *)
(* of a sequence add up to.  Written as functions of the length looked at, *)
(* so that what they return can be proved.                                 *)
(***************************************************************************)
EXTENDS Integers, Sequences

Sifted(s, S) ==
  LET kept[n \in 0..Len(s)] ==
        IF n = 0 THEN <<>>
        ELSE IF s[n] \in S THEN Append(kept[n - 1], s[n])
        ELSE kept[n - 1]
  IN kept[Len(s)]

\* The elements at some positions, and those a condition holds of.
Picked(s, I) ==
  LET kept[n \in 0..Len(s)] ==
        IF n = 0 THEN <<>>
        ELSE IF n \in I THEN Append(kept[n - 1], s[n])
        ELSE kept[n - 1]
  IN kept[Len(s)]
Where(s, P(_)) == Picked(s, {i \in 1..Len(s) : P(s[i])})

Total(s) ==
  LET sum[n \in 0..Len(s)] == IF n = 0 THEN 0 ELSE sum[n - 1] + s[n]
  IN sum[Len(s)]
=============================================================================
