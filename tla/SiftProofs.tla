----------------------------- MODULE SiftProofs -----------------------------
(***************************************************************************)
(* What sifting and flattening sequences returns, for sequences of every   *)
(* length.  The proofs are inductions on the length: a set of naturals     *)
(* that holds 0 and, with every n, also n + 1 is all of them, and the set  *)
(* taken is that of the lengths up to which the claim holds.               *)
(***************************************************************************)
EXTENDS Sift, SequencesExt, WellFoundedInduction, NaturalsInduction, TLAPS

-----------------------------------------------------------------------------
(* Induction. *)

LEMMA NatSetInduction ==
  ASSUME NEW S \in SUBSET Nat, 0 \in S, \A n \in S : n + 1 \in S
  PROVE  S = Nat
<1> DEFINE T == Nat \ S
           R == OpToRel(<, Nat)
<1>1. SUFFICES ASSUME T # {} PROVE FALSE
  OBVIOUS
<1>2. T \subseteq Nat
  OBVIOUS
<1>3. IsWellFoundedOn(R, Nat)
  BY NatLessThanWellFounded
<1> HIDE DEF T, R
<1>4. PICK x \in T : \A y \in T : ~ (<<y, x>> \in R)
  BY <1>1, <1>2, <1>3, WFMin
<1>5. x \in Nat /\ x # 0 /\ x - 1 \in Nat /\ x - 1 < x
  BY <1>4 DEF T
<1>6. <<x - 1, x>> \in R
  BY <1>5 DEF R, OpToRel
<1>7. x - 1 \in S
  BY <1>4, <1>5, <1>6 DEF T
<1>8. QED
  BY <1>4, <1>5, <1>7 DEF T

\* A set of positions, none beyond n, has a last one.
LEMMA LastPosition ==
  ASSUME NEW n \in Nat, NEW P \in SUBSET (1..n), P # {}
  PROVE  \E k \in P : \A j \in P : j <= k
<1> DEFINE S == {m \in Nat : (P \cap (1..m)) # {} =>
                   \E k \in P \cap (1..m) : \A j \in P \cap (1..m) : j <= k}
<1>1. 0 \in S
  OBVIOUS
<1>2. ASSUME NEW m \in S PROVE m + 1 \in S
  <2>1. m \in Nat /\ m + 1 \in Nat
    OBVIOUS
  <2>2. SUFFICES ASSUME (P \cap (1..(m + 1))) # {}
                 PROVE  \E k \in P \cap (1..(m + 1)) : \A j \in P \cap (1..(m + 1)) : j <= k
    BY <2>1
  <2>3. CASE m + 1 \in P
    BY <2>1, <2>3
  <2>4. CASE m + 1 \notin P
    <3>1. P \cap (1..(m + 1)) = P \cap (1..m)
      BY <2>1, <2>4
    <3>2. QED
      BY <2>2, <3>1
  <2>5. QED
    BY <2>3, <2>4
<1> HIDE DEF S
<1>3. S = Nat
  <2>1. S \in SUBSET Nat
    BY DEF S
  <2>2. QED
    BY <1>1, <1>2, <2>1, NatSetInduction
<1>4. P \cap (1..n) = P
  OBVIOUS
<1>5. QED
  BY <1>3, <1>4 DEF S

-----------------------------------------------------------------------------
(* Sifting. *)

\* The function Sifted is a value of, up to the length n; and its equation.
SiftsTo(s, S, n, g) ==
  g = [i \in 0..n |-> IF i = 0 THEN <<>>
                      ELSE IF s[i] \in S THEN Append(g[i - 1], s[i])
                      ELSE g[i - 1]]

SiftStep(s, S, g, i) ==
  g[i] = IF i = 0 THEN <<>>
         ELSE IF s[i] \in S THEN Append(g[i - 1], s[i])
         ELSE g[i - 1]

LEMMA SiftEquation ==
  ASSUME NEW s, NEW S, NEW n \in Nat, NEW g,
         g = [i \in 0..n |-> g[i]], \A i \in 0..n : SiftStep(s, S, g, i)
  PROVE  SiftsTo(s, S, n, g)
  BY DEF SiftsTo, SiftStep

\* There is such a function for every length: that of n + 1 extends that of n.
LEMMA SiftExists ==
  ASSUME NEW s, NEW S, NEW n \in Nat
  PROVE  \E g : SiftsTo(s, S, n, g)
<1> DEFINE L == {m \in Nat : \E g : SiftsTo(s, S, m, g)}
<1>1. 0 \in L
  <2>1. SiftsTo(s, S, 0, [i \in 0..0 |-> <<>>])
    BY DEF SiftsTo
  <2>2. QED
    BY <2>1
<1>2. ASSUME NEW m \in L PROVE m + 1 \in L
  <2>1. PICK g : SiftsTo(s, S, m, g)
    OBVIOUS
  <2> DEFINE next == IF s[m + 1] \in S THEN Append(g[m], s[m + 1]) ELSE g[m]
             h == [i \in 0..(m + 1) |-> IF i = m + 1 THEN next ELSE g[i]]
  <2>2. m \in Nat /\ m + 1 \in Nat
    OBVIOUS
  <2>3. \A i \in 0..m : h[i] = g[i] /\ SiftStep(s, S, g, i)
    <3>1. ASSUME NEW i \in 0..m PROVE h[i] = g[i]
      BY <2>2
    <3>2. ASSUME NEW i \in 0..m PROVE SiftStep(s, S, g, i)
      BY <2>1, <2>2 DEF SiftsTo, SiftStep
    <3>3. QED
      BY <3>1, <3>2
  <2>4. /\ h = [i \in 0..(m + 1) |-> h[i]]
        /\ h[m + 1] = next
    BY <2>2
  <2> HIDE DEF h
  <2>5. ASSUME NEW i \in 0..m PROVE SiftStep(s, S, h, i)
    <3>1. CASE i = 0
      BY <2>3, <3>1 DEF SiftStep
    <3>2. CASE i # 0
      <4>1. i - 1 \in 0..m
        BY <2>2, <3>2
      <4>2. QED
        BY <2>3, <4>1 DEF SiftStep
    <3>3. QED
      BY <3>1, <3>2
  <2>6. SiftStep(s, S, h, m + 1)
    <3>1. m + 1 # 0 /\ (m + 1) - 1 = m /\ h[m] = g[m]
      BY <2>2, <2>3
    <3>2. QED
      BY <2>4, <3>1 DEF SiftStep
  <2>7. \A i \in 0..(m + 1) : SiftStep(s, S, h, i)
    <3>1. \A i \in 0..(m + 1) : i \in 0..m \/ i = m + 1
      BY <2>2
    <3>2. QED
      BY <2>5, <2>6, <3>1
  <2>8. QED
    BY <2>2, <2>4, <2>7, SiftEquation
<1> HIDE DEF L
<1>3. L = Nat
  <2>1. L \in SUBSET Nat
    BY DEF L
  <2>2. QED
    BY <1>1, <1>2, <2>1, NatSetInduction
<1>4. QED
  BY <1>3 DEF L

LEMMA SiftedIsAStep ==
  ASSUME NEW T, NEW s \in Seq(T), NEW S
  PROVE  \E g : SiftsTo(s, S, Len(s), g) /\ Sifted(s, S) = g[Len(s)]
<1>1. \E g : SiftsTo(s, S, Len(s), g)
  <2>1. Len(s) \in Nat
    OBVIOUS
  <2>2. QED
    BY <2>1, SiftExists
<1> DEFINE k == CHOOSE g : SiftsTo(s, S, Len(s), g)
<1>2. SiftsTo(s, S, Len(s), k)
  BY <1>1
<1>3. Sifted(s, S) = k[Len(s)]
  BY DEF Sifted, SiftsTo
<1>4. QED
  BY <1>2, <1>3

\* What one more element does to a list that holds the elements E, each once.
LEMMA AppendOnce ==
  ASSUME NEW T, NEW q \in Seq(T), NEW x \in T, NEW E, ToSet(q) = E
  PROVE  /\ Append(q, x) \in Seq(T)
         /\ ToSet(Append(q, x)) = E \cup {x}
         /\ IsInjective(q) /\ x \notin E => IsInjective(Append(q, x))
<1> DEFINE p == Append(q, x)
<1>1. /\ p \in Seq(T) /\ Len(q) \in Nat /\ Len(p) = Len(q) + 1
      /\ DOMAIN p = 1..Len(p) /\ DOMAIN q = 1..Len(q)
      /\ \A i \in 1..Len(q) : p[i] = q[i]
      /\ p[Len(q) + 1] = x
  OBVIOUS
<1> HIDE DEF p
<1>2. \A i \in DOMAIN p : i \in DOMAIN q \/ i = Len(q) + 1
  BY <1>1
<1>3. DOMAIN q \subseteq DOMAIN p /\ Len(q) + 1 \in DOMAIN p
  BY <1>1
<1>4. ToSet(p) = E \cup {x}
  <2>1. \A i \in DOMAIN p : p[i] \in E \cup {x}
    BY <1>1, <1>2 DEF ToSet
  <2>2. \A e \in E \cup {x} : \E i \in DOMAIN p : p[i] = e
    BY <1>1, <1>3 DEF ToSet
  <2>3. QED
    BY <2>1, <2>2 DEF ToSet
<1>5. ASSUME IsInjective(q), x \notin E PROVE IsInjective(p)
  <2>1. \A i \in DOMAIN q : q[i] # x
    BY <1>5 DEF ToSet
  <2>2. \A i, j \in DOMAIN p : p[i] = p[j] => i = j
    BY <1>1, <1>2, <1>5, <2>1 DEF IsInjective
  <2>3. QED
    BY <2>2 DEF IsInjective
<1>6. QED
  BY <1>1, <1>4, <1>5 DEF p

\* The elements of the first n, and whether they are different.
Until(s, n) == {s[i] : i \in 1..n}
Distinct(s, n) == \A i, j \in 1..n : s[i] = s[j] => i = j

\* What is kept of the first n.
SiftedUntil(T, s, S, g, n) ==
  /\ g[n] \in Seq(T)
  /\ ToSet(g[n]) = Until(s, n) \cap S
  /\ Distinct(s, n) => IsInjective(g[n])

LEMMA SiftedUntilNext ==
  ASSUME NEW T, NEW s \in Seq(T), NEW S, NEW g, NEW n \in Nat, n + 1 <= Len(s),
         SiftStep(s, S, g, n + 1), SiftedUntil(T, s, S, g, n)
  PROVE  SiftedUntil(T, s, S, g, n + 1)
<1>1. /\ n + 1 # 0 /\ (n + 1) - 1 = n /\ n + 1 \in 1..Len(s)
      /\ 1..n \subseteq 1..(n + 1) /\ n + 1 \in 1..(n + 1) /\ n + 1 \notin 1..n
      /\ \A i \in 1..(n + 1) : i \in 1..n \/ i = n + 1
  OBVIOUS
<1>2. s[n + 1] \in T
  BY <1>1
<1>3. g[n + 1] = IF s[n + 1] \in S THEN Append(g[n], s[n + 1]) ELSE g[n]
  BY <1>1 DEF SiftStep
<1>4. Until(s, n + 1) = Until(s, n) \cup {s[n + 1]}
  <2>1. \A i \in 1..(n + 1) : s[i] \in Until(s, n) \cup {s[n + 1]}
    BY <1>1 DEF Until
  <2>2. \A e \in Until(s, n) \cup {s[n + 1]} : \E i \in 1..(n + 1) : e = s[i]
    BY <1>1 DEF Until
  <2>3. QED
    BY <2>1, <2>2 DEF Until
<1>5. Distinct(s, n + 1) => Distinct(s, n) /\ s[n + 1] \notin Until(s, n)
  BY <1>1 DEF Distinct, Until
<1>6. g[n] \in Seq(T) /\ ToSet(g[n]) = Until(s, n) \cap S /\ (Distinct(s, n) => IsInjective(g[n]))
  BY DEF SiftedUntil
<1>7. CASE s[n + 1] \in S
  <2>1. g[n + 1] = Append(g[n], s[n + 1])
    BY <1>3, <1>7
  <2>2. /\ g[n + 1] \in Seq(T)
        /\ ToSet(g[n + 1]) = (Until(s, n) \cap S) \cup {s[n + 1]}
        /\ IsInjective(g[n]) /\ s[n + 1] \notin Until(s, n) \cap S => IsInjective(g[n + 1])
    BY <1>2, <1>6, <2>1, AppendOnce
  <2>3. (Until(s, n) \cap S) \cup {s[n + 1]} = Until(s, n + 1) \cap S
    BY <1>4, <1>7
  <2>4. QED
    BY <1>5, <1>6, <2>2, <2>3 DEF SiftedUntil
<1>8. CASE s[n + 1] \notin S
  <2>1. g[n + 1] = g[n] /\ Until(s, n + 1) \cap S = Until(s, n) \cap S
    BY <1>3, <1>4, <1>8
  <2>2. QED
    BY <1>5, <1>6, <2>1 DEF SiftedUntil
<1>9. QED
  BY <1>7, <1>8

\* What is kept is in the set, in the order it was in and each element as often:
\* its elements are those of s in S, and where s repeats nothing neither does it.
LEMMA SiftedFacts ==
  ASSUME NEW T, NEW s \in Seq(T), NEW S
  PROVE  /\ Sifted(s, S) \in Seq(T)
         /\ ToSet(Sifted(s, S)) = ToSet(s) \cap S
         /\ IsInjective(s) => IsInjective(Sifted(s, S))
<1>1. PICK g : SiftsTo(s, S, Len(s), g) /\ Sifted(s, S) = g[Len(s)]
  BY SiftedIsAStep
<1> DEFINE L == {n \in Nat : n <= Len(s) => SiftedUntil(T, s, S, g, n)}
<1>2. Len(s) \in Nat /\ DOMAIN s = 1..Len(s)
  OBVIOUS
<1>3. \A n \in 0..Len(s) : SiftStep(s, S, g, n)
  BY <1>1, <1>2 DEF SiftsTo, SiftStep
<1>4. 0 \in L
  <2>1. g[0] = <<>>
    BY <1>2, <1>3 DEF SiftStep
  <2>2. ToSet(g[0]) = {} /\ Until(s, 0) = {} /\ IsInjective(g[0]) /\ g[0] \in Seq(T)
    BY <2>1 DEF ToSet, Until, IsInjective
  <2>3. SiftedUntil(T, s, S, g, 0)
    BY <2>2 DEF SiftedUntil
  <2>4. QED
    BY <2>3
<1>5. ASSUME NEW n \in L PROVE n + 1 \in L
  <2>1. n \in Nat /\ n + 1 \in Nat
    OBVIOUS
  <2>2. ASSUME n + 1 <= Len(s) PROVE SiftedUntil(T, s, S, g, n + 1)
    <3>1. n <= Len(s) /\ n + 1 \in 0..Len(s)
      BY <1>2, <2>1, <2>2
    <3>2. SiftedUntil(T, s, S, g, n) /\ SiftStep(s, S, g, n + 1)
      BY <1>3, <3>1
    <3>3. QED
      BY <2>1, <2>2, <3>2, SiftedUntilNext
  <2>3. QED
    BY <2>1, <2>2
<1> HIDE DEF L
<1>6. L = Nat
  <2>1. L \in SUBSET Nat
    BY DEF L
  <2>2. QED
    BY <1>4, <1>5, <2>1, NatSetInduction
<1>7. SiftedUntil(T, s, S, g, Len(s))
  <2>1. Len(s) \in L /\ Len(s) <= Len(s)
    BY <1>2, <1>6
  <2>2. QED
    BY <2>1 DEF L
<1>8. Until(s, Len(s)) = ToSet(s) /\ (IsInjective(s) => Distinct(s, Len(s)))
  BY <1>2 DEF Until, ToSet, IsInjective, Distinct
<1>9. QED
  BY <1>1, <1>7, <1>8 DEF SiftedUntil

-----------------------------------------------------------------------------
(* Sequences one behind the other. *)

LEMMA ConcatOnce ==
  ASSUME NEW T, NEW p \in Seq(T), NEW q \in Seq(T)
  PROVE  /\ p \o q \in Seq(T)
         /\ ToSet(p \o q) = ToSet(p) \cup ToSet(q)
         /\ IsInjective(p) /\ IsInjective(q) /\ ToSet(p) \cap ToSet(q) = {}
              => IsInjective(p \o q)
<1> DEFINE r == p \o q
<1>1. /\ r \in Seq(T) /\ Len(p) \in Nat /\ Len(q) \in Nat /\ Len(r) = Len(p) + Len(q)
      /\ DOMAIN p = 1..Len(p) /\ DOMAIN q = 1..Len(q) /\ DOMAIN r = 1..(Len(p) + Len(q))
      /\ \A i \in 1..Len(p) : r[i] = p[i]
      /\ \A i \in 1..(Len(p) + Len(q)) : i > Len(p) => r[i] = q[i - Len(p)]
  OBVIOUS
<1> HIDE DEF r
<1>2. \A i \in DOMAIN r : \/ i \in DOMAIN p /\ r[i] = p[i]
                          \/ i > Len(p) /\ i - Len(p) \in DOMAIN q /\ r[i] = q[i - Len(p)]
  BY <1>1
<1>3. \A i \in DOMAIN p : i \in DOMAIN r /\ r[i] = p[i]
  BY <1>1
<1>4. \A i \in DOMAIN q : i + Len(p) \in DOMAIN r /\ r[i + Len(p)] = q[i]
  <2>1. ASSUME NEW i \in DOMAIN q
        PROVE  i + Len(p) \in 1..(Len(p) + Len(q)) /\ i + Len(p) > Len(p) /\ (i + Len(p)) - Len(p) = i
    BY <1>1
  <2>2. QED
    BY <1>1, <2>1
<1>5. ToSet(r) = ToSet(p) \cup ToSet(q)
  <2>1. \A i \in DOMAIN r : r[i] \in ToSet(p) \cup ToSet(q)
    BY <1>2 DEF ToSet
  <2>2. \A e \in ToSet(p) \cup ToSet(q) : \E i \in DOMAIN r : r[i] = e
    BY <1>3, <1>4 DEF ToSet
  <2>3. QED
    BY <2>1, <2>2 DEF ToSet
<1>6. ASSUME IsInjective(p), IsInjective(q), ToSet(p) \cap ToSet(q) = {}
      PROVE  IsInjective(r)
  <2>1. \A i \in DOMAIN p, j \in DOMAIN q : p[i] # q[j]
    BY <1>6 DEF ToSet
  <2>2. ASSUME NEW i \in DOMAIN r, NEW j \in DOMAIN r, r[i] = r[j] PROVE i = j
    <3>1. i \in Int /\ j \in Int
      BY <1>1
    <3>2. CASE i \in DOMAIN p /\ r[i] = p[i] /\ j \in DOMAIN p /\ r[j] = p[j]
      BY <1>6, <2>2, <3>2 DEF IsInjective
    <3>3. CASE /\ i > Len(p) /\ i - Len(p) \in DOMAIN q /\ r[i] = q[i - Len(p)]
               /\ j > Len(p) /\ j - Len(p) \in DOMAIN q /\ r[j] = q[j - Len(p)]
      <4>1. i - Len(p) = j - Len(p)
        BY <1>6, <2>2, <3>3 DEF IsInjective
      <4>2. QED
        BY <1>1, <3>1, <4>1
    <3>4. QED
      BY <1>2, <2>1, <2>2, <3>2, <3>3
  <2>3. QED
    BY <2>2 DEF IsInjective
<1>7. QED
  BY <1>1, <1>5, <1>6 DEF r

FlattensTo(seqs, n, g) ==
  g = [i \in 1..n |-> IF i = 1 THEN seqs[i] ELSE g[i - 1] \o seqs[i]]

FlattenStep(seqs, g, i) == g[i] = IF i = 1 THEN seqs[i] ELSE g[i - 1] \o seqs[i]

LEMMA FlattenEquation ==
  ASSUME NEW seqs, NEW n \in Nat, NEW g,
         g = [i \in 1..n |-> g[i]], \A i \in 1..n : FlattenStep(seqs, g, i)
  PROVE  FlattensTo(seqs, n, g)
  BY DEF FlattensTo, FlattenStep

LEMMA FlattenExists ==
  ASSUME NEW seqs, NEW n \in Nat
  PROVE  \E g : FlattensTo(seqs, n, g)
<1> DEFINE L == {m \in Nat : \E g : FlattensTo(seqs, m, g)}
<1>1. 0 \in L
  <2>1. FlattensTo(seqs, 0, [i \in 1..0 |-> <<>>])
    BY DEF FlattensTo
  <2>2. QED
    BY <2>1
<1>2. ASSUME NEW m \in L PROVE m + 1 \in L
  <2>1. PICK g : FlattensTo(seqs, m, g)
    OBVIOUS
  <2> DEFINE next == IF m + 1 = 1 THEN seqs[m + 1] ELSE g[m] \o seqs[m + 1]
             h == [i \in 1..(m + 1) |-> IF i = m + 1 THEN next ELSE g[i]]
  <2>2. m \in Nat /\ m + 1 \in Nat
    OBVIOUS
  <2>3. \A i \in 1..m : h[i] = g[i] /\ FlattenStep(seqs, g, i)
    <3>1. ASSUME NEW i \in 1..m PROVE h[i] = g[i]
      BY <2>2
    <3>2. ASSUME NEW i \in 1..m PROVE FlattenStep(seqs, g, i)
      BY <2>1, <2>2 DEF FlattensTo, FlattenStep
    <3>3. QED
      BY <3>1, <3>2
  <2>4. /\ h = [i \in 1..(m + 1) |-> h[i]]
        /\ h[m + 1] = next
    BY <2>2
  <2> HIDE DEF h
  <2>5. ASSUME NEW i \in 1..m PROVE FlattenStep(seqs, h, i)
    <3>1. CASE i = 1
      BY <2>3, <3>1 DEF FlattenStep
    <3>2. CASE i # 1
      <4>1. i - 1 \in 1..m
        BY <2>2, <3>2
      <4>2. QED
        BY <2>3, <3>2, <4>1 DEF FlattenStep
    <3>3. QED
      BY <3>1, <3>2
  <2>6. FlattenStep(seqs, h, m + 1)
    <3>1. CASE m + 1 = 1
      BY <2>4, <3>1 DEF FlattenStep
    <3>2. CASE m + 1 # 1
      <4>1. (m + 1) - 1 = m /\ m \in 1..m
        BY <2>2, <3>2
      <4>2. h[m] = g[m]
        BY <2>3, <4>1
      <4>3. QED
        BY <2>4, <3>2, <4>1, <4>2 DEF FlattenStep
    <3>3. QED
      BY <3>1, <3>2
  <2>7. \A i \in 1..(m + 1) : FlattenStep(seqs, h, i)
    <3>1. \A i \in 1..(m + 1) : i \in 1..m \/ i = m + 1
      BY <2>2
    <3>2. QED
      BY <2>5, <2>6, <3>1
  <2>8. QED
    BY <2>2, <2>4, <2>7, FlattenEquation
<1> HIDE DEF L
<1>3. L = Nat
  <2>1. L \in SUBSET Nat
    BY DEF L
  <2>2. QED
    BY <1>1, <1>2, <2>1, NatSetInduction
<1>4. QED
  BY <1>3 DEF L

LEMMA FlattenIsAStep ==
  ASSUME NEW T, NEW seqs \in Seq(T), Len(seqs) # 0
  PROVE  \E g : FlattensTo(seqs, Len(seqs), g) /\ FlattenSeq(seqs) = g[Len(seqs)]
<1>1. \E g : FlattensTo(seqs, Len(seqs), g)
  <2>1. Len(seqs) \in Nat
    OBVIOUS
  <2>2. QED
    BY <2>1, FlattenExists
<1> DEFINE k == CHOOSE g : FlattensTo(seqs, Len(seqs), g)
<1>2. FlattensTo(seqs, Len(seqs), k)
  BY <1>1
<1>3. FlattenSeq(seqs) = k[Len(seqs)]
  BY DEF FlattenSeq, FlattensTo
<1>4. QED
  BY <1>2, <1>3

\* No element twice, in one of the sequences or in two.
AllDistinct(seqs) ==
  \A g, h \in DOMAIN seqs : \A i \in DOMAIN seqs[g], j \in DOMAIN seqs[h] :
    seqs[g][i] = seqs[h][j] => g = h /\ i = j

FlatUntil(T, seqs, g, n) ==
  /\ g[n] \in Seq(T)
  /\ ToSet(g[n]) = UNION {ToSet(seqs[i]) : i \in 1..n}
  /\ AllDistinct(seqs) => IsInjective(g[n])

\* One behind the other they have the elements of all, and each once where no
\* two of them have one in common.
LEMMA FlattenFacts ==
  ASSUME NEW T, NEW seqs \in Seq(Seq(T))
  PROVE  /\ FlattenSeq(seqs) \in Seq(T)
         /\ ToSet(FlattenSeq(seqs)) = UNION {ToSet(seqs[i]) : i \in DOMAIN seqs}
         /\ AllDistinct(seqs) => IsInjective(FlattenSeq(seqs))
<1>1. Len(seqs) \in Nat /\ DOMAIN seqs = 1..Len(seqs) /\ \A i \in 1..Len(seqs) : seqs[i] \in Seq(T)
  OBVIOUS
<1>2. CASE Len(seqs) = 0
  <2>1. seqs = <<>> /\ FlattenSeq(seqs) = seqs
    BY <1>2 DEF FlattenSeq
  <2>2. DOMAIN seqs = {} /\ seqs \in Seq(T) /\ DOMAIN FlattenSeq(seqs) = {}
    BY <2>1
  <2>3. ToSet(FlattenSeq(seqs)) = {} /\ IsInjective(FlattenSeq(seqs))
    BY <2>2 DEF ToSet, IsInjective
  <2>4. QED
    BY <2>1, <2>2, <2>3
<1>3. CASE Len(seqs) # 0
  <2>1. PICK g : FlattensTo(seqs, Len(seqs), g) /\ FlattenSeq(seqs) = g[Len(seqs)]
    BY <1>3, FlattenIsAStep
  <2>2. \A n \in 1..Len(seqs) : FlattenStep(seqs, g, n)
    BY <1>1, <2>1 DEF FlattensTo, FlattenStep
  <2> DEFINE L == {n \in Nat : n + 1 <= Len(seqs) => FlatUntil(T, seqs, g, n + 1)}
  <2>3. 0 \in L
    <3>1. g[1] = seqs[1] /\ seqs[1] \in Seq(T) /\ 1 \in DOMAIN seqs
      BY <1>1, <1>3, <2>2 DEF FlattenStep
    <3>2. UNION {ToSet(seqs[i]) : i \in 1..1} = ToSet(seqs[1])
      OBVIOUS
    <3>3. AllDistinct(seqs) => IsInjective(seqs[1])
      BY <3>1 DEF AllDistinct, IsInjective
    <3>4. FlatUntil(T, seqs, g, 1)
      BY <3>1, <3>2, <3>3 DEF FlatUntil
    <3>5. QED
      BY <3>4
  <2>4. ASSUME NEW m \in L PROVE m + 1 \in L
    <3> DEFINE n == m + 1
    <3>1. m \in Nat /\ n \in Nat /\ n # 0
      OBVIOUS
    <3>2. ASSUME n + 1 <= Len(seqs) PROVE FlatUntil(T, seqs, g, n + 1)
      <4>1. FlatUntil(T, seqs, g, n)
        BY <1>1, <3>1, <3>2
      <4> HIDE DEF n, L
      <4>2. /\ n + 1 \in 1..Len(seqs) /\ n + 1 # 1 /\ (n + 1) - 1 = n
            /\ \A i \in 1..(n + 1) : i \in 1..n \/ i = n + 1
            /\ \A i \in 1..n : i \in 1..(n + 1) /\ i # n + 1 /\ i \in DOMAIN seqs
            /\ n + 1 \in 1..(n + 1)
        BY <1>1, <3>1, <3>2
      <4>3. g[n + 1] = g[n] \o seqs[n + 1] /\ seqs[n + 1] \in Seq(T)
        BY <1>1, <2>2, <4>2 DEF FlattenStep
      <4>4. /\ g[n] \in Seq(T)
            /\ ToSet(g[n]) = UNION {ToSet(seqs[i]) : i \in 1..n}
            /\ AllDistinct(seqs) => IsInjective(g[n])
        BY <4>1 DEF FlatUntil
      <4>5. /\ g[n + 1] \in Seq(T)
            /\ ToSet(g[n + 1]) = ToSet(g[n]) \cup ToSet(seqs[n + 1])
            /\ IsInjective(g[n]) /\ IsInjective(seqs[n + 1]) /\ ToSet(g[n]) \cap ToSet(seqs[n + 1]) = {}
                 => IsInjective(g[n + 1])
        BY <4>3, <4>4, ConcatOnce
      <4>6. ToSet(g[n + 1]) = UNION {ToSet(seqs[i]) : i \in 1..(n + 1)}
        <5>1. \A e \in ToSet(g[n + 1]) : \E i \in 1..(n + 1) : e \in ToSet(seqs[i])
          BY <4>2, <4>4, <4>5
        <5>2. \A i \in 1..(n + 1) : ToSet(seqs[i]) \subseteq ToSet(g[n + 1])
          BY <4>2, <4>4, <4>5
        <5>3. QED
          BY <5>1, <5>2
      <4>7. ASSUME AllDistinct(seqs)
            PROVE  IsInjective(seqs[n + 1]) /\ ToSet(g[n]) \cap ToSet(seqs[n + 1]) = {}
        <5>1. n + 1 \in DOMAIN seqs
          BY <1>1, <4>2
        <5>2. IsInjective(seqs[n + 1])
          BY <4>7, <5>1 DEF AllDistinct, IsInjective
        <5>3. \A i \in 1..n : ToSet(seqs[i]) \cap ToSet(seqs[n + 1]) = {}
          BY <4>2, <4>7, <5>1 DEF AllDistinct, ToSet
        <5>4. QED
          BY <4>4, <5>2, <5>3
      <4>8. QED
        BY <4>4, <4>5, <4>6, <4>7 DEF FlatUntil
    <3>3. QED
      BY <3>1, <3>2
  <2> HIDE DEF L
  <2>5. L = Nat
    <3>1. L \in SUBSET Nat
      BY DEF L
    <3>2. QED
      BY <2>3, <2>4, <3>1, NatSetInduction
  <2>6. FlatUntil(T, seqs, g, Len(seqs))
    <3>1. Len(seqs) - 1 \in Nat /\ (Len(seqs) - 1) + 1 = Len(seqs)
      BY <1>1, <1>3
    <3>2. Len(seqs) - 1 \in L
      BY <2>5, <3>1
    <3>3. QED
      BY <1>1, <3>1, <3>2 DEF L
  <2>7. QED
    BY <1>1, <2>1, <2>6 DEF FlatUntil
<1>4. QED
  BY <1>2, <1>3

-----------------------------------------------------------------------------
(* What sifting leaves alone. *)

\* As long as every element is in the set, all of them are kept.
LEMMA SiftedWithin ==
  ASSUME NEW T, NEW s \in Seq(T), NEW S, NEW g,
         \A i \in 0..Len(s) : SiftStep(s, S, g, i),
         NEW k \in 0..Len(s), \A i \in 1..k : s[i] \in S
  PROVE  g[k] = SubSeq(s, 1, k)
<1> DEFINE L == {n \in Nat : n <= k => g[n] = SubSeq(s, 1, n)}
<1>1. Len(s) \in Nat /\ k \in Nat /\ k <= Len(s)
  OBVIOUS
<1>2. 0 \in L
  <2>1. g[0] = <<>>
    BY <1>1 DEF SiftStep
  <2>2. SubSeq(s, 1, 0) = <<>>
    OBVIOUS
  <2>3. QED
    BY <2>1, <2>2
<1>3. ASSUME NEW n \in L PROVE n + 1 \in L
  <2>1. n \in Nat
    OBVIOUS
  <2>2. SUFFICES ASSUME n + 1 <= k PROVE g[n + 1] = SubSeq(s, 1, n + 1)
    BY <2>1
  <2>3. g[n] = SubSeq(s, 1, n)
    BY <1>1, <2>1, <2>2
  <2>4. n + 1 \in 0..Len(s) /\ n + 1 \in 1..k /\ n + 1 # 0 /\ (n + 1) - 1 = n
    BY <1>1, <2>1, <2>2
  <2>5. g[n + 1] = Append(SubSeq(s, 1, n), s[n + 1])
    BY <2>3, <2>4 DEF SiftStep
  <2> HIDE DEF L
  <2>6. Append(SubSeq(s, 1, n), s[n + 1]) = SubSeq(s, 1, n + 1)
    BY <1>1, <2>1, <2>2
  <2>7. QED
    BY <2>5, <2>6
<1> HIDE DEF L
<1>4. L = Nat
  <2>1. L \in SUBSET Nat
    BY DEF L
  <2>2. QED
    BY <1>2, <1>3, <2>1, NatSetInduction
<1>5. QED
  BY <1>1, <1>4 DEF L

LEMMA SiftedIsAll ==
  ASSUME NEW S, NEW s \in Seq(S)
  PROVE  Sifted(s, S) = s
<1>1. PICK g : SiftsTo(s, S, Len(s), g) /\ Sifted(s, S) = g[Len(s)]
  BY SiftedIsAStep
<1>2. Len(s) \in Nat /\ Len(s) \in 0..Len(s) /\ \A i \in 1..Len(s) : s[i] \in S
  OBVIOUS
<1>3. \A i \in 0..Len(s) : SiftStep(s, S, g, i)
  BY <1>1, <1>2 DEF SiftsTo, SiftStep
<1>4. g[Len(s)] = SubSeq(s, 1, Len(s))
  BY <1>2, <1>3, SiftedWithin
<1>5. QED
  BY <1>1, <1>4

\* A last element that is not in the set goes.
LEMMA SiftedButTheLast ==
  ASSUME NEW S, NEW s \in Seq(S), NEW x, x \notin S
  PROVE  Sifted(Append(s, x), S) = s
<1> DEFINE t == Append(s, x)
<1> DEFINE U == S \cup {x}
<1>1. /\ t \in Seq(U) /\ Len(s) \in Nat /\ Len(t) = Len(s) + 1
      /\ \A i \in 1..Len(s) : t[i] = s[i] /\ s[i] \in S
      /\ t[Len(t)] = x /\ SubSeq(t, 1, Len(s)) = s
  OBVIOUS
<1> HIDE DEF t, U
<1>2. PICK g : SiftsTo(t, S, Len(t), g) /\ Sifted(t, S) = g[Len(t)]
  BY <1>1, SiftedIsAStep
<1>3. \A i \in 0..Len(t) : SiftStep(t, S, g, i)
  BY <1>1, <1>2 DEF SiftsTo, SiftStep
<1>4. Len(s) \in 0..Len(t) /\ \A i \in 1..Len(s) : t[i] \in S
  BY <1>1
<1>5. g[Len(s)] = SubSeq(t, 1, Len(s))
  BY <1>1, <1>3, <1>4, SiftedWithin, ZenonT(60)
<1>6. g[Len(t)] = g[Len(s)]
  <2>1. Len(t) \in 0..Len(t) /\ Len(t) # 0 /\ Len(t) - 1 = Len(s)
    BY <1>1
  <2>2. QED
    BY <1>1, <1>3, <2>1 DEF SiftStep
<1>7. QED
  BY <1>1, <1>2, <1>5, <1>6 DEF t

-----------------------------------------------------------------------------
(* Adding up. *)

TotalsTo(s, n, g) == g = [i \in 0..n |-> IF i = 0 THEN 0 ELSE g[i - 1] + s[i]]
TotalStep(s, g, i) == g[i] = IF i = 0 THEN 0 ELSE g[i - 1] + s[i]

LEMMA TotalEquation ==
  ASSUME NEW s, NEW n \in Nat, NEW g,
         g = [i \in 0..n |-> g[i]], \A i \in 0..n : TotalStep(s, g, i)
  PROVE  TotalsTo(s, n, g)
  BY DEF TotalsTo, TotalStep

LEMMA TotalExists ==
  ASSUME NEW s, NEW n \in Nat
  PROVE  \E g : TotalsTo(s, n, g)
<1> DEFINE L == {m \in Nat : \E g : TotalsTo(s, m, g)}
<1>1. 0 \in L
  <2>1. TotalsTo(s, 0, [i \in 0..0 |-> 0])
    BY DEF TotalsTo
  <2>2. QED
    BY <2>1
<1>2. ASSUME NEW m \in L PROVE m + 1 \in L
  <2>1. PICK g : TotalsTo(s, m, g)
    OBVIOUS
  <2> DEFINE next == g[m] + s[m + 1]
             h == [i \in 0..(m + 1) |-> IF i = m + 1 THEN next ELSE g[i]]
  <2>2. m \in Nat /\ m + 1 \in Nat
    OBVIOUS
  <2>3. \A i \in 0..m : h[i] = g[i] /\ TotalStep(s, g, i)
    <3>1. ASSUME NEW i \in 0..m PROVE h[i] = g[i]
      BY <2>2
    <3>2. ASSUME NEW i \in 0..m PROVE TotalStep(s, g, i)
      BY <2>1, <2>2 DEF TotalsTo, TotalStep
    <3>3. QED
      BY <3>1, <3>2
  <2>4. h = [i \in 0..(m + 1) |-> h[i]] /\ h[m + 1] = next
    BY <2>2
  <2> HIDE DEF h
  <2>5. ASSUME NEW i \in 0..m PROVE TotalStep(s, h, i)
    <3>1. CASE i = 0
      BY <2>3, <3>1 DEF TotalStep
    <3>2. CASE i # 0
      <4>1. i - 1 \in 0..m
        BY <2>2, <3>2
      <4>2. QED
        BY <2>3, <4>1 DEF TotalStep
    <3>3. QED
      BY <3>1, <3>2
  <2>6. TotalStep(s, h, m + 1)
    <3>1. m + 1 # 0 /\ (m + 1) - 1 = m /\ h[m] = g[m]
      BY <2>2, <2>3
    <3>2. QED
      BY <2>4, <3>1 DEF TotalStep
  <2>7. \A i \in 0..(m + 1) : TotalStep(s, h, i)
    <3>1. \A i \in 0..(m + 1) : i \in 0..m \/ i = m + 1
      BY <2>2
    <3>2. QED
      BY <2>5, <2>6, <3>1
  <2>8. QED
    BY <2>2, <2>4, <2>7, TotalEquation
<1> HIDE DEF L
<1>3. L = Nat
  <2>1. L \in SUBSET Nat
    BY DEF L
  <2>2. QED
    BY <1>1, <1>2, <2>1, NatSetInduction
<1>4. QED
  BY <1>3 DEF L

LEMMA TotalIsAStep ==
  ASSUME NEW T, NEW s \in Seq(T)
  PROVE  \E g : (\A i \in 0..Len(s) : TotalStep(s, g, i)) /\ Total(s) = g[Len(s)]
<1>1. \E g : TotalsTo(s, Len(s), g)
  <2>1. Len(s) \in Nat
    OBVIOUS
  <2>2. QED
    BY <2>1, TotalExists
<1> DEFINE k == CHOOSE g : TotalsTo(s, Len(s), g)
<1>2. TotalsTo(s, Len(s), k)
  BY <1>1
<1>3. Total(s) = k[Len(s)]
  BY DEF Total, TotalsTo
<1> HIDE DEF k
<1>4. \A i \in 0..Len(s) : TotalStep(s, k, i)
  BY <1>2 DEF TotalsTo, TotalStep
<1>5. QED
  BY <1>3, <1>4

LEMMA TotalIsNat ==
  ASSUME NEW s \in Seq(Nat)
  PROVE  Total(s) \in Nat
<1>1. PICK g : (\A i \in 0..Len(s) : TotalStep(s, g, i)) /\ Total(s) = g[Len(s)]
  BY TotalIsAStep
<1> DEFINE L == {n \in Nat : n <= Len(s) => g[n] \in Nat}
<1>2. Len(s) \in Nat
  OBVIOUS
<1>3. 0 \in L
  BY <1>1, <1>2 DEF TotalStep
<1>4. ASSUME NEW n \in L PROVE n + 1 \in L
  <2>1. n \in Nat
    OBVIOUS
  <2>2. SUFFICES ASSUME n + 1 <= Len(s) PROVE g[n + 1] \in Nat
    BY <2>1
  <2>3. n + 1 \in 0..Len(s) /\ n + 1 # 0 /\ (n + 1) - 1 = n /\ g[n] \in Nat /\ s[n + 1] \in Nat
    BY <1>2, <2>1, <2>2
  <2>4. g[n + 1] = g[n] + s[n + 1]
    BY <1>1, <2>3 DEF TotalStep
  <2>5. QED
    BY <2>3, <2>4
<1> HIDE DEF L
<1>5. L = Nat
  <2>1. L \in SUBSET Nat
    BY DEF L
  <2>2. QED
    BY <1>3, <1>4, <2>1, NatSetInduction
<1>6. QED
  BY <1>1, <1>2, <1>5 DEF L

\* A sequence's total is what its two parts add up to.
LEMMA TotalOfBoth ==
  ASSUME NEW s \in Seq(Nat), NEW t \in Seq(Nat)
  PROVE  Total(s \o t) = Total(s) + Total(t)
<1> DEFINE r == s \o t
<1>1. /\ r \in Seq(Nat) /\ Len(s) \in Nat /\ Len(t) \in Nat /\ Len(r) = Len(s) + Len(t)
      /\ \A i \in 1..Len(s) : r[i] = s[i]
      /\ \A i \in 1..Len(t) : r[Len(s) + i] = t[i]
  OBVIOUS
<1>2. Total(s) \in Nat /\ Total(t) \in Nat
  BY TotalIsNat
<1> HIDE DEF r
<1>3. PICK f : (\A i \in 0..Len(s) : TotalStep(s, f, i)) /\ Total(s) = f[Len(s)]
  BY TotalIsAStep
<1>4. PICK g : (\A i \in 0..Len(t) : TotalStep(t, g, i)) /\ Total(t) = g[Len(t)]
  BY TotalIsAStep
<1>5. PICK h : (\A i \in 0..Len(r) : TotalStep(r, h, i)) /\ Total(r) = h[Len(r)]
  BY <1>1, TotalIsAStep
<1> DEFINE L == {n \in Nat : n <= Len(s) => h[n] = f[n]}
<1>6. 0 \in L
  BY <1>1, <1>3, <1>5 DEF TotalStep
<1>7. ASSUME NEW n \in L PROVE n + 1 \in L
  <2>1. n \in Nat
    OBVIOUS
  <2>2. SUFFICES ASSUME n + 1 <= Len(s) PROVE h[n + 1] = f[n + 1]
    BY <2>1
  <2>3. /\ n + 1 \in 0..Len(s) /\ n + 1 \in 0..Len(r) /\ n + 1 # 0 /\ (n + 1) - 1 = n
        /\ h[n] = f[n] /\ r[n + 1] = s[n + 1]
    BY <1>1, <2>1, <2>2
  <2>4. h[n + 1] = h[n] + r[n + 1] /\ f[n + 1] = f[n] + s[n + 1]
    BY <1>3, <1>5, <2>3 DEF TotalStep
  <2>5. QED
    BY <2>3, <2>4
<1> HIDE DEF L
<1>8. L = Nat
  <2>1. L \in SUBSET Nat
    BY DEF L
  <2>2. QED
    BY <1>6, <1>7, <2>1, NatSetInduction
<1>9. h[Len(s)] = Total(s)
  <2>1. Len(s) \in L /\ Len(s) <= Len(s)
    BY <1>1, <1>8
  <2>2. h[Len(s)] = f[Len(s)]
    BY <2>1 DEF L
  <2>3. QED
    BY <1>3, <2>2
<1> DEFINE M == {n \in Nat : n <= Len(t) => g[n] \in Nat /\ h[Len(s) + n] = Total(s) + g[n]}
<1>10. 0 \in M
  <2>1. g[0] = 0 /\ Len(s) + 0 = Len(s)
    BY <1>1, <1>4 DEF TotalStep
  <2>2. QED
    BY <1>2, <1>9, <2>1
<1>11. ASSUME NEW n \in M PROVE n + 1 \in M
  <2>1. n \in Nat
    OBVIOUS
  <2>2. SUFFICES ASSUME n + 1 <= Len(t)
                 PROVE  g[n + 1] \in Nat /\ h[Len(s) + (n + 1)] = Total(s) + g[n + 1]
    BY <2>1
  <2>3. g[n] \in Nat /\ h[Len(s) + n] = Total(s) + g[n]
    BY <1>1, <2>1, <2>2
  <2>4. /\ n + 1 \in 0..Len(t) /\ n + 1 # 0 /\ (n + 1) - 1 = n /\ n + 1 \in 1..Len(t)
        /\ Len(s) + (n + 1) \in 0..Len(r) /\ Len(s) + (n + 1) # 0
        /\ (Len(s) + (n + 1)) - 1 = Len(s) + n
    <3>1. Len(s) \in Nat /\ Len(t) \in Nat /\ Len(r) = Len(s) + Len(t)
      BY <1>1
    <3>2. \A a, b, c, d \in Nat : c = a + b /\ d + 1 <= b =>
            /\ d + 1 \in 0..b /\ d + 1 # 0 /\ (d + 1) - 1 = d /\ d + 1 \in 1..b
            /\ a + (d + 1) \in 0..c /\ a + (d + 1) # 0 /\ (a + (d + 1)) - 1 = a + d
      OBVIOUS
    <3>3. QED
      BY <2>1, <2>2, <3>1, <3>2
  <2>8. t[n + 1] \in Nat
    BY <2>4
  <2>5. r[Len(s) + (n + 1)] = t[n + 1]
    BY <1>1, <2>4
  <2>6. g[n + 1] = g[n] + t[n + 1] /\ h[Len(s) + (n + 1)] = h[Len(s) + n] + r[Len(s) + (n + 1)]
    BY <1>4, <1>5, <2>4 DEF TotalStep
  <2>9. h[Len(s) + (n + 1)] = (Total(s) + g[n]) + t[n + 1]
    BY <2>3, <2>5, <2>6
  <2>10. h[Len(s) + (n + 1)] = Total(s) + g[n + 1]
    <3>1. \A a, b, c \in Nat : (a + b) + c = a + (b + c)
      OBVIOUS
    <3>2. QED
      BY <1>2, <2>3, <2>6, <2>8, <2>9, <3>1
  <2>11. g[n + 1] \in Nat
    BY <2>3, <2>6, <2>8
  <2>7. QED
    BY <2>10, <2>11
<1> HIDE DEF M
<1>12. M = Nat
  <2>1. M \in SUBSET Nat
    BY DEF M
  <2>2. QED
    BY <1>10, <1>11, <2>1, NatSetInduction
<1>13. h[Len(s) + Len(t)] = Total(s) + Total(t)
  BY <1>1, <1>4, <1>12, SMTT(30) DEF M
<1>14. QED
  BY <1>1, <1>5, <1>13 DEF r

LEMMA TotalOfFew ==
  ASSUME NEW x \in Nat, NEW y \in Nat
  PROVE  Total(<<>>) = 0 /\ Total(<<x>>) = x /\ Total(<<x, y>>) = x + y
<1>1. Total(<<>>) = 0
  <2> DEFINE s == <<>>
  <2>1. s \in Seq(Nat) /\ Len(s) = 0 /\ 0 \in 0..Len(s)
    OBVIOUS
  <2> HIDE DEF s
  <2>2. PICK g : (\A i \in 0..Len(s) : TotalStep(s, g, i)) /\ Total(s) = g[Len(s)]
    BY <2>1, TotalIsAStep
  <2>3. QED
    BY <2>1, <2>2 DEF TotalStep, s
<1>2. ASSUME NEW z \in Nat PROVE Total(<<z>>) = z
  <2> DEFINE s == <<z>>
  <2>1. s \in Seq(Nat) /\ Len(s) = 1 /\ s[1] = z
    OBVIOUS
  <2> HIDE DEF s
  <2>2. PICK g : (\A i \in 0..Len(s) : TotalStep(s, g, i)) /\ Total(s) = g[Len(s)]
    BY <2>1, TotalIsAStep
  <2>3. TotalStep(s, g, 0) /\ TotalStep(s, g, 1)
    BY <2>1, <2>2
  <2>4. g[0] = 0 /\ g[1] = g[0] + z
    BY <2>1, <2>3 DEF TotalStep
  <2>5. QED
    BY <2>1, <2>2, <2>4 DEF s
<1>3. Total(<<x, y>>) = x + y
  <2> DEFINE s == <<x, y>>
  <2>1. s \in Seq(Nat) /\ Len(s) = 2 /\ s[1] = x /\ s[2] = y
    OBVIOUS
  <2> HIDE DEF s
  <2>2. PICK g : (\A i \in 0..Len(s) : TotalStep(s, g, i)) /\ Total(s) = g[Len(s)]
    BY <2>1, TotalIsAStep
  <2>3. TotalStep(s, g, 0) /\ TotalStep(s, g, 1) /\ TotalStep(s, g, 2)
    BY <2>1, <2>2
  <2>4. g[0] = 0 /\ g[1] = g[0] + x /\ g[2] = g[1] + y
    BY <2>1, <2>3 DEF TotalStep
  <2>5. QED
    BY <2>1, <2>2, <2>4 DEF s
<1>4. QED
  BY <1>1, <1>2, <1>3

-----------------------------------------------------------------------------
(* Ends of sequences. *)

LEMMA EndIsSuffix ==
  ASSUME NEW T, NEW p \in Seq(T), NEW s \in Seq(T)
  PROVE  IsSuffix(s, p \o s)
<1> DEFINE t == p \o s
           a == Reverse(s)
           b == Reverse(t)
<1>1. /\ t \in Seq(T) /\ Len(p) \in Nat /\ Len(s) \in Nat /\ Len(t) = Len(p) + Len(s)
      /\ \A i \in 1..Len(s) : t[Len(p) + i] = s[i]
  OBVIOUS
<1> HIDE DEF t
<1>2. a = [i \in 1..Len(s) |-> s[(Len(s) - i) + 1]] /\ b = [i \in 1..Len(t) |-> t[(Len(t) - i) + 1]]
  BY DEF Reverse
<1> HIDE DEF a, b
<1>3. \A i \in 1..Len(s) : s[(Len(s) - i) + 1] \in T
  BY <1>1
<1>4. \A i \in 1..Len(t) : t[(Len(t) - i) + 1] \in T
  BY <1>1
<1>5. a \in Seq(T) /\ Len(a) = Len(s)
  BY <1>1, <1>2, <1>3
<1>6. b \in Seq(T) /\ Len(b) = Len(t)
  BY <1>1, <1>2, <1>4
<1>7. ASSUME NEW i \in 1..Len(s) PROVE a[i] = b[i]
  <2>1. /\ i \in 1..Len(t) /\ (Len(s) - i) + 1 \in 1..Len(s)
        /\ (Len(t) - i) + 1 = Len(p) + ((Len(s) - i) + 1)
    BY <1>1
  <2>2. a[i] = s[(Len(s) - i) + 1] /\ b[i] = t[Len(p) + ((Len(s) - i) + 1)]
    BY <1>2, <2>1
  <2>3. QED
    BY <1>1, <2>1, <2>2
<1>8. SubSeq(a, 1, Len(a)) = SubSeq(b, 1, Len(a))
  <2>1. SubSeq(a, 1, Len(a)) = [i \in 1..Len(s) |-> a[i]]
    BY <1>1, <1>5
  <2>2. SubSeq(b, 1, Len(a)) = [i \in 1..Len(s) |-> b[i]]
    BY <1>1, <1>5, <1>6
  <2>3. QED
    BY <1>7, <2>1, <2>2
<1>9. Len(a) <= Len(b)
  BY <1>1, <1>5, <1>6
<1>10. QED
  BY <1>8, <1>9 DEF IsSuffix, IsPrefix, a, b, t

-----------------------------------------------------------------------------
(* Picking positions. *)

PicksTo(s, I, n, g) ==
  g = [i \in 0..n |-> IF i = 0 THEN <<>>
                      ELSE IF i \in I THEN Append(g[i - 1], s[i])
                      ELSE g[i - 1]]

PickStep(s, I, g, i) ==
  g[i] = IF i = 0 THEN <<>>
         ELSE IF i \in I THEN Append(g[i - 1], s[i])
         ELSE g[i - 1]

LEMMA PickEquation ==
  ASSUME NEW s, NEW I, NEW n \in Nat, NEW g,
         g = [i \in 0..n |-> g[i]], \A i \in 0..n : PickStep(s, I, g, i)
  PROVE  PicksTo(s, I, n, g)
  BY DEF PicksTo, PickStep

LEMMA PickExists ==
  ASSUME NEW s, NEW I, NEW n \in Nat
  PROVE  \E g : PicksTo(s, I, n, g)
<1> DEFINE L == {m \in Nat : \E g : PicksTo(s, I, m, g)}
<1>1. 0 \in L
  <2>1. PicksTo(s, I, 0, [i \in 0..0 |-> <<>>])
    BY DEF PicksTo
  <2>2. QED
    BY <2>1
<1>2. ASSUME NEW m \in L PROVE m + 1 \in L
  <2>1. PICK g : PicksTo(s, I, m, g)
    OBVIOUS
  <2> DEFINE next == IF m + 1 \in I THEN Append(g[m], s[m + 1]) ELSE g[m]
             h == [i \in 0..(m + 1) |-> IF i = m + 1 THEN next ELSE g[i]]
  <2>2. m \in Nat /\ m + 1 \in Nat
    OBVIOUS
  <2>3. \A i \in 0..m : h[i] = g[i] /\ PickStep(s, I, g, i)
    <3>1. ASSUME NEW i \in 0..m PROVE h[i] = g[i]
      BY <2>2
    <3>2. ASSUME NEW i \in 0..m PROVE PickStep(s, I, g, i)
      BY <2>1, <2>2 DEF PicksTo, PickStep
    <3>3. QED
      BY <3>1, <3>2
  <2>4. /\ h = [i \in 0..(m + 1) |-> h[i]]
        /\ h[m + 1] = next
    BY <2>2
  <2> HIDE DEF h
  <2>5. ASSUME NEW i \in 0..m PROVE PickStep(s, I, h, i)
    <3>1. CASE i = 0
      BY <2>3, <3>1 DEF PickStep
    <3>2. CASE i # 0
      <4>1. i - 1 \in 0..m
        BY <2>2, <3>2
      <4>2. QED
        BY <2>3, <4>1 DEF PickStep
    <3>3. QED
      BY <3>1, <3>2
  <2>6. PickStep(s, I, h, m + 1)
    <3>1. m + 1 # 0 /\ (m + 1) - 1 = m /\ h[m] = g[m]
      BY <2>2, <2>3
    <3>2. QED
      BY <2>4, <3>1 DEF PickStep
  <2>7. \A i \in 0..(m + 1) : PickStep(s, I, h, i)
    <3>1. \A i \in 0..(m + 1) : i \in 0..m \/ i = m + 1
      BY <2>2
    <3>2. QED
      BY <2>5, <2>6, <3>1
  <2>8. QED
    BY <2>2, <2>4, <2>7, PickEquation
<1> HIDE DEF L
<1>3. L = Nat
  <2>1. L \in SUBSET Nat
    BY DEF L
  <2>2. QED
    BY <1>1, <1>2, <2>1, NatSetInduction
<1>4. QED
  BY <1>3 DEF L

\* t holds the elements of s at the positions of I up to n, in their order.
InOrder(s, I, n, t, f) ==
  /\ f \in [1..Len(t) -> I \cap (1..n)]
  /\ \A k \in 1..Len(t) : t[k] = s[f[k]]
  /\ \A j, k \in 1..Len(t) : j < k => f[j] < f[k]
  /\ \A i \in I \cap (1..n) : \E k \in 1..Len(t) : f[k] = i

LEMMA InOrderNext ==
  ASSUME NEW T, NEW s \in Seq(T), NEW I, NEW n \in Nat, n + 1 <= Len(s),
         NEW t \in Seq(T), NEW f, InOrder(s, I, n, t, f), n + 1 \in I
  PROVE  /\ Append(t, s[n + 1]) \in Seq(T)
         /\ \E h : InOrder(s, I, n + 1, Append(t, s[n + 1]), h)
<1> DEFINE u == Append(t, s[n + 1])
           h == [k \in 1..(Len(t) + 1) |-> IF k = Len(t) + 1 THEN n + 1 ELSE f[k]]
<1>1. /\ s[n + 1] \in T /\ Len(t) \in Nat
      /\ u \in Seq(T) /\ Len(u) = Len(t) + 1 /\ u[Len(t) + 1] = s[n + 1]
      /\ \A k \in 1..Len(t) : u[k] = t[k]
  OBVIOUS
<1>2. /\ \A k \in 1..(Len(t) + 1) : k \in 1..Len(t) \/ k = Len(t) + 1
      /\ Len(t) + 1 \in 1..(Len(t) + 1) /\ \A k \in 1..Len(t) : k \in 1..(Len(t) + 1) /\ k # Len(t) + 1
      /\ \A i \in I \cap (1..n) : i \in I \cap (1..(n + 1)) /\ i < n + 1
      /\ \A i \in I \cap (1..(n + 1)) : i \in I \cap (1..n) \/ i = n + 1
      /\ n + 1 \in I \cap (1..(n + 1))
  BY <1>1
<1>3. h[Len(t) + 1] = n + 1 /\ \A k \in 1..Len(t) : h[k] = f[k] /\ f[k] \in I \cap (1..n)
  BY <1>2 DEF InOrder
<1>4. h \in [1..(Len(t) + 1) -> I \cap (1..(n + 1))]
  <2>1. ASSUME NEW k \in 1..(Len(t) + 1)
        PROVE  (IF k = Len(t) + 1 THEN n + 1 ELSE f[k]) \in I \cap (1..(n + 1))
    BY <1>2, <1>3
  <2> QED
    BY <2>1
<1> HIDE DEF u, h
<1>5. \A k \in 1..Len(u) : u[k] = s[h[k]]
  BY <1>1, <1>2, <1>3 DEF InOrder
<1>6. ASSUME NEW j \in 1..Len(u), NEW k \in 1..Len(u), j < k PROVE h[j] < h[k]
  <2>1. j \in 1..Len(t)
    BY <1>1, <1>6
  <2>2. CASE k \in 1..Len(t)
    BY <1>3, <1>6, <2>1, <2>2 DEF InOrder
  <2>3. CASE k = Len(t) + 1
    BY <1>2, <1>3, <2>1, <2>3
  <2> QED
    BY <1>1, <1>2, <2>2, <2>3
<1>7. \A i \in I \cap (1..(n + 1)) : \E k \in 1..Len(u) : h[k] = i
  <2>1. ASSUME NEW i \in I \cap (1..n) PROVE \E k \in 1..Len(u) : h[k] = i
    <3>1. PICK k \in 1..Len(t) : f[k] = i
      BY DEF InOrder
    <3> QED
      BY <1>1, <1>2, <1>3, <3>1
  <2> QED
    BY <1>1, <1>2, <1>3, <2>1
<1>8. InOrder(s, I, n + 1, u, h)
  BY <1>1, <1>4, <1>5, <1>6, <1>7 DEF InOrder
<1> QED
  BY <1>1, <1>8 DEF u

\* What is picked is what stands at the positions, in their order.
LEMMA PickedFacts ==
  ASSUME NEW T, NEW s \in Seq(T), NEW I
  PROVE  /\ Picked(s, I) \in Seq(T)
         /\ \E f : InOrder(s, I, Len(s), Picked(s, I), f)
<1>1. Len(s) \in Nat
  OBVIOUS
<1> DEFINE g == CHOOSE h : PicksTo(s, I, Len(s), h)
<1>2. PicksTo(s, I, Len(s), g)
  BY <1>1, PickExists
<1>3. Picked(s, I) = g[Len(s)]
  BY DEF Picked, PicksTo
<1> HIDE DEF g
<1>4. \A n \in 0..Len(s) : PickStep(s, I, g, n)
  BY <1>1, <1>2 DEF PicksTo, PickStep
<1> DEFINE L == {n \in Nat : n <= Len(s) =>
                   g[n] \in Seq(T) /\ \E f : InOrder(s, I, n, g[n], f)}
<1>5. 0 \in L
  <2>1. g[0] = <<>>
    BY <1>1, <1>4 DEF PickStep
  <2> DEFINE none == <<>>
  <2>2. none \in Seq(T) /\ Len(none) = 0
    OBVIOUS
  <2> HIDE DEF none
  <2>3. 1..0 = {}
    OBVIOUS
  <2>4. InOrder(s, I, 0, none, [k \in 1..0 |-> k])
    BY <2>2, <2>3 DEF InOrder
  <2> QED
    BY <2>1, <2>2, <2>4 DEF none
<1>6. ASSUME NEW n \in L PROVE n + 1 \in L
  <2>1. n \in Nat /\ n + 1 \in Nat
    OBVIOUS
  <2>2. ASSUME n + 1 <= Len(s)
        PROVE  g[n + 1] \in Seq(T) /\ \E f : InOrder(s, I, n + 1, g[n + 1], f)
    <3>1. n <= Len(s) /\ n + 1 \in 0..Len(s) /\ n + 1 # 0 /\ (n + 1) - 1 = n
      BY <1>1, <2>1, <2>2
    <3>2. g[n] \in Seq(T) /\ \E f : InOrder(s, I, n, g[n], f)
      BY <3>1
    <3>3. PICK f : InOrder(s, I, n, g[n], f)
      BY <3>2
    <3> HIDE DEF L
    <3>4. CASE n + 1 \in I
      <4>1. g[n + 1] = Append(g[n], s[n + 1])
        BY <1>4, <3>1, <3>4 DEF PickStep
      <4> QED
        BY <2>1, <2>2, <3>2, <3>3, <3>4, <4>1, InOrderNext
    <3>5. CASE n + 1 \notin I
      <4>1. g[n + 1] = g[n]
        BY <1>4, <3>1, <3>5 DEF PickStep
      <4>2. I \cap (1..(n + 1)) = I \cap (1..n)
        BY <2>1, <3>5
      <4>3. InOrder(s, I, n + 1, g[n], f)
        BY <3>3, <4>2 DEF InOrder
      <4> QED
        BY <3>2, <4>1, <4>3
    <3> QED
      BY <3>4, <3>5
  <2> QED
    BY <2>1, <2>2
<1> HIDE DEF L
<1>7. L = Nat
  <2>1. L \in SUBSET Nat
    BY DEF L
  <2> QED
    BY <1>5, <1>6, <2>1, NatSetInduction
<1>8. Len(s) \in L /\ Len(s) <= Len(s)
  BY <1>1, <1>7
<1> QED
  BY <1>3, <1>8 DEF L

\* A list, whatever its elements.
IsList(s) == s \in Seq(ToSet(s))

LEMMA OfAType ==
  ASSUME NEW T, NEW s \in Seq(T)
  PROVE  /\ IsList(s) /\ ToSet(s) \subseteq T /\ DOMAIN s = 1..Len(s) /\ Len(s) \in Nat
         /\ ToSet(s) = {s[i] : i \in 1..Len(s)}
<1>1. DOMAIN s = 1..Len(s) /\ Len(s) \in Nat /\ \A i \in 1..Len(s) : s[i] \in T
  OBVIOUS
<1>2. \A i \in 1..Len(s) : s[i] \in ToSet(s)
  BY <1>1 DEF ToSet
<1>3. s \in Seq(ToSet(s))
  BY <1>1, <1>2
<1> QED
  BY <1>1, <1>3 DEF IsList, ToSet

LEMMA PickedElements ==
  ASSUME NEW s, IsList(s), NEW I \in SUBSET (1..Len(s))
  PROVE  /\ IsList(Picked(s, I)) /\ ToSet(Picked(s, I)) = {s[i] : i \in I}
         /\ ToSet(Picked(s, I)) \subseteq ToSet(s)
<1> DEFINE t == Picked(s, I)
<1>1. t \in Seq(ToSet(s)) /\ \E f : InOrder(s, I, Len(s), t, f)
  BY PickedFacts DEF IsList
<1>2. PICK f : InOrder(s, I, Len(s), t, f)
  BY <1>1
<1> HIDE DEF t
<1>3. IsList(t) /\ ToSet(t) \subseteq ToSet(s) /\ ToSet(t) = {t[k] : k \in 1..Len(t)}
  BY <1>1, OfAType
<1>4. \A k \in 1..Len(t) : t[k] = s[f[k]] /\ f[k] \in I
  BY <1>2 DEF InOrder
<1>5. \A i \in I : \E k \in 1..Len(t) : f[k] = i
  BY <1>2 DEF InOrder
<1>6. {t[k] : k \in 1..Len(t)} = {s[i] : i \in I}
  <2>1. ASSUME NEW k \in 1..Len(t) PROVE t[k] \in {s[i] : i \in I}
    BY <1>4
  <2>2. ASSUME NEW i \in I PROVE s[i] \in {t[k] : k \in 1..Len(t)}
    BY <1>4, <1>5
  <2> QED
    BY <2>1, <2>2
<1> QED
  BY <1>3, <1>6 DEF t

LEMMA Joined ==
  ASSUME NEW s, NEW t, IsList(s), IsList(t)
  PROVE  IsList(s \o t) /\ ToSet(s \o t) = ToSet(s) \cup ToSet(t)
<1> DEFINE T == ToSet(s) \cup ToSet(t)
<1>1. s \in Seq(T) /\ t \in Seq(T)
  BY DEF IsList
<1> HIDE DEF T
<1>2. s \o t \in Seq(T) /\ ToSet(s \o t) = ToSet(s) \cup ToSet(t)
  BY <1>1, ConcatOnce
<1> QED
  BY <1>2, OfAType

LEMMA SingleList ==
  ASSUME NEW x
  PROVE  IsList(<<x>>) /\ ToSet(<<x>>) = {x} /\ IsList(<<>>) /\ ToSet(<<>>) = {}
<1>1. <<x>> \in Seq({x}) /\ Len(<<x>>) = 1 /\ <<x>>[1] = x
  OBVIOUS
<1>2. <<>> \in Seq({x}) /\ Len(<<>>) = 0
  OBVIOUS
<1>3. IsList(<<x>>) /\ ToSet(<<x>>) = {<<x>>[i] : i \in 1..1}
  BY <1>1, OfAType
<1>4. IsList(<<>>) /\ ToSet(<<>>) = {}
  <2> DEFINE e == <<>>
             T == {x}
  <2>1. e \in Seq(T) /\ Len(e) = 0
    BY <1>2
  <2> HIDE DEF e, T
  <2>2. IsList(e) /\ DOMAIN e = 1..Len(e)
    BY <2>1, OfAType
  <2>3. DOMAIN e = {}
    BY <2>1, <2>2
  <2>4. ToSet(e) = {}
    BY <2>3 DEF ToSet
  <2> QED  BY <2>2, <2>4 DEF e
<1> QED
  BY <1>1, <1>3, <1>4
=============================================================================
