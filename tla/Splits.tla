------------------------------- MODULE Splits -------------------------------
(* workflow/grouping.py: how a question asks for its result to be split, and  *)
(* which one value of a dimension it asks to count.                           *)
(*                                                                            *)
(* Texts are sequences of words as in Periods.  Words of their own here:      *)
(* grain ("daily"), unsupported ("daily average"), split ("by", "each") with  *)
(* what closes its explicit shape, name (a dimension's label or alias), noun  *)
(* (a word nobody declared), of and into (those closings), value (a declared  *)
(* value's word), join ("and"), equals, which may be a sign ("=", a colon) or *)
(* a verb ("is"), whole ("distribution"), metric (the metric's name), none    *)
(* ("no split", "no filter").  A finder returns a set: empty for None,        *)
(* {Unclear} where GroupingError or FilterError is raised.                    *)
EXTENDS Periods

CONSTANT Dims   \* dimension -> [values |-> the stored values it declares,
                \*               columns |-> table -> its column there]

TimeGrains == {<<"day">>, <<"week">>, <<"month">>}
None == <<"none">>
Unclear == <<"unclear">>
ByDim(d) == <<"dim", d>>
Only(d, v) == <<"dim", d, v>>

At(text, i) == IF i \in 1..Len(text) THEN text[i].is ELSE "end"
\* Distinct readings: one is the answer, several are refused.
OneOf(found) == IF Unclear \in found \/ Cardinality(found) > 1 THEN {Unclear} ELSE found

(****************************** grouping ******************************)

\* A split word before a dimension's name, or before a word nobody declared
\* in one of the explicit shapes: "each ... of", "by ... grouped", but a bare
\* "split" closes neither.
DimSplits(text) ==
  {i \in 1..Len(text) : At(text, i) = "split" /\ At(text, i + 1) = "name"}
UndeclaredSplits(text) ==
  {i \in 1..Len(text) : /\ At(text, i) = "split" /\ At(text, i + 1) = "noun"
                        /\ At(text, i + 2) = text[i].closes}

FindGrouping(text) ==
  IF UndeclaredSplits(text) # {} \/ \E i \in 1..Len(text) : At(text, i) = "unsupported"
  THEN {Unclear}
  ELSE OneOf({<<text[i].grain>> : i \in {j \in 1..Len(text) : At(text, j) = "grain"}}
             \cup {ByDim(text[i + 1].dim) : i \in DimSplits(text)})

\* A grouping stated on purpose.
ParseGrouping(text) ==
  CASE Len(text) = 1 /\ At(text, 1) = "none" -> {None}
    [] Len(text) = 1 /\ At(text, 1) = "name" -> {ByDim(text[1].dim)}
    [] OTHER -> Stated(FindGrouping(text), Unclear)

\* The first day of the group a day falls in, and every group of a period.
BucketStart(d, grain) ==
  CASE grain = <<"week">> -> Monday(d)
    [] grain = <<"month">> -> FirstOf(MonthOf(d))
    [] OTHER -> d
BucketStarts(p, grain) ==
  LET first == BucketStart(p[1], grain)
  IN CASE grain = <<"week">> -> {first + 7 * n : n \in 0..((p[2] - first) \div 7)}
       [] grain = <<"month">> -> {FirstOf(k) : k \in MonthOf(first)..MonthOf(p[2])}
       [] OTHER -> DaysIn(p)
\* The first or the last group reaches outside the period.
EdgesArePartial(p, grain) ==
  /\ grain \in {<<"week">>, <<"month">>}
  /\ \/ BucketStart(p[1], grain) # p[1]
     \/ BucketStart(p[2] + 1, grain) # p[2] + 1

(******************************* filters *******************************)

\* value_for: the word names a value this dimension declares.
Names(text, i, d) ==
  At(text, i) = "value" /\ text[i].dim = d /\ text[i].value \in Dims[d].values

\* The values joined straight before a name: "ads and referral channel".
Before(text, i, d) ==
  LET joined == {j \in 1..(i - 1) :
                   \A k \in j..(i - 1) :
                     IF (i - k) % 2 = 1 THEN Names(text, k, d) ELSE At(text, k) = "join"}
  IN {text[k].value : k \in {j \in joined : (i - j) % 2 = 1}}

\* Words that end in a character a word of its own may follow (_BREAKS).
Breaks == {"end", "of", "text", "grain", "split", "year", "month", "day", "lastDays",
           "lastMonths", "prevMonth", "thisMonth", "prevWeek", "thisWeek", "prevYear",
           "thisYear", "daysAgo"}
\* A word of its own before the name that is none of its values.
Undeclared(text, i, d) ==
  /\ At(text, i - 1) \in {"noun", "value"} /\ ~Names(text, i - 1, d)
  /\ At(text, i - 2) \in Breaks

\* What one naming of a dimension, at i, restricts the result to.
Restriction(text, i, d) ==
  LET one == At(text, i + 1) # "whole"
      before == IF one THEN Before(text, i, d) ELSE {}
      after == At(text, i + 1) = "equals" /\ At(text, i + 2) \notin {"end", "of", "text"}
  IN IF \/ Cardinality(before) > 1
        \/ after /\ ~Names(text, i + 2, d)
        \/ one /\ Undeclared(text, i, d)
     THEN {Unclear}
     ELSE {Only(d, v) : v \in before}
          \cup (IF after THEN {Only(d, text[i + 2].value)} ELSE {})

FindFilter(text) ==
  LET named == {i \in 1..Len(text) : At(text, i) = "name" /\ Dims[text[i].dim].values # {}}
  IN OneOf(UNION {Restriction(text, i, text[i].dim) : i \in named})

\* A filter stated on purpose: with a sign, exactly "dimension = value".
ParseFilter(text) ==
  LET direct == {Only(d, text[1].value) : d \in {e \in DOMAIN Dims : Names(text, 1, e)}}
      signed == \E i \in 1..Len(text) : At(text, i) = "equals" /\ text[i].sign
  IN CASE Len(text) = 1 /\ At(text, 1) = "none" -> {None}
       [] signed ->
            IF /\ Len(text) = 3 /\ At(text, 1) = "name" /\ At(text, 2) = "equals"
               /\ Names(text, 3, text[1].dim)
            THEN {Only(text[1].dim, text[3].value)} ELSE {Unclear}
       [] Len(text) = 1 /\ Cardinality(direct) = 1 -> direct
       [] OTHER -> Stated(FindFilter(text), Unclear)
=============================================================================
