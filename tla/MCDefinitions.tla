--------------------------- MODULE MCDefinitions ----------------------------
(* Instances of Definitions for TLC: two metrics (one with two readings over  *)
(* two tables, one written as a whole statement), two documents, and the end  *)
(* of a leap year.                                                            *)
EXTENDS Definitions

SomeDays == {Date(2024, 12, 31), Date(2025, 1, 1)}
NewYear == {Date(2025, 1, 1)}

SomeDims == "channel" :> [values |-> {"ads", "organic"},
                          columns |-> ("users" :> "source")]

Row(time, day, channel, meets) == time :> day @@ "source" :> channel @@ "meets" :> meets
SomeTables ==
  "users" :> <<Row("signup", Date(2024, 11, 30), "ads", {"real"}),
               Row("signup", Date(2024, 12, 29), "organic", {"real"}),
               Row("signup", Date(2025, 1, 1), "ads", {"real"})>>
  @@ "orders" :> <<Row("paid", Date(2024, 12, 31), "none", {"first"})>>

Part(source, time, where, enforces) ==
  [whole |-> FALSE, source |-> source, time |-> time, where |-> where, enforces |-> enforces]
ByReg(where) == Part("users", "signup", where, "counting_basis" :> {"registered", "test"})
ByFirst == Part("orders", "paid", {"first"},
                "counting_basis" :> {"first order", "test"} @@ "dedup" :> {"first order"})
Whole == [whole |-> TRUE, source |-> "users", time |-> "", where |-> {}, enforces |-> <<>>]
Mapping(where) ==
  <<"users", "reg">> :> ByReg(where) @@ <<"users", "first">> :> ByFirst
  @@ <<"refunds", "">> :> Whole
SomeMappings == <<Mapping({}), Mapping({"real"})>>
\* The tables above are of the kind CoverageIsNotOverstated is about.
ASSUME RowsInOrder

SomeMetrics == "users" :> [variants |-> {"reg", "first"}, required |-> {}]
               @@ "refunds" :> [variants |-> {}, required |-> {"refund_handling"}]

Quote(words, numbers, long) == [words |-> words, numbers |-> numbers, long |-> long]
SomeQuotes == "registered" :> Quote({"registered"}, {}, TRUE)
              @@ "first" :> Quote({"first order"}, {}, TRUE)
              @@ "both" :> Quote({"registered", "first order"}, {}, TRUE)
              @@ "within7" :> Quote({}, {7}, TRUE)
              @@ "short" :> Quote({"registered"}, {}, FALSE)
SomeMenu == <<[doc |-> "D1", quotes |-> {"registered", "both", "within7", "short"}],
              [doc |-> "D2", quotes |-> {"first"}]>>
Saying(numbers, order) == [numbers |-> numbers, order |-> order]
SomeValues == "by signup" :> Saying({}, FALSE) @@ "by order" :> Saying({}, FALSE)
              @@ "7 days" :> Saying({7}, FALSE) @@ "8 days" :> Saying({8}, FALSE)
              @@ "always ignore" :> Saying({}, TRUE)

Anyone == Permutations(Subjects)

(***************************** what is asked *****************************)

W(kind) == <<[is |-> kind]>>
Metric(m) == <<[is |-> "metric", metric |-> m]>>
Iso(day) == [is |-> "iso", day |-> day]
Ym(y, m) == <<[is |-> "year", y |-> y], [is |-> "month", m |-> m]>>
N(kind, n) == <<[is |-> kind, n |-> n]>>
M(m) == <<[is |-> "month", m |-> m]>>
Grain(g) == <<[is |-> "grain", grain |-> g]>>
Channel == <<[is |-> "name", dim |-> "channel"]>>
Word(v) == <<[is |-> "value", dim |-> "channel", value |-> v]>>
Text == W("text")
Join == W("join")
Split(closes) == <<[is |-> "split", closes |-> closes]>>
Is == <<[is |-> "equals", sign |-> FALSE]>>
Sign == <<[is |-> "equals", sign |-> TRUE]>>

\* A question about users with these phrases between other words.
Users(phrases) ==
  [text |-> <<Metric("users")>> \o FlattenSeq([i \in DOMAIN phrases |-> <<Text, phrases[i]>>]),
   output |-> <<>>]

\* The same with the phrases side by side.
Together(phrases) == [text |-> phrases \o <<Metric("users")>>, output |-> <<>>]

\* A time in every form, beside a split or a value in every form.
AskedIn(phrases) == {<<Users(ph)>> : ph \in phrases}
InManyWords == AskedIn({
  <<<<Iso(Date(2024, 11, 30)), [is |-> "to"], Iso(Date(2024, 12, 29))>>, Grain("week")>>,
  <<<<Iso(Date(2024, 12, 29)), [is |-> "to"], Iso(Date(2024, 11, 30))>>, Word("ads") \o Channel>>,
  <<<<Iso(NoDay)>>, Grain("day"), Grain("week")>>,
  <<Ym(2024, 2), Word("ads") \o Join \o Word("organic") \o Channel>>,
  <<Ym(2024, 2) \o <<[is |-> "day", d |-> 29]>>, W("unsupported")>>,
  <<Ym(2023, 2) \o <<[is |-> "day", d |-> 29]>>, Channel \o Is \o Word("organic")>>,
  <<<<[is |-> "isoMonth", y |-> 2024, m |-> 12]>>, Grain("week"), Word("ads") \o Channel>>,
  <<N("lastDays", 2), Grain("month")>>,
  <<N("lastMonths", 2), Split("of") \o W("noun") \o W("of")>>,
  <<N("daysAgo", 1), W("noun") \o Channel>>,
  <<M(1), Channel \o Sign \o W("noun")>>,
  <<M(12), Word("tv") \o Channel>>,
  <<W("prevMonth"), Split("none") \o Channel>>,
  <<W("thisMonth"), Word("ads") \o Channel, Word("organic") \o Channel>>,
  <<W("prevWeek"), Grain("day"), Channel \o Sign \o Word("organic")>>,
  <<W("thisWeek"), Word("ads") \o Channel \o W("whole")>>,
  <<W("prevYear"), Grain("month")>>, <<W("thisYear"), Grain("week")>>,
  <<W("prevMonth"), W("thisMonth")>>})

\* Phrases with nothing between them.
SideBySide == {<<Together(ph)>> : ph \in {
  <<W("prevMonth"), Word("ads") \o Channel, W("of")>>,
  <<W("prevMonth"), W("noun") \o Channel, W("of")>>,
  <<Word("organic") \o Channel, N("lastDays", 2), Grain("week"), Split("of") \o Channel, W("of")>>,
  <<Ym(2024, 12), Split("into") \o W("noun") \o W("into"), W("prevYear")>>}}

Claim(key, citation, value, quote) ==
  [key |-> key, citation |-> citation, value |-> value, quote |-> quote]
BySignup == Claim("counting_basis", 1, "by signup", "registered")
ByOrder == Claim("counting_basis", 2, "by order", "first")
Documented(output) == [text |-> <<Metric("users")>>, output |-> output]
Refunds(output) == [text |-> <<Metric("refunds")>>, output |-> output]
Baseless == {Claim("counting_basis", 3, "by signup", "registered"),
             Claim("counting_basis", 2, "by signup", "registered"),
             Claim("counting_basis", 1, "by signup", "short"),
             Claim("counting_basis", 1, "always ignore", "registered"),
             Claim("variant", 1, "by signup", "registered"),
             Claim("dedup", 1, "8 days", "within7")}

DocumentAskings ==
  {Documented(<<BySignup>>), Documented(<<BySignup, ByOrder>>),
   Documented(<<BySignup, Claim("dedup", 2, "by order", "first"), ByOrder>>),
   Documented(<<BySignup, Claim("dedup", 2, "by order", "first")>>),
   Documented(<<Claim("counting_basis", 1, "by signup", "both")>>),
   Documented(SetToSeq(Baseless)),
   Refunds(<<Claim("refund_handling", 1, "7 days", "within7")>>), Refunds(<<>>)}

\* One question in many words, or two questions about the same metric.
SomeQuestions ==
  InManyWords \cup SideBySide \cup {<<q>> : q \in DocumentAskings}
  \cup {<<Documented(<<BySignup, ByOrder>>), Documented(<<>>)>>,
        <<Documented(<<>>), Documented(<<BySignup>>)>>,
        <<Refunds(<<>>), Refunds(<<>>)>>}
SomeStarts == {"users" :> 2 @@ "orders" :> 1}

Adopting(v) == {<<"counting_basis", v>>}
SomeAmendments ==
  {[Blank EXCEPT !.variant = "reg"], [Blank EXCEPT !.variant = "first"],
   [Blank EXCEPT !.adopt = Adopting("by order")],
   [Blank EXCEPT !.adopt = Adopting("by signup"), !.variant = "first"],
   [Blank EXCEPT !.rules = {<<"refund_handling", "7 days">>}],
   [Blank EXCEPT !.variant = "reg", !.period = W("prevMonth"), !.group_by = Grain("week"),
                 !.filter = Channel \o Sign \o Word("ads")],
   [Blank EXCEPT !.filter = W("none")]}

\* The same metric three times, the first answered by adopting a wording.
ThreeQuestions ==
  {<<Documented(<<BySignup, ByOrder>>), Documented(<<BySignup, ByOrder>>), Documented(<<>>)>>,
   <<Documented(<<BySignup, ByOrder>>), Documented(<<>>), Documented(<<>>)>>}
=============================================================================
