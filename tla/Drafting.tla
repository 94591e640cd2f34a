------------------------------ MODULE Drafting ------------------------------
(* How a question becomes a definition to confirm (workflow/builder.py,       *)
(* extraction.py, evidence_builder.py, enforcement.py, history.py) and how an *)
(* answer completes it (workflow/answers.py, service.amend).                  *)
(*                                                                            *)
(* A document is the set of quotes its shown excerpt contains; what the       *)
(* extracting model proposes is any sequence of records of a key, a position  *)
(* in the menu, a value and a quote.  A citation is a pair of document and    *)
(* quote.  Of the wording only what decides is kept: the numbers of a value   *)
(* and of a quote, whether a quote is too short, whether a value reads as an  *)
(* order.                                                                     *)
EXTENDS Compiler

CONSTANTS
  Metrics,   \* metric -> [variants, required: sets of keys]
  Menu,      \* the excerpts shown to the model: a sequence of [doc, quotes]
  Quotes,    \* quote -> [words, numbers: sets, long: BOOLEAN]
  Values     \* value -> [numbers: a set, order: BOOLEAN]

AllowedKeys == {"counting_basis", "filters", "time_window", "dedup",
                "refund_handling", "amount_basis"}
NotRemembered == {"period", "group_by", "filter", "previous_choice"}
NoRef == <<>>

Rule(key, value, source, ref, implies) ==
  [key |-> key, value |-> value, source |-> source, ref |-> ref, implies |-> implies]
Candidate(key, value, ref, implies) ==
  [key |-> key, value |-> value, ref |-> ref, implies |-> implies]

CandidatesFor(d, key) == {c \in d.candidates : c.key = key}
VariantsOf(d) == {c.value : c \in CandidatesFor(d, "variant")}

\* with_rules: same-key rules are replaced, their keys no longer missing.
WithRules(d, added) ==
  LET keys == {added[i].key : i \in DOMAIN added}
  IN [d EXCEPT !.rules = Where(d.rules, LAMBDA r : r.key \notin keys) \o added,
               !.missing = d.missing \ keys]

(******************** from the maintainer and the question ********************)

DefinitionFor(metric) ==
  [metric |-> metric, rules |-> <<>>,
   missing |-> (IF Metrics[metric].variants = {} THEN {} ELSE {"variant"})
               \cup Metrics[metric].required,
   candidates |-> {Candidate("variant", v, NoRef, {}) : v \in Metrics[metric].variants}]

\* What a finder made of the question: a rule, nothing, or a gap to ask about.
Read(d, key, found, refused) ==
  CASE found = {} -> d
    [] found = {refused} -> [d EXCEPT !.missing = @ \cup {key}]
    [] OTHER -> WithRules(d, <<Rule(key, CHOOSE v \in found : TRUE, "user", NoRef, {})>>)

MetricNamed(text) == {text[i].metric : i \in {j \in 1..Len(text) : At(text, j) = "metric"}}

Base(text, today) ==
  LET metric == CHOOSE m \in MetricNamed(text) : TRUE
  IN Read(Read(Read(DefinitionFor(metric),
                    "period", FindPeriod(text, today), Refused),
               "group_by", FindGrouping(text), Unclear),
          "filter", FindFilter(text), Unclear)

(*************************** from the documents ***************************)

\* implied_variants: the readings a quote corresponds to for a rule key.
Implied(templates, metric, key, quote) ==
  LET declared == {k[2] : k \in {x \in DOMAIN templates :
                                   x[1] = metric /\ ~templates[x].whole}}
      Hits(v) == LET enforces == templates[<<metric, v>>].enforces
                 IN IF key \in DOMAIN enforces THEN enforces[key] \cap Quotes[quote].words
                    ELSE {}
      matched == {v \in declared : Hits(v) # {}}
      own == {v \in matched : Hits(v) \ UNION {Hits(w) : w \in matched \ {v}} # {}}
  IN CASE Cardinality(own) > 1 -> {}
       [] Cardinality(own) = 1 -> own
       [] OTHER -> matched

\* _validate_one: grounded in an excerpt the model was shown.
Grounded(p) ==
  /\ p.key \in AllowedKeys
  /\ p.citation \in DOMAIN Menu
  /\ ~Values[p.value].order
  /\ Quotes[p.quote].long
  /\ p.quote \in Menu[p.citation].quotes
  /\ Values[p.value].numbers \subseteq Quotes[p.quote].numbers

Extracted(templates, metric, output) ==
  LET kept == Where(output, Grounded)
  IN [i \in DOMAIN kept |->
        LET p == kept[i]
        IN Rule(p.key, p.value, "doc", <<Menu[p.citation].doc, p.quote>>,
                Implied(templates, metric, p.key, p.quote))]

\* Of the rules with one key and value the last one's citation is kept.
LastSaying(rules, key, value) ==
  rules[Max({i \in DOMAIN rules : rules[i].key = key /\ rules[i].value = value})]

\* _assemble and CompositeDraftBuilder.build: one wording states a rule and
\* closes its gap, several are put to the person and open one.
WithDocuments(base, rules) ==
  LET keys == {rules[i].key : i \in DOMAIN rules}
      Saying(key) == {rules[i].value : i \in {j \in DOMAIN rules : rules[j].key = key}}
      agreed == {key \in keys \ Keys(base) : Cardinality(Saying(key)) = 1}
      disputed == {key \in keys : Cardinality(Saying(key)) > 1}
      \* Where each agreed key is first spoken of, in order.
      First(i) == /\ rules[i].key \in agreed
                  /\ \A j \in 1..(i - 1) : rules[j].key # rules[i].key
      firsts == Where([i \in DOMAIN rules |-> i], First)
  IN [base EXCEPT
        !.rules = base.rules \o [n \in DOMAIN firsts |->
                                   LET r == rules[firsts[n]]
                                   IN LastSaying(rules, r.key, r.value)],
        !.missing = (base.missing \ agreed) \cup disputed,
        !.candidates = base.candidates \cup
           UNION {{LET r == LastSaying(rules, key, v)
                   IN Candidate(key, v, r.ref, r.implies) : v \in Saying(key)}
                  : key \in disputed}]

\* consistent_variant: the rules that correspond to a reading narrow the
\* choice to exactly one, and one of them, the anchor, rules a reading out.
Anchors(rules, variants) ==
  Where(rules, LAMBDA r : /\ r.implies # {} /\ r.key # "variant"
                              /\ ~(variants \subseteq r.implies))
Consistent(rules, variants) ==
  {v \in variants : \A i \in DOMAIN rules :
                      rules[i].implies # {} /\ rules[i].key # "variant" => v \in rules[i].implies}
ConsistentVariant(rules, variants, source) ==
  LET left == Consistent(rules, variants)
      anchors == Anchors(rules, variants)
  IN IF Cardinality(left) # 1 \/ anchors = <<>> THEN <<>>
     ELSE <<Rule("variant", CHOOSE v \in left : TRUE, source, Head(anchors).ref, {})>>

\* Mutant: a reading preselected beside an open disagreement.
PreselectAnyway(d) ==
  IF "variant" \notin d.missing THEN d
  ELSE WithRules(d, ConsistentVariant(Where(d.rules, LAMBDA r : r.source = "doc"),
                                      VariantsOf(d), "doc"))

\* preselect_variant: never while a disagreement that could decide is open.
Preselect(d) ==
  LET pending == \E c \in d.candidates :
                    c.implies # {} /\ c.key # "variant" /\ c.key \in d.missing
      documented == Where(d.rules, LAMBDA r : r.source = "doc")
  IN IF "variant" \notin d.missing \/ pending THEN d
     ELSE WithRules(d, ConsistentVariant(documented, VariantsOf(d), "doc"))

Explained(templates, base, output) ==
  Preselect(WithDocuments(base, Extracted(templates, base.metric, output)))
Build(templates, text, today, output) == Explained(templates, Base(text, today), output)

(***************************** from the past *****************************)

\* What an earlier definition offers the current one: its choices for gaps.
Offers(d, r) ==
  LET options == CandidatesFor(d, r.key)
  IN /\ r.key \in d.missing
     /\ CASE r.key = "variant" -> r.value \in VariantsOf(d)
          [] r.key # "variant" /\ r.ref # NoRef ->
               \E c \in options : c.value = r.value /\ c.ref = r.ref
          [] OTHER -> options = {}

Again(d, r) ==
  LET same == {c \in CandidatesFor(d, r.key) : c.value = r.value /\ c.ref = r.ref}
  IN CASE r.key = "variant" -> Rule(r.key, r.value, "history", NoRef, {})
       [] r.key # "variant" /\ same # {} ->
            Rule(r.key, r.value, "history", r.ref, (CHOOSE c \in same : TRUE).implies)
       [] OTHER -> Rule(r.key, r.value, "history", NoRef, {})

\* A reading the documents chose against the remembered one is shown beside it.
Differs(d, r) ==
  /\ r.key = "variant" /\ HasRule(d, "variant")
  /\ Head(RuleAt(d, "variant")).source = "doc" /\ Value(d, "variant") # r.value

\* A remembered reading a remembered wording points away from is dropped.
PointsAway(offered, r) ==
  /\ r.key = "variant"
  /\ \E i \in DOMAIN offered :
        offered[i].implies # {} /\ offered[i].key # "variant" /\ r.value \notin offered[i].implies

Offer(d, remembered) ==
  LET fits == Where(remembered, LAMBDA r : Offers(d, r))
      again == [i \in DOMAIN fits |-> Again(d, fits[i])]
      offered == Where(again, LAMBDA r : ~PointsAway(again, r))
      differing == Where(remembered, LAMBDA r : Differs(d, r))
      shown == [i \in DOMAIN differing |->
                  Rule("previous_choice", differing[i].value, "history", NoRef, {})]
  IN IF offered \o shown = <<>> THEN d ELSE WithRules(d, offered \o shown)

(******************************* answers *******************************)

\* Nothing typed in a field is the empty text.
Blank == [variant |-> "", adopt |-> {}, rules |-> {}, period |-> <<>>,
          group_by |-> <<>>, filter |-> <<>>]

OwnFields == {"period", "group_by", "filter", "variant"}
OpenGaps(d) == {k \in d.missing \ OwnFields : CandidatesFor(d, k) = {}}

Stating(key, found, source) ==
  IF found = {} THEN <<>> ELSE <<Rule(key, CHOOSE v \in found : TRUE, source, NoRef, {})>>

Given(text, parsed) == IF text = <<>> THEN {} ELSE parsed

\* The answer fits something on the draft; answer_rules raises otherwise.
Answerable(d, a, today) ==
  /\ a # Blank
  /\ a.adopt \subseteq {<<c.key, c.value>> : c \in {x \in d.candidates : x.key # "variant"}}
  /\ \A r \in a.rules : r[1] \in OpenGaps(d)
  /\ Given(a.period, ParsePeriod(a.period, today)) # {Refused}
  /\ Given(a.group_by, ParseGrouping(a.group_by)) # {Unclear}
  /\ Given(a.filter, ParseFilter(a.filter)) # {Unclear}
  /\ a.variant # "" => a.variant \in VariantsOf(d)

\* adopted_rule: the wording keeps its citation and what it implies.
Adopted(d, a, source) ==
  LET sides == SetToSeq({c \in d.candidates : <<c.key, c.value>> \in a.adopt})
  IN [i \in DOMAIN sides |->
        Rule(sides[i].key, sides[i].value, source, sides[i].ref, sides[i].implies)]

Typed(a, source) ==
  LET rules == SetToSeq(a.rules)
  IN [i \in DOMAIN rules |-> Rule(rules[i][1], rules[i][2], source, NoRef, {})]

\* The reading stated, or the one the adopted wording names while it is open.
ReadingChosen(d, adopted, a, source) ==
  CASE a.variant # "" -> <<Rule("variant", a.variant, source, NoRef, {})>>
    [] a.variant = "" /\ "variant" \in d.missing ->
         ConsistentVariant(d.rules \o adopted, VariantsOf(d), source)
    [] OTHER -> <<>>

AnswerRules(d, a, source, today) ==
  LET adopted == Adopted(d, a, source)
  IN adopted \o Typed(a, source)
     \o Stating("period", Given(a.period, ParsePeriod(a.period, today)), source)
     \o Stating("group_by", Given(a.group_by, ParseGrouping(a.group_by)), source)
     \o Stating("filter", Given(a.filter, ParseFilter(a.filter)), source)
     \o ReadingChosen(d, adopted, a, source)

\* amend: a wording and another reading in one act contradict each other.
Contradicts(rules) ==
  \E i, j \in DOMAIN rules :
     /\ rules[i].key = "variant" /\ rules[j].key # "variant"
     /\ rules[j].implies # {} /\ rules[i].value \notin rules[j].implies
=============================================================================
