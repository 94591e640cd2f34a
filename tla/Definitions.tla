----------------------------- MODULE Definitions -----------------------------
(* One definition after another, from the words of a question to the number   *)
(* that answers it: built from the maintainer's metrics, the documents and    *)
(* what its person confirmed before, completed by answers, confirmed, compiled*)
(* and run, while days pass, rows are loaded, documents are withdrawn and the *)
(* mapping file changes.  The gate itself (versions, hashes, idempotency keys,*)
(* several processes) is Workflow's subject and is kept simple here: one      *)
(* draft is worked on at a time.                                              *)
EXTENDS Drafting

CONSTANTS
  Subjects,
  Questions,      \* the courses of questions: sequences of
                  \* [text |-> the phrases, output |-> what the model extracts]
  Starts,         \* how many rows of each table may be loaded at first
  Amendments,     \* the answers given
  Mappings,       \* the mapping files a maintainer deploys, in order
  WorkDays,       \* the days on which someone works
  MaxAge,         \* workflow.history_max_age_days
  MaxAmendments,  \* bound: the amendments of all drafts together
  MaxChanges      \* bound: mappings deployed and documents withdrawn

Doors == {"person", "agent"}
Docs == {Menu[i].doc : i \in DOMAIN Menu}
Authoring(door) == IF door = "person" THEN "user" ELSE "agent"

\* What the words of a text carry: the days they name lie in the calendar,
\* which begins with day 1 (date.min), and their metrics are declared.
IsSequence(s) == Len(s) \in Nat /\ s = [i \in 1..Len(s) |-> s[i]]
WordOK(w) ==
  /\ w.is = "metric" => w.metric \in DOMAIN Metrics
  /\ w.is = "iso" => w.day \in Nat
  /\ w.is \in {"year", "isoMonth"} => w.y \in Nat \ {0}
  /\ w.is \in {"month", "isoMonth"} => w.m \in Nat
  /\ w.is = "day" => w.d \in Nat
  /\ w.is \in {"lastDays", "daysAgo"} => w.n \in Nat /\ \A d \in WorkDays : w.n < d
  /\ w.is = "lastMonths" => w.n \in Nat /\ \A d \in WorkDays : w.n <= MonthOf(d) - 12
TextOK(text) == IsSequence(text) /\ \A i \in DOMAIN text : WordOK(text[i])

\* What a maintainer writes for a reading: a statement, or a table the database
\* has whose time column, if it names one, holds days.
EntryOK(e) ==
  /\ e.whole \in BOOLEAN /\ e.source \in DOMAIN Tables
  /\ ~e.whole /\ e.time # "" =>
       \A i \in DOMAIN Tables[e.source] : Tables[e.source][i][e.time] \in Nat \ {0}

ASSUME DefinitionsAssumption ==
  /\ WorkDays \subseteq Nat /\ MaxAge \in Nat
  /\ \A day \in WorkDays : day > 2 * 366 \* a year before this one
  /\ \A m \in DOMAIN Metrics : IsFiniteSet(Metrics[m].variants)
  /\ IsSequence(Menu)
  /\ \A asked \in Questions : IsSequence(asked)
  /\ \A asked \in Questions : \A i \in DOMAIN asked :
       TextOK(FlattenSeq(asked[i].text)) /\ IsSequence(asked[i].output)
  /\ \A a \in Amendments : IsFiniteSet(a.rules) /\ TextOK(a.period)
  /\ \A t \in DOMAIN Tables : IsSequence(Tables[t])
  /\ \A start \in Starts : /\ start = [t \in DOMAIN Tables |-> start[t]]
                            /\ \A t \in DOMAIN Tables : start[t] \in 0..Len(Tables[t])
  /\ IsSequence(Mappings) /\ Mappings # <<>>
  /\ \A i \in DOMAIN Mappings : \A at \in DOMAIN Mappings[i] : EntryOK(Mappings[i][at])

VARIABLES
  today,       \* the business day
  deployed,    \* which of Mappings is in use
  withdrawn,   \* the documents changed or no longer readable
  loaded,      \* table -> how many of its rows are in the database
  draft,       \* the draft worked on
  runs,        \* the finished runs, oldest first
  questions    \* what is asked, draft after draft

vars == <<questions, today, deployed, withdrawn, loaded, draft, runs>>

Templates == Mappings[deployed]
NoDraft == [status |-> "none", n |-> 0, amended |-> 0]

Init ==
  /\ today \in WorkDays /\ today - 1 \notin WorkDays /\ deployed = 1 /\ withdrawn = {}
  /\ loaded \in Starts /\ questions \in Questions /\ draft = NoDraft /\ runs = <<>>

(***************************** the environment *****************************)

Changes == deployed - 1 + Cardinality(withdrawn)

NextDay ==
  /\ today + 1 \in WorkDays
  /\ today' = today + 1
  /\ UNCHANGED <<questions, deployed, withdrawn, loaded, draft, runs>>

\* Only a run reads the database, so rows that appear before one are part of
\* the initial states and only those that appear during one are steps.
Load(table) ==
  /\ draft.status = "dated"
  /\ loaded[table] < Len(Tables[table])
  /\ loaded' = [loaded EXCEPT ![table] = @ + 1]
  /\ UNCHANGED <<questions, today, deployed, withdrawn, draft, runs>>

Deploy ==
  /\ deployed < Len(Mappings) /\ Changes < MaxChanges
  /\ deployed' = deployed + 1
  /\ UNCHANGED <<questions, today, withdrawn, loaded, draft, runs>>

\* Of the documents only those some question's answers quote change.
Quoted(output) == {Menu[output[i].citation].doc :
                     i \in {j \in DOMAIN output : output[j].citation \in DOMAIN Menu}}
Withdraw(doc) ==
  /\ doc \notin withdrawn /\ Changes < MaxChanges
  /\ \E i \in DOMAIN questions : doc \in Quoted(questions[i].output)
  /\ withdrawn' = withdrawn \cup {doc}
  /\ UNCHANGED <<questions, today, deployed, loaded, draft, runs>>

(***************************** the draft *****************************)

\* last_confirmed: the newest run of this person and metric whose draft was
\* not amended since, unless it is too old.
LastConfirmed(actor, metric) ==
  LET mine == {i \in DOMAIN runs : /\ runs[i].actor = actor
                                   /\ runs[i].definition.metric = metric
                                   /\ runs[i].stands}
  IN IF mine = {} \/ runs[Max(mine)].day < today - MaxAge THEN {} ELSE {runs[Max(mine)]}

\* Mutant: remembered although the document it rests on is gone.
RememberedWithoutCheck(actor, metric) ==
  LET found == {r \in LastConfirmed(actor, metric) :
                  r.entry = Fingerprint(Templates, r.definition)}
  IN IF found = {} THEN <<>>
     ELSE Where((CHOOSE r \in found : TRUE).definition.rules,
            LAMBDA r : r.source \in {"user", "history"} /\ r.key \notin NotRemembered)

\* The choices of that run, while its mapping and its documents are the same.
Remembered(actor, metric) ==
  LET found == {r \in LastConfirmed(actor, metric) :
                  r.entry = Fingerprint(Templates, r.definition)}
  IN IF found = {} THEN <<>>
     ELSE Where((CHOOSE r \in found : TRUE).definition.rules,
            LAMBDA r : /\ r.source \in {"user", "history"} /\ r.key \notin NotRemembered
                       /\ r.ref = NoRef \/ r.ref[1] \notin withdrawn)

\* An excerpt of a withdrawn document is not on the menu the model is shown.
Shown(output) == Where(output, LAMBDA p : p.citation \in DOMAIN Menu
                                                => Menu[p.citation].doc \notin withdrawn)

Cited(d) ==
  ({d.rules[i].ref : i \in DOMAIN d.rules} \cup {c.ref : c \in d.candidates}) \ {NoRef}

StatusOf(d) == IF d.missing = {} THEN "awaiting" ELSE "needs"

NewDraft(actor, door, inner, d) ==
  [status |-> StatusOf(d), n |-> draft.n + 1, actor |-> actor, door |-> door,
   asked |-> today, day |-> today, since |-> deployed, gone |-> withdrawn,
   inner |-> inner, definition |-> d, cited |-> Cited(d), amended |-> draft.amended,
   query |-> <<>>, through |-> {}, entry |-> {}]

\* Remembered choices are offered only where a person reads the sheet.
Offered(actor, door, inner) ==
  IF door = "agent" THEN inner ELSE Offer(inner, Remembered(actor, inner.metric))

Prepare(actor, door) ==
  /\ draft.status \in {"none", "ran", "expired"} /\ draft.n < Len(questions)
  /\ LET asked == questions[draft.n + 1]
         text == FlattenSeq(asked.text)
     IN /\ MetricNamed(text) # {}
        /\ \E inner \in {Build(Templates, text, today, Shown(asked.output))} :
             draft' = NewDraft(actor, door, inner, Offered(actor, door, inner))
  /\ UNCHANGED <<questions, today, deployed, withdrawn, loaded, runs>>

\* amend looks at no status; a run of the amended draft is no longer what its
\* person approved.
Amend(door, a) ==
  /\ draft.status \notin {"none", "dated"} /\ draft.amended < MaxAmendments
  /\ Answerable(draft.definition, a, today)
  /\ \E rules \in {AnswerRules(draft.definition, a, Authoring(door), today)} :
        LET d == WithRules(draft.definition, rules)
        IN /\ ~Contradicts(rules)
           /\ draft' = [draft EXCEPT !.definition = d, !.status = StatusOf(d), !.amended = @ + 1]
  /\ runs' = IF draft.status = "ran"
             THEN [runs EXCEPT ![Len(runs)].stands = FALSE] ELSE runs
  /\ UNCHANGED <<questions, today, deployed, withdrawn, loaded>>

EvidenceStands == \A ref \in draft.cited : ref[1] \notin withdrawn

Confirm ==
  /\ draft.status = "awaiting" /\ EvidenceStands
  /\ draft' = [draft EXCEPT !.status = "confirmed", !.day = today]
  /\ UNCHANGED <<questions, today, deployed, withdrawn, loaded, runs>>

\* Confirming or running on a document that no longer checks out.
Expire ==
  /\ draft.status \in {"needs", "awaiting", "confirmed"} /\ ~EvidenceStands
  /\ draft' = [draft EXCEPT !.status = "expired"]
  /\ UNCHANGED <<questions, today, deployed, withdrawn, loaded, runs>>

\* A run compiles, then dates the data, which may fail, then asks its query.
DateTheData ==
  /\ draft.status = "confirmed" /\ EvidenceStands
  /\ \E query \in Compile(Templates, draft.definition), probeWorks \in BOOLEAN :
       draft' = [draft EXCEPT
                   !.status = "dated", !.query = query,
                   !.entry = Lookup(Templates, draft.definition),
                   !.through = UNION {IF probeWorks THEN Newest(t, loaded) ELSE {} :
                                 t \in FreshnessTargets(Templates, draft.definition)}]
  /\ UNCHANGED <<questions, today, deployed, withdrawn, loaded, runs>>

\* What a run was sending and had dated is gone with it.
RunOver(status) ==
  [draft EXCEPT !.status = status, !.query = <<>>, !.through = {}, !.entry = {}]

Finish ==
  /\ draft.status = "dated"
  /\ runs' = Append(runs,
       [n |-> draft.n, actor |-> draft.actor, definition |-> draft.definition, day |-> draft.day,
        entry |-> draft.entry, stands |-> TRUE, loaded |-> loaded,
        answer |-> Execute(draft.query, loaded),
        reach |-> Coverage(PeriodOf(draft.definition), draft.through,
                           \A e \in draft.entry : ~e.whole /\ e.time # "")])
  /\ draft' = RunOver("ran")
  /\ UNCHANGED <<questions, today, deployed, withdrawn, loaded>>

\* A run that fails is not remembered; its draft stays confirmed.
Fail ==
  /\ draft.status = "dated"
  /\ draft' = RunOver("confirmed")
  /\ UNCHANGED <<questions, today, deployed, withdrawn, loaded, runs>>

Next ==
  \/ NextDay
  \/ Deploy
  \/ \E t \in DOMAIN Tables : Load(t)
  \/ \E doc \in Docs : Withdraw(doc)
  \/ \E actor \in Subjects, door \in Doors : Prepare(actor, door)
  \/ \E door \in Doors, a \in Amendments : Amend(door, a)
  \/ Confirm
  \/ Expire
  \/ DateTheData
  \/ Finish
  \/ Fail

Spec == Init /\ [][Next]_vars

(****************************** properties ******************************)

TypeOK ==
  /\ today \in WorkDays /\ deployed \in DOMAIN Mappings /\ withdrawn \subseteq Docs
  /\ \A t \in DOMAIN Tables : loaded[t] \in 0..Len(Tables[t])
  /\ draft.status \in {"none", "needs", "awaiting", "confirmed", "expired", "dated", "ran"}
  /\ \A i \in DOMAIN runs : runs[i].definition.missing = {}

\* The rows a run has to count: those in the database that belong to the
\* confirmed reading, lie on a day of the period and have the value asked for.
RowsMeant(run, e) ==
  LET d == run.definition
      Day(i) == Tables[e.source][i][e.time]
  IN {i \in 1..run.loaded[e.source] :
        /\ e.where \subseteq Tables[e.source][i].meets
        /\ HasRule(d, "period") => Day(i) \in DaysIn(Value(d, "period"))
        /\ FilterOf(d) # {} =>
             LET f == Value(d, "filter")
             IN Tables[e.source][i][Dims[f[2]].columns[e.source]] = f[3]}

\* The group a row belongs to, and the count of each.
GroupMeant(e, g, i) ==
  IF g \in TimeGrains THEN BucketStart(Tables[e.source][i][e.time], g)
  ELSE Tables[e.source][i][Dims[g[2]].columns[e.source]]

JustEnded == IF draft.status = "ran" THEN {Last(runs)} ELSE {}

\* What runs is what was confirmed (compiler.py:1): the rows of the result are
\* exactly the confirmed reading's, over both ends of the confirmed period,
\* restricted to the confirmed value and split into whole groups; a rule a
\* statement cannot apply stops the run instead of being dropped.
AnswersCountTheConfirmedRows ==
  \A run \in JustEnded : \A e \in run.entry :
    LET rows == RowsMeant(run, e)
        split == GroupingOf(run.definition)
    IN /\ split = {} => run.answer = {<<Cardinality(rows)>>}
       /\ \A g \in split :
            run.answer = {<<GroupMeant(e, g, i),
                            Cardinality({j \in rows : GroupMeant(e, g, j) = GroupMeant(e, g, i)})>>
                          : i \in rows}
       /\ \A g \in split \cap TimeGrains, p \in PeriodOf(run.definition) :
            /\ {a[1] : a \in run.answer} \subseteq BucketStarts(p, g)
            /\ EdgesArePartial(p, g) <=>
                 \E s \in BucketStarts(p, g) : \E d \in s..(s + 30) :
                   BucketStart(d, g) = s /\ d \notin DaysIn(p)

\* The phrases of the question asked.
Asked == questions[draft.n]
Phrases == {Asked.text[i] : i \in DOMAIN Asked.text}
Kinds(ph) == {ph[i].is : i \in DOMAIN ph}
TimeKinds == {Patterns[i][1] : i \in DOMAIN Patterns}

\* Whether a day belongs to what a time phrase says, on the day it was said.
Week(d) == (d - 1) \div 7
CalendarMonth(d) == (MonthOf(d) % 12) + 1
DayMeant(ph, d, now) ==
  LET k == ph[1].is
  IN CASE k = "iso" -> ph[1].day <= d /\ d <= ph[Len(ph)].day /\ NoDay # ph[1].day
       [] k = "year" -> /\ YearOf(d) = ph[1].y
                        /\ Len(ph) > 1 => CalendarMonth(d) = ph[2].m
                        /\ Len(ph) = 3 => d - FirstOf(MonthOf(d)) + 1 = ph[3].d
       [] k = "isoMonth" -> YearOf(d) = ph[1].y /\ CalendarMonth(d) = ph[1].m
       [] k = "lastDays" -> now - d \in 0..(ph[1].n - 1)
       [] k = "lastMonths" -> FALSE
       [] k = "prevMonth" -> MonthOf(d) = MonthOf(now) - 1
       [] k = "thisMonth" -> MonthOf(d) = MonthOf(now) /\ d <= now
       [] k = "prevWeek" -> Week(d) = Week(now) - 1
       [] k = "thisWeek" -> Week(d) = Week(now) /\ d <= now
       [] k = "daysAgo" -> now - d = ph[1].n
       [] k = "month" -> /\ MonthOf(d) \in (MonthOf(now) - 11)..MonthOf(now)
                         /\ CalendarMonth(d) = ph[1].m
                         /\ Len(ph) > 1 => d - FirstOf(MonthOf(d)) + 1 = ph[2].d
       [] OTHER -> \* last year, this year, or a month of it
            /\ YearOf(d) = YearOf(now) - (IF k = "prevYear" THEN 1 ELSE 0)
            /\ IF Len(ph) = 2 THEN CalendarMonth(d) = ph[2].m ELSE d <= now
PeriodMeant(ph, p, now) ==
  /\ \A d \in {p[1], p[2]} : DayMeant(ph, d, now)
  /\ \A d \in {p[1] - 1, p[2] + 1} : ~DayMeant(ph, d, now)

\* What a phrase asks the result to be split by or restricted to: the
\* meanings it names, of which only a single declared one can be had.
SplitMeant(ph) ==
  {<<w.grain>> : w \in {ph[i] : i \in {j \in DOMAIN ph : At(ph, j) = "grain"}}}
  \cup {ByDim(ph[i].dim) : i \in {j \in DOMAIN ph : At(ph, j) = "name"}}
  \cup (IF Kinds(ph) \cap {"noun", "unsupported"} # {} THEN {Unclear} ELSE {})
ValuesMeant(ph) ==
  {Only(ph[i].dim, ph[i].value) : i \in {j \in DOMAIN ph : At(ph, j) = "value"}}
  \cup (IF "noun" \in Kinds(ph) THEN {Unclear} ELSE {})
IsSplit(ph) == Kinds(ph) \cap {"grain", "split", "unsupported"} # {}
Restricting(ph) == ~IsSplit(ph) /\ {"name"} \subseteq Kinds(ph) /\ ValuesMeant(ph) # {}
                     /\ "whole" \notin Kinds(ph)

\* The forms of the phrases that are read in full: a time that has its month and
\* counts at least one day, a split, a value of a dimension that declares
\* values, the distribution over one, or none of these.  Not among them: a year
\* alone, a month and a day without their year, a month straight after "last
\* year" or "this year", a month that is none, a count of zero, a split by an
\* undeclared word in no explicit shape, and an undeclared word or a second
\* value behind a joiner.
Form(ph) == [i \in 1..Len(ph) |-> ph[i].is]
TimePhrase(ph) ==
  /\ Form(ph) \in {Patterns[i] : i \in DOMAIN Patterns}
  /\ \A i \in DOMAIN ph : /\ ph[i].is \in {"month", "isoMonth"} => ph[i].m \in 1..12
                          /\ ph[i].is \in {"lastDays", "lastMonths"} => ph[i].n > 0
SplitPhrase(ph) ==
  \/ Form(ph) \in {<<"grain">>, <<"unsupported">>, <<"split", "name">>}
  \/ /\ Form(ph) \in {<<"split", "noun", "of">>, <<"split", "noun", "into">>}
     /\ ph[1].closes = ph[3].is
DeclaredValue(w, d) == w.is = "value" => w.dim = d /\ w.value \in Dims[d].values
ValuePhrase(ph) ==
  /\ Form(ph) \in {<<"value", "name">>, <<"noun", "name">>, <<"name", "equals", "value">>,
                   <<"name", "equals", "noun">>, <<"value", "join", "value", "name">>}
  /\ \A i \in DOMAIN ph : ph[i].is = "name" =>
       /\ Dims[ph[i].dim].values # {}
       /\ Len(ph) = 4 => \A j \in DOMAIN ph : DeclaredValue(ph[j], ph[i].dim)
WholePhrase(ph) ==
  Form(ph) \in {<<"name">>, <<"name", "whole">>, <<"value", "name", "whole">>, <<"noun", "name", "whole">>}
OtherPhrase(ph) ==
  Kinds(ph) \cap (TimeKinds \cup {"grain", "unsupported", "split", "name"}) = {}
PhraseOK(ph) ==
  /\ IsSequence(ph) /\ ph # <<>>
  /\ \/ TimePhrase(ph) \/ SplitPhrase(ph) \/ ValuePhrase(ph)
     \/ WholePhrase(ph) \/ OtherPhrase(ph)

\* Two words at which one phrase may end and the next begin without being read
\* together: other words on either side, a word that opens a phrase whatever
\* stands before it, or one that a word of its own may follow (_BREAKS).
Opening == {"end", "text", "of", "metric", "grain", "unsupported", "lastDays",
            "lastMonths", "prevMonth", "thisMonth", "prevWeek", "thisWeek",
            "prevYear", "thisYear", "daysAgo"}
Apart(left, right) ==
  \/ left \in {"end", "text"} \/ right \in Opening
  \/ left \in Breaks \ {"split"} /\ right \notin {"month", "day"}

\* A question in such phrases, one apart from the next.
Readable(phrases) ==
  /\ IsSequence(phrases) /\ \A i \in DOMAIN phrases : PhraseOK(phrases[i])
  /\ \A i \in 1..(Len(phrases) - 1) :
       Apart(phrases[i][Len(phrases[i])].is, phrases[i + 1][1].is)

Settled(key, phrases, Means(_, _)) ==
  /\ HasRule(draft.inner, key) =>
       phrases # {} /\ \A ph \in phrases : Means(ph, Value(draft.inner, key))
  /\ phrases # {} => HasRule(draft.inner, key) \/ key \in draft.inner.missing

ReadInFull(phrases) ==
  /\ Settled("period", {ph \in phrases : ph[1].is \in TimeKinds},
             LAMBDA ph, v : PeriodMeant(ph, v, draft.asked))
  /\ Settled("group_by", {ph \in phrases : IsSplit(ph)}, LAMBDA ph, v : SplitMeant(ph) = {v})
  /\ Settled("filter", {ph \in phrases : Restricting(ph)},
             LAMBDA ph, v : ValuesMeant(ph) = {v})

\* A question is answered as asked or asked about (periods.py:8, builder.py:87):
\* every period, split or value it names is the one on the sheet, and one that
\* is unclear, impossible, undeclared or named beside another leaves a gap.
\* This is so of questions in the forms above (Readable), whatever stands
\* beside whatever; the patterns know other words in part only (README).
QuestionsAreReadInFull ==
  draft.status \in {"needs", "awaiting"} /\ Readable(Asked.text) => ReadInFull(Phrases)

\* What the documents say for certain: grounded in an excerpt the model was
\* shown, and the last citation of its wording.
Claims ==
  LET out == Asked.output
      Counts(i) == Grounded(out[i]) /\ Menu[out[i].citation].doc \notin draft.gone
  IN {out[i] : i \in {j \in DOMAIN out :
        /\ Counts(j)
        /\ \A k \in (j + 1)..Len(out) :
              Counts(k) => out[k].key # out[j].key \/ out[k].value # out[j].value}}
Points(p) == Implied(Mappings[draft.since], draft.definition.metric, p.key, p.quote)

\* Documents explain and never decide alone (evidence_builder.py, enforcement.py:104):
\* when a definition is confirmed, a rule the documents disagree about was
\* settled by someone; a documented rule quotes an excerpt that stood and that
\* contains its numbers; and a reading attributed to the documents is the only
\* one that none of their wordings points away from.
DocumentsOnlyExplain ==
  draft.status \in {"confirmed", "dated", "ran"} =>
    LET d == draft.definition
        documented == {d.rules[i] : i \in {j \in DOMAIN d.rules : d.rules[j].source = "doc"}}
    IN /\ \A p, q \in Claims :
            p.key = q.key /\ p.value # q.value =>
              HasRule(d, p.key) /\ \A r \in documented : r.key # p.key
       /\ \A r \in documented : r.key # "variant" =>
            \E p \in Claims : /\ p.key = r.key /\ p.value = r.value
                              /\ r.ref = <<Menu[p.citation].doc, p.quote>>
                              /\ Values[p.value].numbers \subseteq Quotes[p.quote].numbers
       /\ \A r \in documented : r.key = "variant" =>
            {v \in VariantsOf(d) : \A p \in Claims : Points(p) = {} \/ v \in Points(p)}
              = {r.value}

\* The earlier runs of the person a draft belongs to.
Earlier == {runs[i] : i \in {j \in DOMAIN runs : /\ runs[j].actor = draft.actor
                                                /\ runs[j].n < draft.n}}
Recalled ==
  {draft.definition.rules[i] : i \in {j \in DOMAIN draft.definition.rules :
     draft.definition.rules[j].source = "history" /\ draft.definition.rules[j].key # "previous_choice"}}

\* A remembered choice fills gaps and overrides nothing (history.py:8): only
\* where a person reads the sheet, only for a key neither the question nor the
\* documents settled, only what this person chose in a run of the same metric
\* that is recent enough, over the mapping that still answers it, and resting
\* on no document that is gone; never a reading that a recalled wording
\* points away from.
RememberedChoicesOnlyFillGaps ==
  draft.n > 1 =>
    /\ Recalled # {} => draft.door = "person"
    /\ \A r \in Recalled :
         /\ r.key \in draft.inner.missing \ NotRemembered
         /\ \E run \in Earlier : \E i \in DOMAIN run.definition.rules :
              LET was == run.definition.rules[i]
              IN /\ run.definition.metric = draft.definition.metric
                 /\ run.day + MaxAge >= draft.asked
                 /\ run.entry = Lookup(Mappings[draft.since], run.definition)
                 /\ was.key = r.key /\ was.source # "doc" /\ was.value = r.value
                 /\ was.ref # NoRef => was.ref[1] \notin draft.gone
    /\ \A r, s \in Recalled : r.key = "variant" /\ s.key # "variant" =>
         s.implies = {} \/ r.value \in s.implies

\* history.py:112: a reading that a document's wording chose is recalled only
\* while that document checks out, however often it was recalled in between.
RecalledReadingsLapseWithTheirDocument ==
  draft.n > 1 =>
    \A r \in Recalled : r.key = "variant" =>
      \E run \in Earlier : \E i \in DOMAIN run.definition.rules :
        LET was == run.definition.rules[i]
        IN /\ was.key = "variant" /\ was.source = "user" /\ was.value = r.value
           /\ was.ref # NoRef => was.ref[1] \notin draft.gone

\* Rows arrive in the order of their time.
RowsInOrder ==
  \A i \in DOMAIN Mappings : \A at \in DOMAIN Mappings[i] :
    LET e == Mappings[i][at]
    IN ~e.whole /\ e.time # "" =>
         \A j, k \in DOMAIN Tables[e.source] :
           j <= k => Tables[e.source][j][e.time] <= Tables[e.source][k][e.time]

\* A result that says its period is covered counts every row the period will
\* ever have, when rows arrive in the order of their time (coverage.py:52),
\* although the data was dated before the rows were counted.
CoverageIsNotOverstated ==
  \A run \in JustEnded : \A e \in run.entry :
    RowsInOrder /\ run.reach = "covered" =>
      RowsMeant(run, e)
        = RowsMeant([run EXCEPT !.loaded = [t \in DOMAIN Tables |-> Len(Tables[t])]], e)
=============================================================================
