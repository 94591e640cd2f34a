--------------------------- MODULE WorkflowProofs ---------------------------
(***************************************************************************)
(* Theorems about Workflow, for every set of people, processes, rules and  *)
(* documents and every bound: what its tables hold and every step keeps,   *)
(* that it implements ConfirmationGate, that the two readings of a pending *)
(* draft agree, that nothing proceeds on evidence withdrawn before it      *)
(* began, and that no amendment is lost.                                   *)
(***************************************************************************)
EXTENDS Workflow, TLAPS

-----------------------------------------------------------------------------
(* Sequences: appending a row, replacing a row. *)

LEMMA AppendRow ==
  ASSUME NEW S, NEW s \in Seq(S), NEW e \in S
  PROVE  /\ Append(s, e) \in Seq(S)
         /\ Len(Append(s, e)) = Len(s) + 1
         /\ DOMAIN Append(s, e) = DOMAIN s \cup {Len(s) + 1}
         /\ \A i \in DOMAIN s : Append(s, e)[i] = s[i]
         /\ Append(s, e)[Len(s) + 1] = e
  OBVIOUS

LEMMA ReplaceRow ==
  ASSUME NEW S, NEW s \in Seq(S), NEW i \in DOMAIN s, NEW e \in S
  PROVE  /\ [s EXCEPT ![i] = e] \in Seq(S)
         /\ Len([s EXCEPT ![i] = e]) = Len(s)
         /\ DOMAIN [s EXCEPT ![i] = e] = DOMAIN s
  OBVIOUS

LEMMA RowInTable ==
  ASSUME NEW S, NEW s \in Seq(S), NEW i \in DOMAIN s
  PROVE  s[i] \in S /\ i \in Nat /\ i >= 1 /\ i <= Len(s)
  OBVIOUS

\* A table read row by row: one row more is one reading appended.
LEMMA RowsMapped ==
  ASSUME NEW n \in Nat, NEW f, NEW g,
         f = [i \in 1..n |-> f[i]], g = [i \in 1..(n + 1) |-> g[i]],
         \A i \in 1..n : g[i] = f[i]
  PROVE  g = Append(f, g[n + 1])
<1> DEFINE S == {g[i] : i \in 1..(n + 1)}
<1>1. f \in Seq(S) /\ Len(f) = n /\ DOMAIN f = 1..n
  <2>1. \A i \in 1..n : f[i] \in S
    <3>1. \A i \in 1..n : g[i] \in S /\ f[i] = g[i]
      OBVIOUS
    <3>2. QED
      BY <3>1
  <2> HIDE DEF S
  <2>2. f \in [1..n -> S]
    BY <2>1
  <2>3. QED
    BY <2>2
<1>2. g[n + 1] \in S
  OBVIOUS
<1> HIDE DEF S
<1> DEFINE e == g[n + 1]
<1>3. /\ Append(f, e) \in Seq(S) /\ DOMAIN Append(f, e) = 1..(n + 1)
      /\ \A i \in 1..n : Append(f, e)[i] = f[i]
      /\ Append(f, e)[n + 1] = e
  BY <1>1, <1>2
<1>4. Append(f, e) = [i \in 1..(n + 1) |-> Append(f, e)[i]]
  BY <1>3
<1>5. \A i \in 1..(n + 1) : Append(f, e)[i] = g[i]
  <2>1. \A i \in 1..(n + 1) : i \in 1..n \/ i = n + 1
    OBVIOUS
  <2>2. QED
    BY <1>3, <2>1
<1>6. QED
  BY <1>4, <1>5

LEMMA DefinitionsWellTyped ==
  /\ OpenDefinition \in Definition
  /\ Built \subseteq Definition
  /\ \A a \in Actors : \A defn \in Definition, added \in Amendments(a) :
       WithRules(defn, added) \in Definition
  /\ \A defn \in Definition :
       StatusOf(defn) \in {"needs_input", "awaiting_confirmation", "expired"}
  /\ NoKey \in Key /\ Blank \in Local /\ NoScreen \in Screen
<1>1. OpenDefinition \in Definition
  BY DEF OpenDefinition, Definition, Missing, Rule, Sources
<1>2. Built \subseteq Definition
  BY DEF Built
<1>3. ASSUME NEW a \in Actors, NEW defn \in Definition, NEW added \in Amendments(a)
      PROVE  WithRules(defn, added) \in Definition
  <2>1. PICK ks \in SUBSET RuleKeys \ {{}} :
             added \in [ks -> [value : Values, source : {AuthoringSource(a)}]]
    BY <1>3 DEF Amendments
  <2>2. \A k \in DOMAIN added : added[k] \in Rule
    BY <2>1 DEF AuthoringSource, Rule, Sources
  <2>3. QED
    BY <2>2 DEF WithRules, Definition
<1>4. \A defn \in Definition :
        StatusOf(defn) \in {"needs_input", "awaiting_confirmation", "expired"}
  BY DEF StatusOf
<1>5. NoKey \in Key
  BY DEF NoKey, Key
<1>6. Blank \in Local /\ NoScreen \in Screen
  BY <1>1, <1>5 DEF Blank, OnDraft, Local, NoScreen, Screen
<1>7. QED
  BY <1>1, <1>2, <1>3, <1>4, <1>5, <1>6

LEMMA LocalsWellTyped ==
  /\ \A d, version \in Nat, defn \in Definition : OnDraft(d, version, defn) \in Local
  /\ \A c \in Nat, key \in Key : ToExecute(c, key) \in Local
  BY DefinitionsWellTyped DEF OnDraft, ToExecute, Local

LEMMA FieldsWellTyped ==
  ASSUME NEW l \in Local
  PROVE  /\ \A refs \in SUBSET Docs : [l EXCEPT !.refs = refs] \in Local
         /\ \A n \in Nat : [l EXCEPT !.expected = n] \in Local
         /\ \A n \in Nat : [l EXCEPT !.run = n] \in Local
         /\ \A outcome \in {"executing", "succeeded", "failed"} :
              [l EXCEPT !.outcome = outcome] \in Local
  BY DEF Local

LEMMA SheetWellTyped ==
  ASSUME NEW a \in Actors, NEW d \in Nat, NEW version \in Nat, NEW defn \in Definition
  PROVE  Sheet(a, d, version, defn) \in Screen
  BY DEF Sheet, Screen

LEMMA AmendedWellTyped ==
  ASSUME NEW row \in Draft, NEW version \in 1..MaxVersion, NEW defn \in Definition
  PROVE  Amended(row, version, defn) \in Draft
  BY DefinitionsWellTyped DEF Amended, Draft

LEMMA FinishedWellTyped ==
  ASSUME NEW row \in Run, NEW defn \in Definition,
         NEW outcome \in {"executing", "succeeded", "failed"}
  PROVE  Finished(row, outcome, defn) \in Run
  BY DEF Finished, Run

-----------------------------------------------------------------------------
(* Type correctness.  TypeOK is not inductive: a step types what it reads    *)
(* from a table only if the row is there, so the strengthening says which    *)
(* rows a process holds a reference to at each step, and that the tables'    *)
(* references to each other are good.                                        *)

AtDraft == Steps \ {"idle", "advise", "load", "answer"}

LocalFits(a) ==
  /\ pc[a] = "advise" => Probing
  /\ pc[a] \in AtDraft => loc[a].draft \in DOMAIN drafts
  /\ pc[a] \in {"check", "write"} => loc[a].version \in 1..MaxVersion
  /\ pc[a] \in {"load", "key", "admit", "claim"} => loc[a].conf \in DOMAIN confs
  /\ pc[a] \in {"evidence", "refs"} /\ loc[a].op # "confirm"
       => loc[a].conf \in DOMAIN confs
  /\ pc[a] \in {"probe", "query", "finish", "answer"} => loc[a].run \in DOMAIN runs

RowsFit ==
  /\ \A c \in DOMAIN confs : confs[c].draft \in DOMAIN drafts
  /\ \A r \in DOMAIN runs : runs[r].draft \in DOMAIN drafts
                            /\ runs[r].conf \in DOMAIN confs

TypeInv == TypeOK /\ RowsFit /\ \A a \in Actors : LocalFits(a)

\* The tables keep their rows.
Grows ==
  /\ DOMAIN drafts \subseteq DOMAIN drafts'
  /\ DOMAIN confs \subseteq DOMAIN confs'
  /\ DOMAIN runs \subseteq DOMAIN runs'

\* Process a moves to a step with local variables l; the others stay.
Moves(a, step, l) ==
  /\ pc' = [pc EXCEPT ![a] = step]
  /\ loc' = [loc EXCEPT ![a] = l]

LEMMA OthersFit ==
  ASSUME TypeInv, NEW a \in Actors, NEW step \in Steps, NEW l \in Local,
         Moves(a, step, l), Grows, LocalFits(a)'
  PROVE  /\ \A b \in Actors : LocalFits(b)'
         /\ pc' \in [Actors -> Steps] /\ loc' \in [Actors -> Local]
<1>1. ASSUME NEW b \in Actors, b # a PROVE LocalFits(b)'
  <2>1. pc'[b] = pc[b] /\ loc'[b] = loc[b]
    BY <1>1 DEF TypeInv, TypeOK, Moves
  <2>2. LocalFits(b)
    BY DEF TypeInv
  <2>3. QED
    BY <2>1, <2>2 DEF LocalFits, Grows
<1>2. pc' \in [Actors -> Steps] /\ loc' \in [Actors -> Local]
  BY DEF TypeInv, TypeOK, Moves
<1>3. QED
  BY <1>1, <1>2

\* A process whose method is over, or that has only its notes left to show,
\* holds nothing.
Rests(a) == \E step \in {"idle", "advise"} :
              Moves(a, step, Blank) /\ (step = "advise" => Probing)

LEMMA Rested ==
  ASSUME NEW a, Return(a) \/ AfterSheet(a)
  PROVE  Rests(a)
  BY DEF Rests, Return, AfterSheet, Goto, Moves

LEMMA RestFits ==
  ASSUME TypeInv, NEW a \in Actors, Rests(a), Grows
  PROVE  /\ \A b \in Actors : LocalFits(b)'
         /\ pc' \in [Actors -> Steps] /\ loc' \in [Actors -> Local]
<1>1. PICK step \in {"idle", "advise"} :
        Moves(a, step, Blank) /\ (step = "advise" => Probing)
  BY DEF Rests
<1>0. step \in Steps /\ Blank \in Local
  BY DefinitionsWellTyped DEF Steps
<1>2. LocalFits(a)'
  BY <1>1 DEF LocalFits, AtDraft, Moves, TypeInv, TypeOK
<1>3. QED
  BY <1>0, <1>1, <1>2, OthersFit

LEMMA IdleFits ==
  ASSUME TypeInv, NEW a \in Actors, Return(a), Grows
  PROVE  /\ \A b \in Actors : LocalFits(b)'
         /\ pc' \in [Actors -> Steps] /\ loc' \in [Actors -> Local]
  BY Rested, RestFits

LEMMA ExitFits ==
  ASSUME TypeInv, NEW a \in Actors, Exit(a), Grows
  PROVE  /\ \A b \in Actors : LocalFits(b)'
         /\ pc' \in [Actors -> Steps] /\ loc' \in [Actors -> Local]
         /\ screen' \in [Actors -> Screen]
  BY IdleFits, DefinitionsWellTyped DEF Exit, ScreenAfterExit, TypeInv, TypeOK

LEMMA TypeInvInit == Init => TypeInv
<1> SUFFICES ASSUME Init PROVE TypeInv
  OBVIOUS
<1>1. TypeOK
  <2>1. NoAnswer \in [run : Nat, version : Nat, defn : Definition]
    BY DefinitionsWellTyped DEF NoAnswer
  <2>2. QED
    BY <2>1, DefinitionsWellTyped, WorkflowAssumption DEF Init, TypeOK, Steps
<1>2. RowsFit /\ \A a \in Actors : LocalFits(a)
  BY DEF Init, RowsFit, LocalFits, AtDraft
<1>3. QED
  BY <1>1, <1>2 DEF TypeInv

LEMMA TypeInvPrepare ==
  ASSUME TypeInv, NEW a \in Actors, NEW defn \in Built, NEW cites \in SUBSET Docs,
         Prepare(a, defn, cites)
  PROVE  TypeInv'
<1> DEFINE d == Len(drafts) + 1
           row == [subject |-> SubjectOf[a], workspace |-> WorkspaceOf[a],
                   version |-> 1, defn |-> defn, status |-> StatusOf(defn),
                   cites |-> cites]
<1>1. row \in Draft /\ defn \in Definition
  BY DefinitionsWellTyped, WorkflowAssumption DEF Draft
<1>2. drafts' = Append(drafts, row) /\ evidence' = Append(evidence, {})
  BY DEF Prepare
<1>3. /\ drafts' \in Seq(Draft) /\ evidence' \in Seq(SUBSET Docs)
      /\ Len(evidence') = Len(drafts')
      /\ DOMAIN drafts \subseteq DOMAIN drafts' /\ d \in DOMAIN drafts' /\ d \in Nat
  <2>1. /\ drafts' \in Seq(Draft) /\ Len(drafts') = Len(drafts) + 1
        /\ DOMAIN drafts' = DOMAIN drafts \cup {Len(drafts) + 1}
    BY <1>1, <1>2, AppendRow DEF TypeInv, TypeOK
  <2>2. evidence' \in Seq(SUBSET Docs) /\ Len(evidence') = Len(evidence) + 1
    BY <1>2, AppendRow DEF TypeInv, TypeOK
  <2>3. QED
    BY <2>1, <2>2 DEF TypeInv, TypeOK
<1>4. UNCHANGED <<confs, runs, standing, answer, statements, crashes, docChanges>>
  BY DEF Prepare, bounds
<1>5. Grows /\ RowsFit'
  BY <1>3, <1>4 DEF Grows, RowsFit, TypeInv
<1>6. /\ \A b \in Actors : LocalFits(b)'
      /\ pc' \in [Actors -> Steps] /\ loc' \in [Actors -> Local]
      /\ screen' \in [Actors -> Screen]
  <2>1. CASE cites = {}
    <3>1. Rests(a) /\ screen' = [screen EXCEPT ![a] = Sheet(a, d, 1, defn)]
      BY <2>1, Rested DEF Prepare
    <3>2. QED
      BY <3>1, <1>1, <1>3, <1>5, RestFits, SheetWellTyped DEF TypeInv, TypeOK
  <2>2. CASE cites # {}
    <3> DEFINE l == [OnDraft(d, 1, defn) EXCEPT !.refs = cites]
    <3>1. l \in Local
      BY <1>1, <1>3, LocalsWellTyped, FieldsWellTyped
    <3>2. l.draft = d
      BY DEF OnDraft
    <3> HIDE DEF l
    <3>3. Moves(a, "record", l) /\ UNCHANGED screen /\ "record" \in Steps
      BY <2>2 DEF Prepare, Moves, Goto, Steps, l
    <3>4. LocalFits(a)'
      BY <3>2, <3>3, <1>3 DEF LocalFits, Moves, TypeInv, TypeOK
    <3>5. QED
      BY <3>1, <3>3, <3>4, <1>5, OthersFit DEF TypeInv, TypeOK
  <2>3. QED
    BY <2>1, <2>2
<1>7. QED
  BY <1>3, <1>4, <1>5, <1>6 DEF TypeInv, TypeOK

LEMMA CheckingWellTyped ==
  ASSUME TypeInv, NEW d \in DOMAIN drafts, NEW op \in {"confirm", "execute"},
         NEW c \in Nat, NEW key \in Key
  PROVE  Checking(op, d, c, key) \in Local
<1>1. drafts[d] \in Draft /\ evidence[d] \in SUBSET Docs /\ d \in Nat
  BY RowInTable DEF TypeInv, TypeOK
<1>2. QED
  BY <1>1 DEF Checking, Local, Draft

\* An action that only moves its own process keeps the invariant if the place
\* it moves to fits.
LEMMA StillTables ==
  ASSUME TypeInv, UNCHANGED <<tables, standing, statements, bounds>>
  PROVE  /\ Grows /\ RowsFit'
         /\ pc' \in [Actors -> Steps] /\ loc' \in [Actors -> Local]
            /\ screen' \in [Actors -> Screen]
            /\ answer' \in [Agents -> [run : Nat, version : Nat, defn : Definition]]
            /\ (\A b \in Actors : LocalFits(b)')
            => TypeInv'
  BY DEF TypeInv, TypeOK, RowsFit, Grows, tables, bounds

LEMMA TypeInvView ==
  ASSUME TypeInv, NEW a \in Actors, NEW d \in DOMAIN drafts,
         View(a, d) \/ ExecuteConfirmed(a, d)
  PROVE  TypeInv'
<1> DEFINE l == OnDraft(d, drafts[d].version, drafts[d].defn)
<1>1. PICK step \in {"progress", "lookup"} : Moves(a, step, l)
  BY DEF View, ExecuteConfirmed, Moves, Goto
<1>2. l \in Local /\ l.draft = d
  <2>1. drafts[d] \in Draft /\ d \in Nat
    BY RowInTable DEF TypeInv, TypeOK
  <2>2. QED
    BY <2>1, LocalsWellTyped DEF Draft, OnDraft
<1> HIDE DEF l
<1>3. UNCHANGED <<tables, standing, screen, answer, statements, bounds>>
  BY DEF View, ExecuteConfirmed
<1>4. step \in Steps
  BY DEF Steps
<1>5. LocalFits(a)'
  BY <1>1, <1>2, <1>3 DEF LocalFits, Moves, TypeInv, TypeOK, tables
<1>6. QED
  BY <1>1, <1>2, <1>3, <1>4, <1>5, OthersFit, StillTables DEF TypeInv, TypeOK

LEMMA TypeInvAmend ==
  ASSUME TypeInv, NEW a \in Actors, NEW added \in Amendments(a),
         NEW expected \in 1..MaxVersion, Amend(a, added, expected)
  PROVE  TypeInv'
<1> DEFINE d == screen[a].draft
           version == drafts[d].version + 1
           l == [OnDraft(d, version, WithRules(drafts[d].defn, added))
                   EXCEPT !.expected = expected]
<1>1. drafts[d] \in Draft /\ d \in DOMAIN drafts /\ d \in Nat
  BY RowInTable DEF Amend, CanOpen, CanRead, TypeInv, TypeOK
<1>2. /\ WithRules(drafts[d].defn, added) \in Definition
      /\ version \in 1..MaxVersion /\ version \in Nat /\ expected \in Nat
  BY <1>1, DefinitionsWellTyped, WorkflowAssumption DEF Amend, Draft
<1>3. l \in Local
  BY <1>1, <1>2, LocalsWellTyped, FieldsWellTyped
<1>4. l.draft = d /\ l.version = version
  BY DEF OnDraft
<1>5. Moves(a, "check", l) /\ "check" \in Steps
  BY DEF Amend, Moves, Goto, Steps
<1> HIDE DEF l, version
<1>6. UNCHANGED <<tables, standing, screen, answer, statements, bounds>>
  BY DEF Amend
<1>7. LocalFits(a)'
  BY <1>1, <1>2, <1>4, <1>5, <1>6 DEF LocalFits, Moves, TypeInv, TypeOK, tables
<1>8. QED
  BY <1>3, <1>5, <1>6, <1>7, OthersFit, StillTables DEF TypeInv, TypeOK

LEMMA TypeInvConfirm ==
  ASSUME TypeInv, NEW a \in Actors, Confirm(a)
  PROVE  TypeInv'
<1> DEFINE d == screen[a].draft
           l == Checking("confirm", d, 0, NoKey)
<1>1. d \in DOMAIN drafts
  BY DEF Confirm, CanOpen, CanRead
<1>2. l \in Local
  BY <1>1, CheckingWellTyped, DefinitionsWellTyped
<1>3. l.draft = d /\ l.op = "confirm"
  BY DEF Checking
<1>4. UNCHANGED <<tables, standing, answer, statements, bounds>>
  BY DEF Confirm
<1>5. CASE Exit(a)
  BY <1>4, <1>5, ExitFits, StillTables DEF TypeInv, TypeOK
<1>6. CASE ~Exit(a)
  <2>1. Moves(a, "evidence", l) /\ UNCHANGED screen /\ "evidence" \in Steps
    BY <1>6 DEF Confirm, Moves, Goto, Steps
  <2> HIDE DEF l
  <2>2. LocalFits(a)'
    BY <1>1, <1>3, <1>4, <2>1 DEF LocalFits, Moves, TypeInv, TypeOK, tables
  <2>3. QED
    BY <1>2, <1>4, <2>1, <2>2, OthersFit, StillTables DEF TypeInv, TypeOK
<1>7. QED
  BY <1>5, <1>6

LEMMA TypeInvRequest ==
  ASSUME TypeInv, NEW a \in Actors, Request(a)
  PROVE  TypeInv'
  BY TypeInvPrepare, TypeInvView, TypeInvAmend, TypeInvConfirm DEF Request

\* The moves of one process that leave the tables alone: it goes to a step
\* that fits, or its method ends.
LEMMA QuietMove ==
  ASSUME TypeInv, NEW a \in Actors, NEW step \in Steps, NEW l \in Local,
         Moves(a, step, l), LocalFits(a)',
         UNCHANGED <<tables, standing, screen, answer, statements, bounds>>
  PROVE  TypeInv'
  BY OthersFit, StillTables DEF TypeInv, TypeOK

LEMMA QuietExit ==
  ASSUME TypeInv, NEW a \in Actors, Exit(a),
         UNCHANGED <<tables, standing, answer, statements, bounds>>
  PROVE  TypeInv'
  BY ExitFits, StillTables DEF TypeInv, TypeOK

\* A move that keeps its local variables is a move to the ones it has.
LEMMA SameLocals ==
  ASSUME TypeInv, NEW a \in Actors, NEW step, Goto(a, step), UNCHANGED loc
  PROVE  Moves(a, step, loc[a])
  BY DEF TypeInv, TypeOK, Goto, Moves

LEMMA TypeInvRecord ==
  ASSUME TypeInv, NEW a \in Actors, NEW doc \in Docs, RecordCitation(a, doc)
  PROVE  TypeInv'
<1> DEFINE d == loc[a].draft
           l == [loc[a] EXCEPT !.refs = loc[a].refs \ {doc}]
<1>1. d \in DOMAIN drafts /\ d \in DOMAIN evidence /\ d \in Nat
  <2>1. d \in DOMAIN drafts
    BY DEF RecordCitation, TypeInv, LocalFits, AtDraft, Steps
  <2>2. drafts \in Seq(Draft) /\ evidence \in Seq(SUBSET Docs) /\ Len(evidence) = Len(drafts)
    BY DEF TypeInv, TypeOK
  <2> HIDE DEF d
  <2>3. QED
    BY <2>1, <2>2
<1>2. loc[a] \in Local /\ evidence[d] \in SUBSET Docs
  BY <1>1, RowInTable DEF TypeInv, TypeOK
<1>3. evidence' = [evidence EXCEPT ![d] = evidence[d] \cup {doc}]
  BY DEF RecordCitation
<1>4. evidence' \in Seq(SUBSET Docs) /\ Len(evidence') = Len(evidence)
  BY <1>1, <1>2, <1>3, ReplaceRow DEF TypeInv, TypeOK
<1>5. UNCHANGED <<drafts, confs, runs, standing, answer, statements, crashes, docChanges>>
  BY DEF RecordCitation, bounds
<1>6. Grows /\ RowsFit'
  BY <1>5 DEF Grows, RowsFit, TypeInv
<1>7. /\ \A b \in Actors : LocalFits(b)'
      /\ pc' \in [Actors -> Steps] /\ loc' \in [Actors -> Local]
      /\ screen' \in [Actors -> Screen]
  <2>1. CASE loc[a].refs = {doc}
    <3>1. Rests(a) /\ screen' = [screen EXCEPT ![a] = Sheet(a, d, 1, loc[a].defn)]
      BY <2>1, Rested DEF RecordCitation
    <3>2. loc[a].defn \in Definition
      BY <1>2 DEF Local
    <3>3. Sheet(a, d, 1, loc[a].defn) \in Screen
      BY <1>1, <3>2, SheetWellTyped
    <3>4. QED
      BY <3>1, <3>3, <1>6, RestFits DEF TypeInv, TypeOK
  <2>2. CASE loc[a].refs # {doc}
    <3>1. loc[a].refs \ {doc} \in SUBSET Docs
      BY <1>2 DEF Local
    <3>2. l \in Local
      BY <1>2, <3>1, FieldsWellTyped
    <3>3. l.draft = d
      BY <1>2 DEF Local
    <3>4. loc' = [loc EXCEPT ![a] = l] /\ UNCHANGED <<pc, screen>>
      BY <2>2 DEF RecordCitation
    <3> HIDE DEF l
    <3>5. pc' = [pc EXCEPT ![a] = "record"] /\ "record" \in Steps
      BY <3>4 DEF RecordCitation, TypeInv, TypeOK, Steps
    <3>6. LocalFits(a)'
      BY <3>3, <3>4, <3>5, <1>1, <1>5 DEF LocalFits, TypeInv, TypeOK
    <3>7. QED
      BY <3>2, <3>4, <3>5, <3>6, <1>6, OthersFit DEF Moves, TypeInv, TypeOK
  <2>3. QED
    BY <2>1, <2>2
<1>8. QED
  BY <1>4, <1>5, <1>6, <1>7 DEF TypeInv, TypeOK

LEMMA TypeInvShowProgress ==
  ASSUME TypeInv, NEW a \in Actors, ShowProgress(a)
  PROVE  TypeInv'
<1> DEFINE d == loc[a].draft
           offers == Offers(a, Progress(d), loc[a].defn)
           sheet == [draft |-> d, version |-> loc[a].version,
                     defn |-> loc[a].defn, offers |-> offers]
<1>1. offers \in SUBSET {"confirm", "amend"}
  BY DEF Offers
<1> HIDE DEF offers
<1>2. sheet \in Screen
  <2>1. loc[a] \in Local
    BY DEF TypeInv, TypeOK
  <2>2. QED
    BY <1>1, <2>1 DEF Local, Screen
<1>3. UNCHANGED <<tables, standing, answer, statements, bounds>>
  BY DEF ShowProgress
<1>4. CASE Exit(a)
  BY <1>3, <1>4, QuietExit
<1>5. CASE ~ Exit(a)
  <2>1. Rests(a) /\ screen' = [screen EXCEPT ![a] = sheet]
    BY <1>5, Rested DEF ShowProgress, offers
  <2> HIDE DEF sheet
  <2>2. screen' \in [Actors -> Screen]
    BY <1>2, <2>1 DEF TypeInv, TypeOK
  <2>3. Grows
    BY <1>3, StillTables
  <2>4. /\ \A b \in Actors : LocalFits(b)'
        /\ pc' \in [Actors -> Steps] /\ loc' \in [Actors -> Local]
    BY <2>1, <2>3, RestFits
  <2>5. answer' \in [Agents -> [run : Nat, version : Nat, defn : Definition]]
    BY <1>3 DEF TypeInv, TypeOK
  <2>6. QED
    BY <1>3, <2>2, <2>4, <2>5, StillTables
<1>6. QED
  BY <1>4, <1>5

LEMMA TypeInvNotes ==
  ASSUME TypeInv, NEW a \in Actors, ProbeFreshness(a) \/ ShowNotes(a)
  PROVE  TypeInv'
<1>1. CASE ProbeFreshness(a)
  <2>1. Advisory \in Statement
    BY DefinitionsWellTyped DEF Advisory, Statement
  <2>2. statements' \in Seq(Statement)
    BY <1>1, <2>1, AppendRow DEF ProbeFreshness, TypeInv, TypeOK
  <2>3. UNCHANGED <<tables, standing, pc, loc, screen, answer, bounds>>
    BY <1>1 DEF ProbeFreshness
  <2>4. QED
    BY <2>2, <2>3 DEF TypeInv, TypeOK, RowsFit, LocalFits, tables, bounds
<1>2. CASE ShowNotes(a)
  BY <1>2, IdleFits, StillTables DEF ShowNotes, TypeInv, TypeOK
<1>3. QED
  BY <1>1, <1>2

LEMMA TypeInvAmendCheck ==
  ASSUME TypeInv, NEW a \in Actors, AmendCheck(a)
  PROVE  TypeInv'
<1>1. UNCHANGED <<tables, standing, answer, statements, bounds>>
  BY DEF AmendCheck
<1>2. CASE Exit(a)
  BY <1>1, <1>2, QuietExit
<1>3. CASE Goto(a, "write") /\ UNCHANGED <<loc, screen>>
  <2>1. Moves(a, "write", loc[a]) /\ "write" \in Steps /\ loc[a] \in Local
    BY <1>3, SameLocals DEF Steps, TypeInv, TypeOK
  <2>2. LocalFits(a)'
    BY <1>1, <1>3 DEF AmendCheck, LocalFits, AtDraft, Steps, Goto, TypeInv, TypeOK, tables
  <2>3. QED
    BY <1>1, <1>3, <2>1, <2>2, QuietMove
<1>4. QED
  BY <1>2, <1>3 DEF AmendCheck

\* Replacing a draft by one of the same type.
LEMMA DraftReplaced ==
  ASSUME TypeInv, NEW d \in DOMAIN drafts, NEW row \in Draft,
         drafts' = [drafts EXCEPT ![d] = row],
         UNCHANGED <<evidence, confs, runs, standing, answer, statements, bounds>>
  PROVE  /\ Grows /\ RowsFit'
         /\ pc' \in [Actors -> Steps] /\ loc' \in [Actors -> Local]
            /\ screen' \in [Actors -> Screen] /\ (\A b \in Actors : LocalFits(b)')
            => TypeInv'
<1>1. drafts' \in Seq(Draft) /\ Len(drafts') = Len(drafts) /\ DOMAIN drafts' = DOMAIN drafts
  BY ReplaceRow DEF TypeInv, TypeOK
<1>2. Grows /\ RowsFit'
  BY <1>1 DEF Grows, RowsFit, TypeInv
<1>3. QED
  BY <1>1, <1>2 DEF TypeInv, TypeOK, bounds

LEMMA TypeInvAmendWrite ==
  ASSUME TypeInv, NEW a \in Actors, AmendWrite(a)
  PROVE  TypeInv'
<1> DEFINE d == loc[a].draft
           row == Amended(drafts[d], loc[a].version, loc[a].defn)
<1>1. /\ d \in DOMAIN drafts /\ loc[a].version \in 1..MaxVersion
  BY DEF AmendWrite, LocalFits, AtDraft, Steps, TypeInv
<1>2. drafts[d] \in Draft /\ loc[a] \in Local /\ d \in Nat
  BY <1>1, RowInTable DEF TypeInv, TypeOK
<1>3. loc[a].defn \in Definition /\ loc[a].version \in Nat
  BY <1>2 DEF Local
<1>4. row \in Draft
  BY <1>1, <1>2, <1>3, AmendedWellTyped
<1>5. Sheet(a, d, loc[a].version, loc[a].defn) \in Screen
  BY <1>2, <1>3, SheetWellTyped
<1>6. UNCHANGED <<evidence, confs, runs, standing, answer, statements, bounds>>
  BY DEF AmendWrite
<1>7. CASE Exit(a) /\ UNCHANGED drafts
  BY <1>6, <1>7, QuietExit DEF tables
<1>8. CASE drafts[d].version = loc[a].expected
  <2>1. drafts' = [drafts EXCEPT ![d] = row] /\ Rests(a)
        /\ screen' = [screen EXCEPT ![a] = IF a \in Pages THEN NoScreen
                        ELSE Sheet(a, d, loc[a].version, loc[a].defn)]
    BY <1>8, Rested DEF AmendWrite
  <2>2. screen' \in [Actors -> Screen]
    BY <2>1, <1>5, DefinitionsWellTyped DEF TypeInv, TypeOK
  <2> HIDE DEF row
  <2>3. QED
    BY <2>1, <2>2, <1>1, <1>4, <1>6, DraftReplaced, RestFits
<1>9. QED
  BY <1>7, <1>8 DEF AmendWrite

LEMMA TypeInvExpire ==
  ASSUME TypeInv, NEW a \in Actors, Expire(a)
  PROVE  TypeInv'
<1> DEFINE d == loc[a].draft
           row == [drafts[d] EXCEPT !.status = "expired"]
<1>1. d \in DOMAIN drafts
  BY DEF Expire, LocalFits, AtDraft, Steps, TypeInv
<1>2. drafts[d] \in Draft
  BY <1>1, RowInTable DEF TypeInv, TypeOK
<1>3. row \in Draft
  BY <1>2 DEF Draft
<1>4. drafts' = [drafts EXCEPT ![d] = row]
  BY DEF Expire
<1>5. Exit(a) /\ UNCHANGED <<evidence, confs, runs, standing, answer, statements, bounds>>
  BY DEF Expire
<1> HIDE DEF row
<1>6. QED
  BY <1>1, <1>3, <1>4, <1>5, DraftReplaced, ExitFits

LEMMA TypeInvReadEvidence ==
  ASSUME TypeInv, NEW a \in Actors, ReadEvidence(a)
  PROVE  TypeInv'
<1> DEFINE refs == evidence[loc[a].draft]
           l == [loc[a] EXCEPT !.refs = refs]
<1>1. loc[a].draft \in DOMAIN drafts /\ loc[a] \in Local
  BY DEF ReadEvidence, TypeInv, TypeOK, LocalFits, AtDraft, Steps
<1>2. refs \in SUBSET Docs
  <2>1. loc[a].draft \in DOMAIN evidence
    <3> DEFINE d == loc[a].draft
    <3>1. drafts \in Seq(Draft) /\ evidence \in Seq(SUBSET Docs) /\ Len(evidence) = Len(drafts)
      BY DEF TypeInv, TypeOK
    <3>2. d \in DOMAIN drafts
      BY <1>1
    <3> HIDE DEF d
    <3>3. d \in DOMAIN evidence
      BY <3>1, <3>2
    <3>4. QED
      BY <3>3 DEF d
  <2>2. QED
    BY <2>1, RowInTable DEF TypeInv, TypeOK
<1> HIDE DEF refs
<1>3. l \in Local
  BY <1>1, <1>2, FieldsWellTyped
<1>4. /\ l.draft = loc[a].draft /\ l.op = loc[a].op /\ l.conf = loc[a].conf
  BY <1>1 DEF Local
<1>5. PICK step \in {"refs", AfterEvidence(a)}, m \in {l, loc[a]} : Moves(a, step, m)
  <2>1. CASE a \in Checkers
    BY <2>1 DEF ReadEvidence, Moves, Goto, refs
  <2>2. CASE a \notin Checkers
    BY <2>2, SameLocals DEF ReadEvidence
  <2>3. QED
    BY <2>1, <2>2
<1>6. step \in Steps /\ UNCHANGED <<tables, standing, screen, answer, statements, bounds>>
  BY DEF ReadEvidence, AfterEvidence, Steps
<1> HIDE DEF l
<1>7. m \in Local /\ m.draft = loc[a].draft /\ m.op = loc[a].op /\ m.conf = loc[a].conf
  BY <1>1, <1>3, <1>4
<1>8. LocalFits(a)'
  <2>1. loc'[a] = m /\ pc'[a] = step /\ UNCHANGED <<drafts, confs>>
    BY <1>5, <1>6 DEF Moves, TypeInv, TypeOK, tables
  <2>2. loc[a].op # "confirm" => loc[a].conf \in DOMAIN confs
    BY DEF ReadEvidence, LocalFits, TypeInv
  <2>3. QED
    BY <1>1, <1>7, <2>1, <2>2 DEF LocalFits, AfterEvidence
<1>9. QED
  BY <1>5, <1>6, <1>7, <1>8, QuietMove

LEMMA TypeInvCheckRefs ==
  ASSUME TypeInv, NEW a \in Actors, CheckRefs(a)
  PROVE  TypeInv'
<1>1. PICK step \in {"expire", AfterEvidence(a)} : Goto(a, step)
  BY DEF CheckRefs
<1>2. step \in Steps /\ UNCHANGED <<tables, standing, loc, screen, answer, statements, bounds>>
  BY DEF CheckRefs, AfterEvidence, Steps
<1>3. Moves(a, step, loc[a]) /\ loc[a] \in Local
  BY <1>1, <1>2, SameLocals DEF TypeInv, TypeOK
<1>4. LocalFits(a)'
  <2>1. loc[a].draft \in DOMAIN drafts
    BY DEF CheckRefs, LocalFits, AtDraft, Steps, TypeInv
  <2>2. pc'[a] = step /\ UNCHANGED <<loc, drafts, confs>>
    BY <1>2, <1>3 DEF Moves, TypeInv, TypeOK, tables
  <2>3. loc[a].op # "confirm" => loc[a].conf \in DOMAIN confs
    BY DEF CheckRefs, LocalFits, TypeInv
  <2>4. QED
    BY <2>1, <2>2, <2>3 DEF LocalFits, AfterEvidence
<1>5. QED
  BY <1>2, <1>3, <1>4, QuietMove

LEMMA TypeInvSaveConfirmation ==
  ASSUME TypeInv, NEW a \in Actors, SaveConfirmation(a)
  PROVE  TypeInv'
<1> DEFINE c == Len(confs) + 1
           row == [draft |-> loc[a].draft, version |-> loc[a].version,
                   defn |-> loc[a].defn, subject |-> SubjectOf[a], by |-> a]
           key == [kind |-> "request", id |-> loc[a].draft]
           l == ToExecute(c, key)
<1>1. loc[a].draft \in DOMAIN drafts /\ loc[a] \in Local
  BY DEF SaveConfirmation, TypeInv, TypeOK, LocalFits, AtDraft, Steps
<1>2. row \in Confirmation /\ key \in Key
  BY <1>1, WorkflowAssumption DEF Local, Confirmation, Key
<1>3. UNCHANGED <<drafts, evidence, runs, standing, answer, statements, bounds>>
  BY DEF SaveConfirmation
<1>4. CASE Exit(a) /\ UNCHANGED confs
  BY <1>3, <1>4, QuietExit DEF tables
<1>5. CASE IsComplete(loc[a].defn)
  <2>1. confs' = Append(confs, row)
    BY <1>5 DEF SaveConfirmation
  <2>2. /\ confs' \in Seq(Confirmation) /\ DOMAIN confs' = DOMAIN confs \cup {c}
        /\ \A i \in DOMAIN confs : confs'[i] = confs[i]
        /\ confs'[c] = row /\ c \in Nat
    BY <1>2, <2>1, AppendRow DEF TypeInv, TypeOK
  <2>3. Grows /\ RowsFit'
    BY <1>1, <1>3, <2>2 DEF Grows, RowsFit, TypeInv
  <2>4. /\ \A b \in Actors : LocalFits(b)'
        /\ pc' \in [Actors -> Steps] /\ loc' \in [Actors -> Local]
        /\ screen' \in [Actors -> Screen]
    <3>1. CASE Exit(a)
      BY <3>1, <2>3, ExitFits
    <3>2. CASE ~Exit(a)
      <4>1. Moves(a, "load", l) /\ UNCHANGED screen /\ "load" \in Steps
        BY <1>5, <3>2 DEF SaveConfirmation, Moves, Goto, Steps
      <4>2. l \in Local
        BY <1>2, <2>2, LocalsWellTyped
      <4>3. l.conf = c
        BY DEF ToExecute
      <4> HIDE DEF l
      <4>4. LocalFits(a)'
        BY <4>1, <4>3, <2>2 DEF LocalFits, AtDraft, Moves, TypeInv, TypeOK
      <4>5. QED
        BY <4>1, <4>2, <4>4, <2>3, OthersFit DEF TypeInv, TypeOK
    <3>3. QED
      BY <3>1, <3>2
  <2>5. QED
    BY <1>3, <2>2, <2>3, <2>4 DEF TypeInv, TypeOK, bounds
<1>6. QED
  BY <1>4, <1>5 DEF SaveConfirmation

LEMMA TypeInvLookUp ==
  ASSUME TypeInv, NEW a \in Actors, LookUp(a)
  PROVE  TypeInv'
<1>1. UNCHANGED <<tables, standing, answer, statements, bounds>>
  BY DEF LookUp
<1>2. CASE Exit(a)
  BY <1>1, <1>2, QuietExit
<1>3. CASE ~Exit(a)
  <2>1. PICK c \in DOMAIN confs :
          /\ Moves(a, "load", ToExecute(c, [kind |-> "confirmation", id |-> c]))
          /\ UNCHANGED screen
    BY <1>3 DEF LookUp, Newest, HumanConfirmations, Goto, Moves
  <2> DEFINE key == [kind |-> "confirmation", id |-> c]
             l == ToExecute(c, key)
  <2>2. c \in Nat /\ key \in Key
    BY RowInTable DEF Key, TypeInv, TypeOK
  <2>3. l \in Local /\ "load" \in Steps
    BY <2>2, LocalsWellTyped DEF Steps
  <2>4. l.conf = c
    BY DEF ToExecute
  <2>5. Moves(a, "load", l)
    BY <2>1
  <2> HIDE DEF l
  <2>6. LocalFits(a)'
    BY <1>1, <2>4, <2>5 DEF LocalFits, AtDraft, Moves, TypeInv, TypeOK, tables
  <2>7. QED
    BY <1>1, <2>1, <2>3, <2>5, <2>6, QuietMove
<1>4. QED
  BY <1>2, <1>3

LEMMA TypeInvLoad ==
  ASSUME TypeInv, NEW a \in Actors, Load(a)
  PROVE  TypeInv'
<1> DEFINE c == loc[a].conf
           d == confs[c].draft
           l == Checking("execute", d, c, loc[a].key)
<1>1. c \in DOMAIN confs /\ loc[a] \in Local
  BY DEF Load, LocalFits, TypeInv, TypeOK
<1>2. d \in DOMAIN drafts /\ c \in Nat /\ loc[a].key \in Key
  BY <1>1, RowInTable DEF TypeInv, RowsFit, TypeOK, Local
<1>3. l \in Local
  BY <1>2, CheckingWellTyped
<1>4. l.draft = d /\ l.conf = c
  BY DEF Checking
<1>5. UNCHANGED <<tables, standing, answer, statements, bounds>>
  BY DEF Load
<1>6. CASE Exit(a)
  BY <1>5, <1>6, QuietExit
<1>7. CASE ~Exit(a)
  <2>1. Moves(a, "evidence", l) /\ UNCHANGED screen /\ "evidence" \in Steps
    BY <1>7 DEF Load, Moves, Goto, Steps
  <2> HIDE DEF l
  <2>2. LocalFits(a)'
    BY <1>1, <1>2, <1>4, <1>5, <2>1 DEF LocalFits, AtDraft, Moves, TypeInv, TypeOK, tables
  <2>3. QED
    BY <1>3, <1>5, <2>1, <2>2, QuietMove
<1>8. QED
  BY <1>6, <1>7

\* Answering from the run that holds the key.
LEMMA AnswerFromFits ==
  ASSUME TypeInv, NEW a \in Actors, NEW r \in DOMAIN runs, AnswerFrom(a, r),
         UNCHANGED <<tables, standing, answer, statements, bounds>>
  PROVE  TypeInv'
<1>1. CASE Exit(a)
  BY <1>1, QuietExit
<1>2. CASE ~Exit(a)
  <2> DEFINE l == [loc[a] EXCEPT !.run = r]
  <2>1. Moves(a, "answer", l) /\ UNCHANGED screen /\ "answer" \in Steps
    BY <1>2 DEF AnswerFrom, Moves, Goto, Steps
  <2>2. loc[a] \in Local /\ r \in Nat
    BY RowInTable DEF TypeInv, TypeOK
  <2>3. l \in Local /\ l.run = r
    <3>1. l \in Local
      BY <2>2, FieldsWellTyped
    <3>2. QED
      BY <2>2, <3>1 DEF Local
  <2> HIDE DEF l
  <2>4. LocalFits(a)'
    BY <2>1, <2>3 DEF LocalFits, AtDraft, Moves, TypeInv, TypeOK, tables
  <2>5. QED
    BY <2>1, <2>3, <2>4, QuietMove
<1>3. QED
  BY <1>1, <1>2

LEMMA TypeInvReadKey ==
  ASSUME TypeInv, NEW a \in Actors, ReadKey(a)
  PROVE  TypeInv'
<1>1. UNCHANGED <<tables, standing, answer, statements, bounds>>
  BY DEF ReadKey
<1>2. CASE Holding(loc[a].key) = {}
  <2>1. Moves(a, "admit", loc[a]) /\ UNCHANGED <<loc, screen>>
    BY <1>2, SameLocals DEF ReadKey
  <2>2. "admit" \in Steps /\ loc[a] \in Local
    BY DEF Steps, TypeInv, TypeOK
  <2>3. LocalFits(a)'
    BY <1>1, <2>1 DEF ReadKey, LocalFits, AtDraft, Steps, Moves, TypeInv, TypeOK, tables
  <2>4. QED
    BY <1>1, <2>1, <2>2, <2>3, QuietMove
<1>3. CASE Holding(loc[a].key) # {}
  <2>1. PICK r \in DOMAIN runs : AnswerFrom(a, r)
    BY <1>3 DEF ReadKey, Holding
  <2>2. QED
    BY <1>1, <2>1, AnswerFromFits
<1>4. QED
  BY <1>2, <1>3

LEMMA TypeInvAdmit ==
  ASSUME TypeInv, NEW a \in Actors, Admit(a) \/ Refuse(a)
  PROVE  TypeInv'
<1>1. CASE Refuse(a)
  BY <1>1, QuietExit DEF Refuse
<1>2. CASE Admit(a)
  <2>1. Moves(a, "claim", loc[a])
        /\ UNCHANGED <<tables, standing, loc, screen, answer, statements, bounds>>
    BY <1>2, SameLocals DEF Admit
  <2>2. "claim" \in Steps /\ loc[a] \in Local
    BY DEF Steps, TypeInv, TypeOK
  <2>3. LocalFits(a)'
    BY <1>2, <2>1 DEF Admit, LocalFits, AtDraft, Steps, Moves, TypeInv, TypeOK, tables
  <2>4. QED
    BY <2>1, <2>2, <2>3, QuietMove
<1>3. QED
  BY <1>1, <1>2

LEMMA TypeInvClaim ==
  ASSUME TypeInv, NEW a \in Actors, Claim(a)
  PROVE  TypeInv'
<1> DEFINE r == Len(runs) + 1
           row == [key |-> loc[a].key, draft |-> loc[a].draft, conf |-> loc[a].conf,
                   subject |-> SubjectOf[a], status |-> "executing",
                   defn |-> OpenDefinition]
           l == [loc[a] EXCEPT !.run = r]
<1>1. /\ loc[a].draft \in DOMAIN drafts /\ loc[a].conf \in DOMAIN confs
      /\ loc[a] \in Local
  BY DEF Claim, LocalFits, AtDraft, Steps, TypeInv, TypeOK
<1>2. row \in Run
  BY <1>1, DefinitionsWellTyped, WorkflowAssumption DEF Local, Run
<1>3. UNCHANGED <<drafts, evidence, confs, standing, answer, statements, bounds>>
  BY DEF Claim
<1>4. CASE Holding(loc[a].key) # {}
  <2>1. PICK n \in DOMAIN runs : AnswerFrom(a, n) /\ UNCHANGED runs
    BY <1>4 DEF Claim, Holding
  <2>2. QED
    BY <1>3, <2>1, AnswerFromFits DEF tables
<1>5. CASE Holding(loc[a].key) = {}
  <2>1. PICK step \in {"probe", "query"} :
             runs' = Append(runs, row) /\ Moves(a, step, l) /\ UNCHANGED screen
    BY <1>5 DEF Claim, Goto, Moves
  <2>2. /\ runs' \in Seq(Run) /\ DOMAIN runs' = DOMAIN runs \cup {r}
        /\ \A i \in DOMAIN runs : runs'[i] = runs[i]
        /\ runs'[r] = row /\ r \in Nat
    BY <1>2, <2>1, AppendRow DEF TypeInv, TypeOK
  <2>3. Grows /\ RowsFit'
    BY <1>1, <1>3, <2>2 DEF Grows, RowsFit, TypeInv
  <2>4. l \in Local /\ l.run = r /\ l.draft = loc[a].draft
    <3>1. l \in Local
      BY <1>1, <2>2, FieldsWellTyped
    <3>2. QED
      BY <1>1, <3>1 DEF Local
  <2>5. step \in Steps
    BY DEF Steps
  <2> HIDE DEF l, r, row
  <2>6. LocalFits(a)'
    BY <1>1, <1>3, <2>1, <2>2, <2>4 DEF LocalFits, AtDraft, Moves, TypeInv, TypeOK
  <2>7. QED
    BY <1>3, <2>1, <2>2, <2>3, <2>4, <2>5, <2>6, OthersFit DEF TypeInv, TypeOK, bounds
<1>6. QED
  BY <1>4, <1>5

LEMMA TypeInvAsk ==
  ASSUME TypeInv, NEW a \in Actors, Probe(a) \/ Query(a)
  PROVE  TypeInv'
<1>1. loc[a] \in Local /\ loc[a].draft \in DOMAIN drafts /\ loc[a].run \in DOMAIN runs
  BY DEF Probe, Query, LocalFits, AtDraft, Steps, TypeInv, TypeOK
<1>2. PICK kind \in {"probe", "query"} :
        statements' = Append(statements, [run |-> loc[a].run, kind |-> kind,
                                          defn |-> loc[a].defn])
  BY DEF Probe, Query
<1>3. statements' \in Seq(Statement)
  <2>1. [run |-> loc[a].run, kind |-> kind, defn |-> loc[a].defn] \in Statement
    BY <1>1 DEF Statement, Local
  <2>2. QED
    BY <1>2, <2>1, AppendRow DEF TypeInv, TypeOK
<1>4. PICK step \in {"query", "finish"}, outcome \in {"executing", "succeeded", "failed"} :
        Moves(a, step, [loc[a] EXCEPT !.outcome = outcome])
  <2>1. CASE Probe(a)
    <3>1. "query" \in {"query", "finish"} /\ loc[a].outcome \in {"executing", "succeeded", "failed"}
      BY <1>1 DEF Local
    <3>2. [loc[a] EXCEPT !.outcome = loc[a].outcome] = loc[a]
      BY <1>1 DEF Local
    <3>3. Moves(a, "query", loc[a])
      BY <2>1, SameLocals DEF Probe
    <3>4. QED
      BY <3>1, <3>2, <3>3
  <2>2. CASE Query(a)
    BY <2>2 DEF Query, Moves, Goto
  <2>3. QED
    BY <2>1, <2>2
<1> DEFINE l == [loc[a] EXCEPT !.outcome = outcome]
<1>5. l \in Local /\ l.run = loc[a].run /\ l.draft = loc[a].draft
  <2>1. l \in Local
    BY <1>1, FieldsWellTyped
  <2>2. QED
    BY <1>1, <2>1 DEF Local
<1>6. Moves(a, step, l) /\ step \in Steps
  BY <1>4 DEF Steps
<1> HIDE DEF l
<1>7. UNCHANGED <<tables, standing, screen, answer, bounds>>
  BY DEF Probe, Query
<1>8. LocalFits(a)'
  BY <1>1, <1>5, <1>6, <1>7 DEF LocalFits, AtDraft, Moves, TypeInv, TypeOK, tables
<1>9. Grows /\ RowsFit'
  BY <1>7 DEF Grows, RowsFit, TypeInv, tables
<1>10. QED
  BY <1>3, <1>5, <1>6, <1>7, <1>8, <1>9, OthersFit DEF TypeInv, TypeOK, tables, bounds

LEMMA TypeInvFinish ==
  ASSUME TypeInv, NEW a \in Actors, Finish(a)
  PROVE  TypeInv'
<1> DEFINE r == loc[a].run
           row == Finished(runs[r], loc[a].outcome, loc[a].defn)
<1>1. r \in DOMAIN runs /\ loc[a] \in Local /\ loc[a].draft \in DOMAIN drafts
  BY DEF Finish, LocalFits, AtDraft, Steps, TypeInv, TypeOK
<1>2. runs[r] \in Run
  BY <1>1, RowInTable DEF TypeInv, TypeOK
<1>3. row \in Run /\ row.draft = runs[r].draft /\ row.conf = runs[r].conf
  <2>1. loc[a].outcome \in {"executing", "succeeded", "failed"} /\ loc[a].defn \in Definition
    BY <1>1 DEF Local
  <2>2. QED
    BY <1>2, <2>1, FinishedWellTyped DEF Finished
<1>4. runs' = [runs EXCEPT ![r] = row]
  BY DEF Finish
<1>5. UNCHANGED <<drafts, evidence, confs, standing, answer, statements, bounds>>
  BY DEF Finish
<1> HIDE DEF row, r
<1>6. runs' \in Seq(Run) /\ DOMAIN runs' = DOMAIN runs
  BY <1>1, <1>3, <1>4, ReplaceRow DEF TypeInv, TypeOK
<1>7. \A n \in DOMAIN runs : runs'[n].draft = runs[n].draft /\ runs'[n].conf = runs[n].conf
  BY <1>1, <1>3, <1>4 DEF TypeInv, TypeOK
<1>8. Grows /\ RowsFit'
  BY <1>5, <1>6, <1>7 DEF Grows, RowsFit, TypeInv
<1>9. /\ \A b \in Actors : LocalFits(b)'
      /\ pc' \in [Actors -> Steps] /\ loc' \in [Actors -> Local]
      /\ screen' \in [Actors -> Screen]
  <2>1. CASE Exit(a)
    BY <2>1, <1>8, ExitFits
  <2>2. CASE Goto(a, "answer") /\ UNCHANGED <<loc, screen>>
    <3>1. Moves(a, "answer", loc[a]) /\ "answer" \in Steps
      BY <2>2, SameLocals DEF Steps
    <3>2. LocalFits(a)'
      BY <1>1, <1>6, <2>2, <3>1 DEF LocalFits, AtDraft, Moves, TypeInv, TypeOK, r
    <3>3. QED
      BY <1>1, <1>8, <2>2, <3>1, <3>2, OthersFit DEF TypeInv, TypeOK
  <2>3. QED
    BY <2>1, <2>2 DEF Finish
<1>10. QED
  BY <1>5, <1>6, <1>8, <1>9 DEF TypeInv, TypeOK, bounds

LEMMA TypeInvAnswer ==
  ASSUME TypeInv, NEW a \in Actors, Answer(a)
  PROVE  TypeInv'
<1> DEFINE r == loc[a].run
           d == runs[r].draft
           told == [run |-> r, version |-> drafts[d].version, defn |-> drafts[d].defn]
<1>1. r \in DOMAIN runs
  BY DEF Answer, LocalFits, TypeInv
<1>2. drafts[d] \in Draft /\ r \in Nat
  BY <1>1, RowInTable DEF RowsFit, TypeInv, TypeOK
<1>3. told \in [run : Nat, version : Nat, defn : Definition]
  BY <1>2 DEF Draft
<1>4. answer' = [answer EXCEPT ![a] = told] /\ Exit(a)
      /\ UNCHANGED <<tables, standing, statements, bounds>>
  BY DEF Answer
<1> HIDE DEF told
<1>5. answer' \in [Agents -> [run : Nat, version : Nat, defn : Definition]]
  BY <1>3, <1>4 DEF TypeInv, TypeOK
<1>6. QED
  BY <1>4, <1>5, ExitFits, StillTables

LEMMA TypeInvStep ==
  ASSUME TypeInv, NEW a \in Actors, Step(a)
  PROVE  TypeInv'
  BY TypeInvRecord, TypeInvShowProgress, TypeInvAmendCheck, TypeInvAmendWrite,
     TypeInvReadEvidence, TypeInvCheckRefs, TypeInvExpire, TypeInvSaveConfirmation,
     TypeInvLookUp, TypeInvLoad, TypeInvReadKey, TypeInvAdmit, TypeInvClaim,
     TypeInvAsk, TypeInvFinish, TypeInvAnswer, TypeInvNotes
  DEF Step

LEMMA TypeInvCrash ==
  ASSUME TypeInv, NEW a \in Actors, Crash(a)
  PROVE  TypeInv'
<1>1. /\ Return(a) /\ screen' = [screen EXCEPT ![a] = NoScreen]
      /\ crashes' \in 0..MaxCrashes
      /\ UNCHANGED <<tables, standing, answer, statements, docChanges>>
  BY WorkflowAssumption DEF Crash, TypeInv, TypeOK
<1>2. Grows /\ RowsFit'
  BY <1>1 DEF Grows, RowsFit, TypeInv, tables
<1>3. QED
  BY <1>1, <1>2, IdleFits, DefinitionsWellTyped DEF TypeInv, TypeOK, tables

\* A document change touches the history variable lost and nothing else a
\* process holds.
LEMMA ChangeDocLocals ==
  ASSUME TypeInv, NEW doc \in Docs, ChangeDoc(doc)
  PROVE  /\ standing' \in SUBSET Docs /\ loc' \in [Actors -> Local]
         /\ \A a \in Actors :
              /\ loc'[a].draft = loc[a].draft /\ loc'[a].version = loc[a].version
              /\ loc'[a].defn = loc[a].defn /\ loc'[a].conf = loc[a].conf
              /\ loc'[a].key = loc[a].key /\ loc'[a].run = loc[a].run
              /\ loc'[a].op = loc[a].op
<1>1. standing' \in SUBSET Docs
  BY DEF ChangeDoc, TypeInv, TypeOK
<1>2. loc' = [a \in Actors |-> [loc[a] EXCEPT !.lost = loc[a].lost \ standing']]
  BY DEF ChangeDoc
<1>3. ASSUME NEW a \in Actors
      PROVE  /\ loc'[a] \in Local
             /\ loc'[a].draft = loc[a].draft /\ loc'[a].version = loc[a].version
             /\ loc'[a].defn = loc[a].defn /\ loc'[a].conf = loc[a].conf
             /\ loc'[a].key = loc[a].key /\ loc'[a].run = loc[a].run
             /\ loc'[a].op = loc[a].op
  <2>1. loc[a] \in Local
    BY DEF TypeInv, TypeOK
  <2>2. loc'[a] = [loc[a] EXCEPT !.lost = loc[a].lost \ standing']
    BY <1>2
  <2>3. QED
    BY <2>1, <2>2 DEF Local
<1>4. loc' \in [Actors -> Local]
  BY <1>2, <1>3
<1>5. QED
  BY <1>1, <1>3, <1>4

LEMMA TypeInvChangeDoc ==
  ASSUME TypeInv, NEW doc \in Docs, ChangeDoc(doc)
  PROVE  TypeInv'
<1>1. /\ UNCHANGED <<tables, pc, screen, answer, statements, crashes>>
      /\ docChanges' \in 0..MaxDocChanges
  BY WorkflowAssumption DEF ChangeDoc, TypeInv, TypeOK
<1>2. ASSUME NEW a \in Actors PROVE LocalFits(a)'
  BY <1>1, ChangeDocLocals DEF LocalFits, TypeInv, tables
<1>3. QED
  BY <1>1, <1>2, ChangeDocLocals DEF RowsFit, TypeInv, TypeOK, tables

LEMMA TypeInvNext == TypeInv /\ [Next]_vars => TypeInv'
<1> SUFFICES ASSUME TypeInv, [Next]_vars PROVE TypeInv'
  OBVIOUS
<1>1. CASE UNCHANGED vars
  BY <1>1 DEF vars, TypeInv, TypeOK, RowsFit, LocalFits
<1>2. CASE Next
  BY <1>2, TypeInvRequest, TypeInvStep, TypeInvCrash, TypeInvChangeDoc DEF Next
<1>3. QED
  BY <1>1, <1>2

\* Every behaviour of the workflow is well typed, and no process or row ever
\* refers to a row that is not there: the foreign keys of the state file hold
\* at every step of every method (store.py's tables, service.py's methods).
THEOREM TypeCorrect == Spec => []TypeInv
<1>1. QED
  BY TypeInvInit, TypeInvNext, PTL DEF Spec

\* The type invariant the runs check.
THEOREM WellTyped == Spec => []TypeOK
<1>1. TypeInv => TypeOK
  BY DEF TypeInv
<1>2. QED
  BY <1>1, TypeCorrect, PTL

-----------------------------------------------------------------------------
(* Safety.  A statement is sent from local variables that were read several  *)
(* steps earlier, so the invariant follows a definition from the sheet to    *)
(* the statement: what a process holds at each step agrees with the          *)
(* confirmation it holds, and what the tables say stays said.                *)

Asking == {"probe", "query"}

AgreesWithConfirmation(a) ==
  /\ loc[a].conf \in DOMAIN confs
  /\ confs[loc[a].conf].draft = loc[a].draft
  /\ confs[loc[a].conf].defn = loc[a].defn
  /\ confs[loc[a].conf].subject = SubjectOf[a]

StatementsOf(r) == {i \in DOMAIN statements : statements[i].run = r}
Queried(r) == \E i \in StatementsOf(r) : statements[i].kind = "query"

HeldSafely(a) ==
  /\ pc[a] = "load" => confs[loc[a].conf].subject = SubjectOf[a]
  /\ \/ pc[a] \in {"evidence", "refs"} /\ loc[a].op # "confirm"
     \/ pc[a] \in {"key", "admit", "claim", "probe", "query", "finish"}
     => AgreesWithConfirmation(a)
  /\ \/ pc[a] \in {"evidence", "refs"} /\ loc[a].op = "confirm"
     \/ pc[a] = "save"
     => a \in Humans /\ drafts[loc[a].draft].subject = SubjectOf[a]
  /\ pc[a] \in {"probe", "query", "finish"} => runs[loc[a].run].conf = loc[a].conf
  /\ pc[a] = "probe" => StatementsOf(loc[a].run) = {}
  /\ pc[a] = "query" => ~ Queried(loc[a].run)

RunsHeldApart ==
  \A a, b \in Actors :
    a # b /\ pc[a] \in Asking /\ pc[b] \in Asking => loc[a].run # loc[b].run

ConfsSafe ==
  \A c \in DOMAIN confs :
    /\ IsComplete(confs[c].defn) /\ confs[c].by \in Humans
    /\ drafts[confs[c].draft].subject = confs[c].subject

RunsSafe ==
  /\ \A r \in DOMAIN runs :
       /\ confs[runs[r].conf].subject = runs[r].subject
       /\ confs[runs[r].conf].draft = runs[r].draft
  /\ \A r, s \in DOMAIN runs : runs[r].key = runs[s].key => r = s

StatementsSafe ==
  /\ \A i \in DOMAIN statements :
       \/ Probing /\ statements[i] = Advisory
       \/ /\ statements[i].kind # "advisory"
          /\ statements[i].run \in DOMAIN runs
          /\ statements[i].defn = confs[runs[statements[i].run].conf].defn
  /\ \A i, j \in DOMAIN statements :
       /\ statements[i].kind # "advisory" /\ statements[i].kind = statements[j].kind
       /\ statements[i].run = statements[j].run
       => i = j

SafetyInv ==
  /\ TypeInv /\ RunsHeldApart
  /\ ConfsSafe /\ RunsSafe /\ StatementsSafe
  /\ \A a \in Actors : HeldSafely(a)

\* What a step may never do to a table: take a row away, give a draft to
\* someone else, rewrite a confirmation, or rewrite what a run runs under.
RowsKept ==
  /\ \A d \in DOMAIN drafts :
       d \in DOMAIN drafts' /\ drafts'[d].subject = drafts[d].subject
  /\ \A c \in DOMAIN confs : c \in DOMAIN confs' /\ confs'[c] = confs[c]
  /\ \A r \in DOMAIN runs :
       /\ r \in DOMAIN runs'
       /\ runs'[r].key = runs[r].key /\ runs'[r].draft = runs[r].draft
       /\ runs'[r].conf = runs[r].conf /\ runs'[r].subject = runs[r].subject

LEMMA SafetyInvInit == Init => SafetyInv
<1> SUFFICES ASSUME Init PROVE SafetyInv
  OBVIOUS
<1>1. TypeInv
  BY TypeInvInit
<1>2. ConfsSafe /\ RunsSafe /\ StatementsSafe
  BY DEF Init, ConfsSafe, RunsSafe, StatementsSafe
<1>3. RunsHeldApart /\ \A a \in Actors : HeldSafely(a)
  BY DEF Init, RunsHeldApart, HeldSafely, Asking
<1>4. QED
  BY <1>1, <1>2, <1>3 DEF SafetyInv

\* The processes that do not move hold what they held as long as the tables
\* keep their rows and no query is sent for a run they are at.
LEMMA OthersSafe ==
  ASSUME SafetyInv, RowsKept, NEW b \in Actors,
         pc'[b] = pc[b], loc'[b].draft = loc[b].draft, loc'[b].defn = loc[b].defn,
         loc'[b].conf = loc[b].conf, loc'[b].run = loc[b].run, loc'[b].op = loc[b].op,
         pc[b] \in Asking => /\ StatementsOf(loc[b].run)' = StatementsOf(loc[b].run)
                             /\ Queried(loc[b].run)' <=> Queried(loc[b].run)
  PROVE  HeldSafely(b)'
<1>1. HeldSafely(b) /\ LocalFits(b)
  BY DEF SafetyInv, TypeInv
<1>2. AgreesWithConfirmation(b) => AgreesWithConfirmation(b)'
  BY DEF AgreesWithConfirmation, RowsKept
<1>3. pc[b] = "load" => confs'[loc[b].conf] = confs[loc[b].conf]
  BY <1>1 DEF LocalFits, RowsKept
<1>4. pc[b] \in {"evidence", "refs", "save"} =>
        drafts'[loc[b].draft].subject = drafts[loc[b].draft].subject
  BY <1>1 DEF LocalFits, AtDraft, Steps, RowsKept
<1>5. pc[b] \in {"probe", "query", "finish"} =>
        runs'[loc[b].run].conf = runs[loc[b].run].conf
  BY <1>1 DEF LocalFits, RowsKept
<1>6. /\ pc[b] = "probe" => StatementsOf(loc[b].run)' = {}
      /\ pc[b] = "query" => ~ Queried(loc[b].run)'
  BY <1>1 DEF HeldSafely, Asking
<1>7. QED
  BY <1>1, <1>2, <1>3, <1>4, <1>5, <1>6 DEF HeldSafely, Asking

LEMMA TablesStaySafe ==
  ASSUME SafetyInv, RowsKept
  PROVE  /\ UNCHANGED confs => ConfsSafe'
         /\ DOMAIN runs' = DOMAIN runs => RunsSafe'
         /\ UNCHANGED statements => StatementsSafe'
<1>1. TypeInv /\ RowsFit /\ ConfsSafe /\ RunsSafe /\ StatementsSafe
  BY DEF SafetyInv, TypeInv
<1>2. UNCHANGED confs => ConfsSafe'
  BY <1>1 DEF ConfsSafe, RowsKept, RowsFit
<1>3. DOMAIN runs' = DOMAIN runs => RunsSafe'
  BY <1>1 DEF RunsSafe, RowsKept, RowsFit
<1>4. UNCHANGED statements => StatementsSafe'
  BY <1>1 DEF StatementsSafe, RowsKept, RowsFit
<1>5. QED
  BY <1>2, <1>3, <1>4

\* A move of one process that leaves the statements alone and goes to a step
\* that asks nothing.
LEMMA SafeMove ==
  ASSUME SafetyInv, TypeInv', RowsKept, NEW a \in Actors, NEW step, NEW l,
         Moves(a, step, l), step \notin Asking,
         HeldSafely(a)', ConfsSafe', RunsSafe', UNCHANGED statements
  PROVE  SafetyInv'
<1>1. /\ pc'[a] = step
      /\ \A b \in Actors : b # a => pc'[b] = pc[b] /\ loc'[b] = loc[b]
  BY DEF Moves, SafetyInv, TypeInv, TypeOK
<1>2. ASSUME NEW b \in Actors PROVE HeldSafely(b)'
  <2>1. CASE b # a
    <3>1. pc'[b] = pc[b] /\ loc'[b] = loc[b]
      BY <1>1, <2>1
    <3>2. /\ StatementsOf(loc[b].run)' = StatementsOf(loc[b].run)
          /\ Queried(loc[b].run)' <=> Queried(loc[b].run)
      BY <3>1 DEF StatementsOf, Queried
    <3>3. QED
      BY <3>1, <3>2, OthersSafe
  <2>2. QED
    BY <2>1
<1>3. RunsHeldApart'
  BY <1>1 DEF RunsHeldApart, SafetyInv
<1>4. StatementsSafe'
  BY TablesStaySafe
<1>5. QED
  BY <1>2, <1>3, <1>4 DEF SafetyInv

\* The same when confirmations and runs stay as they are, and when the method
\* ends.
LEMMA QuietSafeMove ==
  ASSUME SafetyInv, TypeInv', RowsKept, NEW a \in Actors, NEW step, NEW l,
         Moves(a, step, l), step \notin Asking, HeldSafely(a)',
         UNCHANGED <<confs, runs, statements>>
  PROVE  SafetyInv'
<1>1. ConfsSafe' /\ RunsSafe'
  BY TablesStaySafe
<1>2. QED
  BY <1>1, SafeMove

LEMMA SafeEnd ==
  ASSUME SafetyInv, TypeInv', RowsKept, NEW a \in Actors, Rests(a),
         ConfsSafe', RunsSafe', UNCHANGED statements
  PROVE  SafetyInv'
<1>1. PICK step \in {"idle", "advise"} : Moves(a, step, Blank) /\ step \notin Asking
  BY DEF Rests, Asking
<1>2. HeldSafely(a)'
  BY <1>1 DEF HeldSafely, Moves, Asking, SafetyInv, TypeInv, TypeOK
<1>3. QED
  BY <1>1, <1>2, SafeMove

LEMMA QuietSafeEnd ==
  ASSUME SafetyInv, TypeInv', RowsKept, NEW a \in Actors, Rests(a),
         UNCHANGED <<confs, runs, statements>>
  PROVE  SafetyInv'
<1>1. ConfsSafe' /\ RunsSafe'
  BY TablesStaySafe
<1>2. QED
  BY <1>1, SafeEnd

LEMMA SameRows ==
  UNCHANGED tables => RowsKept
  BY DEF tables, RowsKept

LEMMA DraftRowsKept ==
  ASSUME TypeInv, NEW d \in DOMAIN drafts, NEW row \in Draft,
         row.subject = drafts[d].subject, drafts' = [drafts EXCEPT ![d] = row],
         UNCHANGED <<confs, runs>>
  PROVE  RowsKept
  BY DEF RowsKept, TypeInv, TypeOK

-----------------------------------------------------------------------------
(* One lemma for each action that writes a table or moves to a step with     *)
(* something to hold; the rest end their method.                             *)

LEMMA SafePrepare ==
  ASSUME SafetyInv, TypeInv', NEW a \in Actors, NEW defn \in Built,
         NEW cites \in SUBSET Docs, Prepare(a, defn, cites)
  PROVE  SafetyInv'
<1> DEFINE d == Len(drafts) + 1
           row == [subject |-> SubjectOf[a], workspace |-> WorkspaceOf[a],
                   version |-> 1, defn |-> defn, status |-> StatusOf(defn),
                   cites |-> cites]
<1>1. UNCHANGED <<confs, runs, statements>>
  BY DEF Prepare
<1>2. RowsKept
  <2>1. drafts' = Append(drafts, row) /\ drafts \in Seq(Draft)
    BY DEF Prepare, SafetyInv, TypeInv, TypeOK
  <2>2. \A n \in DOMAIN drafts : n \in DOMAIN drafts' /\ drafts'[n] = drafts[n]
    BY <2>1
  <2>3. QED
    BY <1>1, <2>2 DEF RowsKept
<1>3. CASE Rests(a)
  BY <1>1, <1>2, <1>3, QuietSafeEnd
<1>4. CASE ~Rests(a)
  <2> DEFINE l == [OnDraft(d, 1, defn) EXCEPT !.refs = cites]
  <2>1. Moves(a, "record", l) /\ "record" \notin Asking
    BY <1>4, Rested DEF Prepare, Goto, Moves, Asking
  <2> HIDE DEF l
  <2>2. HeldSafely(a)'
    BY <2>1 DEF HeldSafely, Moves, Asking, SafetyInv, TypeInv, TypeOK
  <2>3. QED
    BY <1>1, <1>2, <2>1, <2>2, QuietSafeMove
<1>5. QED
  BY <1>3, <1>4

Aside == {"idle", "advise", "record", "progress", "check", "write", "expire", "lookup", "answer"}

\* Going to a step at which a process holds nothing that matters.
LEMMA SafeAside ==
  ASSUME SafetyInv, TypeInv', RowsKept, NEW a \in Actors, NEW step \in Aside,
         Goto(a, step), \A b \in Actors : b # a => loc'[b] = loc[b],
         UNCHANGED <<confs, runs, statements>>
  PROVE  SafetyInv'
<1>1. loc' = [loc EXCEPT ![a] = loc'[a]]
  BY DEF SafetyInv, TypeInv, TypeOK
<1>2. Moves(a, step, loc'[a]) /\ step \notin Asking
  BY <1>1 DEF Moves, Goto, Aside, Asking
<1>3. pc'[a] = step
  BY DEF Goto, SafetyInv, TypeInv, TypeOK
<1>4. HeldSafely(a)'
  BY <1>3 DEF HeldSafely, Aside, Asking
<1>5. QED
  BY <1>2, <1>4, QuietSafeMove

LEMMA SafeLooking ==
  ASSUME SafetyInv, TypeInv', NEW a \in Actors,
         \/ \E d \in DOMAIN drafts : View(a, d) \/ ExecuteConfirmed(a, d)
         \/ \E added \in Amendments(a), expected \in 1..MaxVersion :
              Amend(a, added, expected)
         \/ ShowProgress(a) \/ ShowNotes(a) \/ AmendCheck(a) \/ Refuse(a)
  PROVE  SafetyInv'
<1>1. PICK step \in Aside : Goto(a, step) /\ \A b \in Actors : b # a => loc'[b] = loc[b]
  BY DEF View, ExecuteConfirmed, Amend, ShowProgress, ShowNotes, AmendCheck, Refuse,
         Exit, Return, AfterSheet, Aside, SafetyInv, TypeInv, TypeOK
<1>2. UNCHANGED <<tables, statements>>
  BY DEF View, ExecuteConfirmed, Amend, ShowProgress, ShowNotes, AmendCheck, Refuse
<1>3. QED
  BY <1>1, <1>2, SameRows, SafeAside DEF tables

LEMMA SafeRecord ==
  ASSUME SafetyInv, TypeInv', NEW a \in Actors, NEW doc \in Docs, RecordCitation(a, doc)
  PROVE  SafetyInv'
<1>1. UNCHANGED <<drafts, confs, runs, statements>> /\ RowsKept
  BY DEF RecordCitation, RowsKept
<1>2. PICK step \in Aside : Goto(a, step) /\ \A b \in Actors : b # a => loc'[b] = loc[b]
  <2>1. CASE AfterSheet(a)
    BY <2>1 DEF AfterSheet, Aside, SafetyInv, TypeInv, TypeOK
  <2>2. CASE UNCHANGED pc /\ loc' = [loc EXCEPT ![a].refs = @ \ {doc}]
    <3>1. Goto(a, "record") /\ "record" \in Aside
      BY <2>2 DEF RecordCitation, Goto, Aside, SafetyInv, TypeInv, TypeOK
    <3>2. \A b \in Actors : b # a => loc'[b] = loc[b]
      BY <2>2 DEF SafetyInv, TypeInv, TypeOK
    <3>3. QED
      BY <3>1, <3>2
  <2>3. QED
    BY <2>1, <2>2 DEF RecordCitation
<1>3. QED
  BY <1>1, <1>2, SafeAside

LEMMA SafeAmendWrite ==
  ASSUME SafetyInv, TypeInv', NEW a \in Actors, AmendWrite(a) \/ Expire(a)
  PROVE  SafetyInv'
<1> DEFINE d == loc[a].draft
<1>1. Rests(a) /\ UNCHANGED <<confs, runs, statements>>
  BY Rested DEF AmendWrite, Expire, Exit
<1>2. /\ d \in DOMAIN drafts /\ drafts[d] \in Draft /\ loc[a] \in Local
  <2>1. d \in DOMAIN drafts
    BY DEF AmendWrite, Expire, LocalFits, AtDraft, Steps, SafetyInv, TypeInv
  <2>2. QED
    BY <2>1, RowInTable DEF SafetyInv, TypeInv, TypeOK
<1>3. RowsKept
  <2>1. CASE UNCHANGED drafts
    BY <2>1, <1>1 DEF RowsKept
  <2>2. CASE AmendWrite(a) /\ ~UNCHANGED drafts
    <3> DEFINE row == Amended(drafts[d], loc[a].version, loc[a].defn)
    <3>1. drafts' = [drafts EXCEPT ![d] = row]
      BY <2>2 DEF AmendWrite
    <3>2. row.subject = drafts[d].subject
      BY DEF Amended
    <3>3. drafts \in Seq(Draft)
      BY DEF SafetyInv, TypeInv, TypeOK
    <3> HIDE DEF row
    <3>4. QED
      BY <1>1, <1>2, <3>1, <3>2, <3>3 DEF RowsKept
  <2>3. CASE Expire(a)
    <3> DEFINE row == [drafts[d] EXCEPT !.status = "expired"]
    <3>1. drafts' = [drafts EXCEPT ![d] = row]
      BY <2>3 DEF Expire
    <3>2. row.subject = drafts[d].subject
      BY <1>2 DEF Draft
    <3>3. drafts \in Seq(Draft)
      BY DEF SafetyInv, TypeInv, TypeOK
    <3> HIDE DEF row
    <3>4. QED
      BY <1>1, <1>2, <3>1, <3>2, <3>3 DEF RowsKept
  <2>4. QED
    BY <2>1, <2>2, <2>3
<1>4. QED
  BY <1>1, <1>3, QuietSafeEnd

LEMMA SafeConfirm ==
  ASSUME SafetyInv, TypeInv', NEW a \in Actors, Confirm(a)
  PROVE  SafetyInv'
<1> DEFINE d == screen[a].draft
           l == Checking("confirm", d, 0, NoKey)
<1>1. UNCHANGED <<tables, confs, runs, statements>> /\ RowsKept
  BY SameRows DEF Confirm, tables
<1>2. CASE Exit(a)
  BY <1>1, <1>2, Rested, QuietSafeEnd DEF Exit
<1>3. CASE ~Exit(a)
  <2>1. Moves(a, "evidence", l) /\ "evidence" \notin Asking
    BY <1>3 DEF Confirm, Goto, Moves, Asking
  <2>2. l.op = "confirm" /\ l.draft = d
    BY DEF Checking
  <2>3. a \in Humans /\ drafts[d].subject = SubjectOf[a]
    BY DEF Confirm, CanOpen, CanRead
  <2> HIDE DEF l
  <2>4. pc'[a] = "evidence" /\ loc'[a] = l
    BY <2>1 DEF Moves, SafetyInv, TypeInv, TypeOK
  <2>5. HeldSafely(a)'
    BY <1>1, <2>2, <2>3, <2>4 DEF HeldSafely, Asking, tables
  <2>6. QED
    BY <1>1, <2>1, <2>5, QuietSafeMove
<1>4. QED
  BY <1>2, <1>3

LEMMA SafeEvidence ==
  ASSUME SafetyInv, TypeInv', NEW a \in Actors, ReadEvidence(a) \/ CheckRefs(a)
  PROVE  SafetyInv'
<1>1. UNCHANGED <<tables, confs, runs, statements>> /\ RowsKept
  BY SameRows DEF ReadEvidence, CheckRefs, tables
<1>2. PICK step \in {"refs", "expire", AfterEvidence(a)} : Goto(a, step)
  BY DEF ReadEvidence, CheckRefs
<1>3. /\ loc'[a].draft = loc[a].draft /\ loc'[a].defn = loc[a].defn
      /\ loc'[a].conf = loc[a].conf /\ loc'[a].op = loc[a].op
      /\ loc' = [loc EXCEPT ![a] = loc'[a]]
  <2>1. loc[a] \in Local /\ loc \in [Actors -> Local]
    BY DEF SafetyInv, TypeInv, TypeOK
  <2>2. CASE ReadEvidence(a)
    <3>1. UNCHANGED loc \/ loc' = [loc EXCEPT ![a].refs = evidence[loc[a].draft]]
      BY <2>2 DEF ReadEvidence
    <3>2. QED
      BY <2>1, <3>1 DEF Local
  <2>3. CASE CheckRefs(a)
    BY <2>1, <2>3 DEF CheckRefs
  <2>4. QED
    BY <2>2, <2>3
<1>4. Moves(a, step, loc'[a]) /\ step \notin Asking
  BY <1>2, <1>3 DEF Moves, Goto, Asking, AfterEvidence
<1>5. pc'[a] = step
  BY <1>2 DEF Goto, SafetyInv, TypeInv, TypeOK
<1>6. pc[a] \in {"evidence", "refs"} /\ HeldSafely(a)
  BY DEF ReadEvidence, CheckRefs, SafetyInv
<1>7. HeldSafely(a)'
  BY <1>1, <1>3, <1>5, <1>6 DEF HeldSafely, AgreesWithConfirmation, AfterEvidence,
                                Asking, tables
<1>8. QED
  BY <1>1, <1>4, <1>7, QuietSafeMove

LEMMA SafeSaveConfirmation ==
  ASSUME SafetyInv, TypeInv', NEW a \in Actors, SaveConfirmation(a)
  PROVE  SafetyInv'
<1> DEFINE c == Len(confs) + 1
           row == [draft |-> loc[a].draft, version |-> loc[a].version,
                   defn |-> loc[a].defn, subject |-> SubjectOf[a], by |-> a]
           l == ToExecute(c, [kind |-> "request", id |-> loc[a].draft])
<1>1. UNCHANGED <<drafts, runs, statements>>
  BY DEF SaveConfirmation
<1>2. a \in Humans /\ drafts[loc[a].draft].subject = SubjectOf[a]
  BY DEF SaveConfirmation, HeldSafely, SafetyInv
<1>3. CASE Exit(a) /\ UNCHANGED confs
  <2>1. RowsKept
    BY <1>1, <1>3 DEF RowsKept
  <2>2. QED
    BY <1>1, <1>3, <2>1, Rested, QuietSafeEnd DEF Exit
<1>4. CASE IsComplete(loc[a].defn)
  <2>1. confs' = Append(confs, row) /\ confs \in Seq(Confirmation)
    BY <1>4 DEF SaveConfirmation, SafetyInv, TypeInv, TypeOK
  <2>2. /\ \A i \in DOMAIN confs : i \in DOMAIN confs' /\ confs'[i] = confs[i]
        /\ DOMAIN confs' = DOMAIN confs \cup {c} /\ confs'[c] = row
    <3> HIDE DEF row
    <3>1. QED
      BY <2>1
  <2>3. RowsKept
    BY <1>1, <2>2 DEF RowsKept
  <2>4. ConfsSafe'
    BY <1>1, <1>2, <1>4, <2>2 DEF ConfsSafe, SafetyInv
  <2>5. RunsSafe'
    BY <1>1, <2>3, TablesStaySafe
  <2>6. CASE Exit(a)
    BY <1>1, <2>3, <2>4, <2>5, <2>6, Rested, SafeEnd DEF Exit
  <2>7. CASE ~Exit(a)
    <3>1. Moves(a, "load", l) /\ "load" \notin Asking
      BY <1>4, <2>7 DEF SaveConfirmation, Goto, Moves, Asking
    <3>2. l.conf = c
      BY DEF ToExecute
    <3> HIDE DEF l
    <3>3. HeldSafely(a)'
      BY <2>2, <3>1, <3>2 DEF HeldSafely, Moves, Asking, SafetyInv, TypeInv, TypeOK
    <3>4. QED
      BY <1>1, <2>3, <2>4, <2>5, <3>1, <3>3, SafeMove
  <2>8. QED
    BY <2>6, <2>7
<1>5. QED
  BY <1>3, <1>4 DEF SaveConfirmation

LEMMA SafeLookUp ==
  ASSUME SafetyInv, TypeInv', NEW a \in Actors, LookUp(a)
  PROVE  SafetyInv'
<1>1. UNCHANGED <<tables, confs, runs, statements>> /\ RowsKept
  BY SameRows DEF LookUp, tables
<1>2. CASE Exit(a)
  BY <1>1, <1>2, Rested, QuietSafeEnd DEF Exit
<1>3. CASE ~Exit(a)
  <2>1. PICK c \in DOMAIN confs :
          /\ confs[c].subject = SubjectOf[a]
          /\ Moves(a, "load", ToExecute(c, [kind |-> "confirmation", id |-> c]))
    BY <1>3 DEF LookUp, Newest, HumanConfirmations, Goto, Moves
  <2> DEFINE l == ToExecute(c, [kind |-> "confirmation", id |-> c])
  <2>2. l.conf = c /\ Moves(a, "load", l) /\ "load" \notin Asking
    BY <2>1 DEF ToExecute, Asking
  <2> HIDE DEF l
  <2>3. HeldSafely(a)'
    BY <1>1, <2>1, <2>2 DEF HeldSafely, Moves, Asking, SafetyInv, TypeInv, TypeOK
  <2>4. QED
    BY <1>1, <2>2, <2>3, QuietSafeMove
<1>4. QED
  BY <1>2, <1>3

\* The re-read of the draft is what ties the definition in hand to the
\* confirmation.
LEMMA SafeLoad ==
  ASSUME SafetyInv, TypeInv', NEW a \in Actors, Load(a)
  PROVE  SafetyInv'
<1> DEFINE c == loc[a].conf
           d == confs[c].draft
           l == Checking("execute", d, c, loc[a].key)
<1>1. UNCHANGED <<tables, confs, runs, statements>> /\ RowsKept
  BY SameRows DEF Load, tables
<1>2. CASE Exit(a)
  BY <1>1, <1>2, Rested, QuietSafeEnd DEF Exit
<1>3. CASE ~Exit(a)
  <2>1. StillConfirmed(c) /\ Moves(a, "evidence", l) /\ "evidence" \notin Asking
    BY <1>3 DEF Load, Goto, Moves, Asking
  <2>2. l.draft = d /\ l.conf = c /\ l.op = "execute" /\ l.defn = drafts[d].defn
    BY DEF Checking
  <2> HIDE DEF l
  <2>3. drafts[d].defn = confs[c].defn
    BY <2>1 DEF StillConfirmed
  <2>4. c \in DOMAIN confs /\ confs[c].subject = SubjectOf[a]
    BY DEF Load, LocalFits, HeldSafely, SafetyInv, TypeInv
  <2>5. pc'[a] = "evidence" /\ loc'[a] = l
    BY <2>1 DEF Moves, SafetyInv, TypeInv, TypeOK
  <2>6. AgreesWithConfirmation(a)'
    BY <1>1, <2>2, <2>3, <2>4, <2>5 DEF AgreesWithConfirmation
  <2>7. HeldSafely(a)'
    BY <2>2, <2>5, <2>6 DEF HeldSafely, Asking
  <2>8. QED
    BY <1>1, <2>1, <2>7, QuietSafeMove
<1>4. QED
  BY <1>2, <1>3

LEMMA SafeAnswerFrom ==
  ASSUME SafetyInv, TypeInv', NEW a \in Actors, NEW r, AnswerFrom(a, r),
         UNCHANGED <<drafts, confs, runs, statements>>
  PROVE  SafetyInv'
<1>1. PICK step \in Aside : Goto(a, step) /\ \A b \in Actors : b # a => loc'[b] = loc[b]
  BY DEF AnswerFrom, Exit, Return, Aside, SafetyInv, TypeInv, TypeOK
<1>2. RowsKept
  BY DEF RowsKept
<1>3. QED
  BY <1>1, <1>2, SafeAside

LEMMA SafeReadKey ==
  ASSUME SafetyInv, TypeInv', NEW a \in Actors, ReadKey(a) \/ Admit(a)
  PROVE  SafetyInv'
<1>1. UNCHANGED <<tables, drafts, confs, runs, statements>> /\ RowsKept
  BY SameRows DEF ReadKey, Admit, tables
<1>2. CASE \E r \in Holding(loc[a].key) : AnswerFrom(a, r)
  BY <1>1, <1>2, SafeAnswerFrom
<1>3. CASE ~ \E r \in Holding(loc[a].key) : AnswerFrom(a, r)
  <2>1. PICK step \in {"admit", "claim"} : Moves(a, step, loc[a]) /\ UNCHANGED loc
    BY <1>3, SameLocals DEF ReadKey, Admit, SafetyInv
  <2>2. AgreesWithConfirmation(a)
    BY DEF ReadKey, Admit, HeldSafely, SafetyInv
  <2>3. HeldSafely(a)'
    BY <1>1, <2>1, <2>2 DEF HeldSafely, AgreesWithConfirmation, Moves, Asking,
                            SafetyInv, TypeInv, TypeOK
  <2>4. QED
    BY <1>1, <2>1, <2>3, QuietSafeMove DEF Asking
<1>4. QED
  BY <1>2, <1>3

LEMMA SafeClaim ==
  ASSUME SafetyInv, TypeInv', NEW a \in Actors, Claim(a)
  PROVE  SafetyInv'
<1> DEFINE r == Len(runs) + 1
           row == [key |-> loc[a].key, draft |-> loc[a].draft, conf |-> loc[a].conf,
                   subject |-> SubjectOf[a], status |-> "executing",
                   defn |-> OpenDefinition]
           l == [loc[a] EXCEPT !.run = r]
<1>1. UNCHANGED <<drafts, confs, statements>>
  BY DEF Claim
<1>2. AgreesWithConfirmation(a) /\ loc[a] \in Local
  BY DEF Claim, HeldSafely, SafetyInv, TypeInv, TypeOK
<1>3. CASE Holding(loc[a].key) # {}
  BY <1>1, <1>3, SafeAnswerFrom DEF Claim
<1>4. CASE Holding(loc[a].key) = {}
  <2>1. PICK step \in Asking : runs' = Append(runs, row) /\ Moves(a, step, l)
    BY <1>4 DEF Claim, Goto, Moves, Asking
  <2>2. runs \in Seq(Run)
    BY DEF SafetyInv, TypeInv, TypeOK
  <2>3. /\ row.key = loc[a].key /\ row.draft = loc[a].draft /\ row.conf = loc[a].conf
        /\ row.subject = SubjectOf[a]
    OBVIOUS
  <2> HIDE DEF row
  <2>4. /\ \A n \in DOMAIN runs : n \in DOMAIN runs' /\ runs'[n] = runs[n]
        /\ DOMAIN runs' = DOMAIN runs \cup {r} /\ r \notin DOMAIN runs
        /\ runs'[r] = row
    BY <2>1, <2>2
  <2>5. /\ l.draft = loc[a].draft /\ l.defn = loc[a].defn /\ l.conf = loc[a].conf
        /\ l.run = r
    BY <1>2 DEF Local
  <2>0. r # 0
    BY <2>2
  <2> HIDE DEF l, r
  <2>6. RowsKept
    BY <1>1, <2>4 DEF RowsKept
  <2>7. ConfsSafe' /\ StatementsSafe'
    BY <1>1, <2>6, TablesStaySafe
  <2>8. RunsSafe'
    <3>1. \A n \in DOMAIN runs : runs[n].key # row.key
      BY <1>4, <2>3 DEF Holding
    <3>2. /\ confs[row.conf].subject = row.subject /\ confs[row.conf].draft = row.draft
      BY <1>2, <2>3 DEF AgreesWithConfirmation
    <3>3. RunsSafe
      BY DEF SafetyInv
    <3>4. QED
      BY <1>1, <2>4, <3>1, <3>2, <3>3 DEF RunsSafe
  <2>9. /\ pc'[a] = step /\ loc'[a] = l
        /\ \A b \in Actors : b # a => pc'[b] = pc[b] /\ loc'[b] = loc[b]
    BY <2>1 DEF Moves, SafetyInv, TypeInv, TypeOK
  <2>10. \A i \in DOMAIN statements : statements[i].run # r
    BY <2>0, <2>4 DEF SafetyInv, StatementsSafe, Advisory
  <2>11. HeldSafely(a)'
    <3>1. AgreesWithConfirmation(a)'
      BY <1>1, <1>2, <2>5, <2>9 DEF AgreesWithConfirmation
    <3>2. StatementsOf(loc[a].run)' = {} /\ ~ Queried(loc[a].run)'
      BY <1>1, <2>5, <2>9, <2>10 DEF StatementsOf, Queried
    <3>3. runs'[loc'[a].run].conf = loc'[a].conf
      BY <2>3, <2>4, <2>5, <2>9
    <3>4. QED
      BY <2>9, <3>1, <3>2, <3>3 DEF HeldSafely, Asking
  <2>12. ASSUME NEW b \in Actors PROVE HeldSafely(b)'
    <3>1. CASE b # a
      <4>1. /\ StatementsOf(loc[b].run)' = StatementsOf(loc[b].run)
            /\ Queried(loc[b].run)' <=> Queried(loc[b].run)
        BY <1>1, <2>9, <3>1 DEF StatementsOf, Queried
      <4>2. QED
        BY <2>6, <2>9, <3>1, <4>1, OthersSafe
    <3>2. QED
      BY <2>11, <3>1
  <2>13. RunsHeldApart'
    <3>1. \A b \in Actors : pc[b] \in Asking => loc[b].run # r
      BY <2>4 DEF SafetyInv, TypeInv, LocalFits, Asking
    <3>2. QED
      BY <2>5, <2>9, <3>1 DEF RunsHeldApart, SafetyInv
  <2>14. QED
    BY <2>7, <2>8, <2>12, <2>13 DEF SafetyInv
<1>5. QED
  BY <1>3, <1>4

\* The only steps that send a statement: it is about the run in hand, which
\* has no query yet, and it asks the definition in hand.
LEMMA SafeAsk ==
  ASSUME SafetyInv, TypeInv', NEW a \in Actors, Probe(a) \/ Query(a)
  PROVE  SafetyInv'
<1> DEFINE r == loc[a].run
           n == Len(statements) + 1
<1>1. UNCHANGED <<tables, drafts, confs, runs>> /\ RowsKept
  BY SameRows DEF Probe, Query, tables
<1>2. /\ AgreesWithConfirmation(a) /\ r \in DOMAIN runs
      /\ runs[r].conf = loc[a].conf /\ pc[a] \in Asking
      /\ pc[a] = "probe" => StatementsOf(r) = {}
      /\ pc[a] = "query" => ~ Queried(r)
      /\ loc[a] \in Local
  BY DEF Probe, Query, HeldSafely, LocalFits, Asking, SafetyInv, TypeInv, TypeOK
<1>3. PICK row :
        /\ statements' = Append(statements, row)
        /\ row.run = r /\ row.defn = loc[a].defn
        /\ row.kind = pc[a] /\ row.kind \in {"probe", "query"}
        /\ pc' = [pc EXCEPT ![a] = IF row.kind = "query" THEN "finish" ELSE "query"]
  <2>1. CASE Probe(a)
    <3> DEFINE row == [run |-> r, kind |-> "probe", defn |-> loc[a].defn]
    <3>1. row.run = r /\ row.defn = loc[a].defn /\ row.kind = "probe"
      OBVIOUS
    <3>2. statements' = Append(statements, row) /\ pc' = [pc EXCEPT ![a] = "query"]
         /\ pc[a] = "probe"
      BY <2>1 DEF Probe, Goto
    <3> HIDE DEF row
    <3>3. QED
      BY <3>1, <3>2
  <2>2. CASE Query(a)
    <3> DEFINE row == [run |-> r, kind |-> "query", defn |-> loc[a].defn]
    <3>1. row.run = r /\ row.defn = loc[a].defn /\ row.kind = "query"
      OBVIOUS
    <3>2. statements' = Append(statements, row) /\ pc' = [pc EXCEPT ![a] = "finish"]
         /\ pc[a] = "query"
      BY <2>2 DEF Query, Goto
    <3> HIDE DEF row
    <3>3. QED
      BY <3>1, <3>2
  <2>3. QED
    BY <2>1, <2>2
<1>4. /\ loc'[a].run = r /\ loc'[a].draft = loc[a].draft /\ loc'[a].defn = loc[a].defn
      /\ loc'[a].conf = loc[a].conf
      /\ \A b \in Actors : b # a => loc'[b] = loc[b] /\ pc'[b] = pc[b]
      /\ pc'[a] = IF row.kind = "query" THEN "finish" ELSE "query"
  <2>1. loc \in [Actors -> Local] /\ pc \in [Actors -> Steps]
    BY DEF SafetyInv, TypeInv, TypeOK
  <2>2. CASE Probe(a)
    BY <1>3, <2>1, <2>2 DEF Probe
  <2>3. CASE Query(a)
    <3>1. PICK outcome \in {"succeeded", "failed"} : loc' = [loc EXCEPT ![a].outcome = outcome]
      BY <2>3 DEF Query
    <3>2. QED
      BY <1>2, <1>3, <2>1, <3>1 DEF Local
  <2>4. QED
    BY <2>2, <2>3
<1>5. /\ DOMAIN statements' = DOMAIN statements \cup {n} /\ n \notin DOMAIN statements
      /\ \A i \in DOMAIN statements : statements'[i] = statements[i]
      /\ statements'[n] = row
  <2>1. statements \in Seq(Statement)
    BY DEF SafetyInv, TypeInv, TypeOK
  <2>2. QED
    BY <1>3, <2>1
<1> HIDE DEF n, r
<1>6. ConfsSafe' /\ RunsSafe'
  BY <1>1, TablesStaySafe
<1>7. StatementsSafe'
  <2>1. StatementsSafe
    BY DEF SafetyInv
  <2>2. \A i \in DOMAIN statements :
          statements[i].kind = row.kind => statements[i].run # row.run
    BY <1>2, <1>3 DEF StatementsOf, Queried
  <2>3. row.defn = confs[runs[row.run].conf].defn
    BY <1>2, <1>3 DEF AgreesWithConfirmation
  <2>4. QED
    BY <1>1, <1>2, <1>3, <1>5, <2>1, <2>2, <2>3 DEF StatementsSafe
<1>8. \A m : m # r => /\ StatementsOf(m)' = StatementsOf(m)
                      /\ Queried(m)' <=> Queried(m)
  BY <1>3, <1>5 DEF StatementsOf, Queried
<1>9. HeldSafely(a)'
  <2>1. AgreesWithConfirmation(a)'
    BY <1>1, <1>2, <1>4 DEF AgreesWithConfirmation
  <2>2. runs'[loc'[a].run].conf = loc'[a].conf
    BY <1>1, <1>2, <1>4
  <2>3. row.kind # "query" => ~ Queried(loc[a].run)'
    BY <1>2, <1>3, <1>4, <1>5 DEF StatementsOf, Queried, Asking
  <2>4. QED
    BY <1>4, <2>1, <2>2, <2>3 DEF HeldSafely, Asking
<1>10. ASSUME NEW b \in Actors PROVE HeldSafely(b)'
  <2>1. CASE b # a
    <3>1. pc[b] \in Asking => loc[b].run # r
      BY <1>2, <2>1 DEF RunsHeldApart, SafetyInv, r
    <3>2. pc[b] \in Asking => /\ StatementsOf(loc[b].run)' = StatementsOf(loc[b].run)
                              /\ Queried(loc[b].run)' <=> Queried(loc[b].run)
      <4>1. PICK m : m = loc[b].run
        OBVIOUS
      <4>2. loc'[b].run = m
        BY <1>4, <2>1, <4>1
      <4>3. pc[b] \in Asking => /\ StatementsOf(m)' = StatementsOf(m)
                                /\ Queried(m)' <=> Queried(m)
        BY <1>8, <3>1, <4>1
      <4>4. QED
        BY <4>1, <4>2, <4>3 DEF StatementsOf, Queried
    <3>3. QED
      BY <1>1, <1>4, <2>1, <3>2, OthersSafe
  <2>2. QED
    BY <1>9, <2>1
<1>11. RunsHeldApart'
  BY <1>2, <1>4 DEF RunsHeldApart, SafetyInv, Asking, r
<1>12. QED
  BY <1>6, <1>7, <1>10, <1>11 DEF SafetyInv

\* A sheet's statement is no run's.
LEMMA SafeProbeFreshness ==
  ASSUME SafetyInv, TypeInv', NEW a \in Actors, ProbeFreshness(a)
  PROVE  SafetyInv'
<1> DEFINE n == Len(statements) + 1
<1>1. UNCHANGED <<tables, drafts, confs, runs, pc, loc>> /\ RowsKept
  BY SameRows DEF ProbeFreshness, tables
<1>2. Probing
  BY DEF ProbeFreshness, SafetyInv, TypeInv, LocalFits
<1>3. /\ DOMAIN statements' = DOMAIN statements \cup {n} /\ n \notin DOMAIN statements
      /\ \A i \in DOMAIN statements : statements'[i] = statements[i]
      /\ statements'[n] = Advisory
  <2>1. statements \in Seq(Statement) /\ statements' = Append(statements, Advisory)
    BY DEF ProbeFreshness, SafetyInv, TypeInv, TypeOK
  <2>2. QED
    BY <2>1
<1> HIDE DEF n
<1>4. Advisory.kind = "advisory" /\ Advisory.run = 0
  BY DEF Advisory
<1>5. ConfsSafe' /\ RunsSafe'
  BY <1>1, TablesStaySafe
<1>6. StatementsSafe'
  <2>1. StatementsSafe
    BY DEF SafetyInv
  <2>2. QED
    BY <1>1, <1>2, <1>3, <1>4, <2>1 DEF StatementsSafe
<1>7. \A m : m # 0 => /\ StatementsOf(m)' = StatementsOf(m)
                      /\ Queried(m)' <=> Queried(m)
  BY <1>3, <1>4 DEF StatementsOf, Queried
<1>8. ASSUME NEW b \in Actors PROVE HeldSafely(b)'
  <2>1. pc[b] \in Asking => loc[b].run # 0
    BY DEF SafetyInv, TypeInv, TypeOK, LocalFits, Asking
  <2>2. pc[b] \in Asking => /\ StatementsOf(loc[b].run)' = StatementsOf(loc[b].run)
                            /\ Queried(loc[b].run)' <=> Queried(loc[b].run)
    <3>1. PICK m : m = loc[b].run
      OBVIOUS
    <3>2. loc'[b].run = m
      BY <1>1, <3>1
    <3>3. pc[b] \in Asking => /\ StatementsOf(m)' = StatementsOf(m)
                              /\ Queried(m)' <=> Queried(m)
      BY <1>7, <2>1, <3>1
    <3>4. QED
      BY <3>1, <3>2, <3>3 DEF StatementsOf, Queried
  <2>3. QED
    BY <1>1, <2>2, OthersSafe
<1>9. RunsHeldApart'
  BY <1>1 DEF RunsHeldApart, SafetyInv
<1>10. QED
  BY <1>5, <1>6, <1>8, <1>9 DEF SafetyInv

LEMMA SafeFinish ==
  ASSUME SafetyInv, TypeInv', NEW a \in Actors, Finish(a)
  PROVE  SafetyInv'
<1> DEFINE r == loc[a].run
           row == Finished(runs[r], loc[a].outcome, loc[a].defn)
<1>1. UNCHANGED <<drafts, confs, statements>> /\ runs' = [runs EXCEPT ![r] = row]
  BY DEF Finish
<1>2. /\ row.key = runs[r].key /\ row.draft = runs[r].draft
      /\ row.conf = runs[r].conf /\ row.subject = runs[r].subject
  BY DEF Finished
<1>3. runs \in Seq(Run)
  BY DEF SafetyInv, TypeInv, TypeOK
<1> HIDE DEF row
<1>4. RowsKept /\ DOMAIN runs' = DOMAIN runs
  BY <1>1, <1>2, <1>3 DEF RowsKept
<1>5. ConfsSafe' /\ RunsSafe'
  BY <1>1, <1>4, TablesStaySafe
<1>6. CASE Exit(a)
  BY <1>1, <1>4, <1>5, <1>6, Rested, SafeEnd DEF Exit
<1>7. CASE Goto(a, "answer") /\ UNCHANGED loc
  <2>1. Moves(a, "answer", loc[a]) /\ "answer" \notin Asking
    BY <1>7, SameLocals DEF Asking, SafetyInv
  <2>2. HeldSafely(a)'
    BY <2>1 DEF HeldSafely, Moves, Asking, SafetyInv, TypeInv, TypeOK
  <2>3. QED
    BY <1>1, <1>4, <1>5, <2>1, <2>2, SafeMove
<1>8. QED
  BY <1>6, <1>7 DEF Finish

LEMMA SafeOver ==
  ASSUME SafetyInv, TypeInv', NEW a \in Actors, Answer(a) \/ Crash(a)
  PROVE  SafetyInv'
<1>1. Return(a) /\ UNCHANGED <<tables, confs, runs, statements>>
  BY DEF Answer, Crash, Exit, tables
<1>2. QED
  BY <1>1, SameRows, Rested, QuietSafeEnd

LEMMA SafeChangeDoc ==
  ASSUME SafetyInv, TypeInv', NEW doc \in Docs, ChangeDoc(doc)
  PROVE  SafetyInv'
<1>1. UNCHANGED <<tables, drafts, confs, runs, statements, pc>> /\ RowsKept
  BY SameRows DEF ChangeDoc, tables
<1>2. ConfsSafe' /\ RunsSafe' /\ StatementsSafe'
  BY <1>1, TablesStaySafe
<1>3. TypeInv
  BY DEF SafetyInv
<1>4. ASSUME NEW b \in Actors PROVE HeldSafely(b)' /\ loc'[b].run = loc[b].run
  <2>1. /\ loc'[b].draft = loc[b].draft /\ loc'[b].defn = loc[b].defn
        /\ loc'[b].conf = loc[b].conf /\ loc'[b].run = loc[b].run
        /\ loc'[b].op = loc[b].op
    BY <1>3, ChangeDocLocals
  <2>2. /\ StatementsOf(loc[b].run)' = StatementsOf(loc[b].run)
        /\ Queried(loc[b].run)' <=> Queried(loc[b].run)
    BY <1>1, <2>1 DEF StatementsOf, Queried
  <2>3. QED
    BY <1>1, <2>1, <2>2, OthersSafe
<1>5. RunsHeldApart'
  BY <1>1, <1>4 DEF RunsHeldApart, SafetyInv
<1>6. QED
  BY <1>2, <1>4, <1>5 DEF SafetyInv

LEMMA SafetyInvNext == SafetyInv /\ [Next]_vars => SafetyInv'
<1> SUFFICES ASSUME SafetyInv, [Next]_vars PROVE SafetyInv'
  OBVIOUS
<1>1. TypeInv'
  BY TypeInvNext DEF SafetyInv
<1>2. CASE UNCHANGED vars
  <2>1. RowsKept /\ UNCHANGED <<drafts, confs, runs, statements, pc, loc>>
    BY <1>2 DEF vars, RowsKept
  <2>2. ConfsSafe' /\ RunsSafe' /\ StatementsSafe'
    BY <2>1, TablesStaySafe
  <2>3. ASSUME NEW b \in Actors PROVE HeldSafely(b)'
    <3>1. /\ StatementsOf(loc[b].run)' = StatementsOf(loc[b].run)
          /\ Queried(loc[b].run)' <=> Queried(loc[b].run)
      BY <2>1 DEF StatementsOf, Queried
    <3>2. QED
      BY <2>1, <3>1, OthersSafe
  <2>4. RunsHeldApart'
    BY <2>1 DEF RunsHeldApart, SafetyInv
  <2>5. QED
    BY <1>1, <2>2, <2>3, <2>4 DEF SafetyInv
<1>3. ASSUME NEW a \in Actors, Request(a) PROVE SafetyInv'
  BY <1>1, <1>3, SafePrepare, SafeLooking, SafeConfirm DEF Request
<1>4. ASSUME NEW a \in Actors, Step(a) PROVE SafetyInv'
  BY <1>1, <1>4, SafeRecord, SafeLooking, SafeAmendWrite, SafeEvidence,
     SafeSaveConfirmation, SafeLookUp, SafeLoad, SafeReadKey, SafeClaim, SafeAsk,
     SafeFinish, SafeOver, SafeProbeFreshness
  DEF Step
<1>5. CASE Next
  BY <1>1, <1>3, <1>4, <1>5, SafeOver, SafeChangeDoc DEF Next
<1>6. QED
  BY <1>2, <1>5

LEMMA SafetyHolds == Spec => []SafetyInv
<1>1. QED
  BY SafetyInvInit, SafetyInvNext, PTL DEF Spec

\* The gate: whatever amends, expires or confirms a draft while a run is on
\* its way, every statement the database is sent asks the complete definition
\* of a confirmation a person gave for that draft and that person
\* (service.py execute and execute_confirmed, store.py human_confirmation).
THEOREM GateHolds == Spec => []RunsOnlyWhatAPersonConfirmed
<1>1. SafetyInv => RunsOnlyWhatAPersonConfirmed
  <2> SUFFICES ASSUME SafetyInv, NEW i \in DOMAIN statements,
                      ~ (Probing /\ statements[i] = Advisory)
               PROVE  LET r == runs[statements[i].run]
                          c == confs[r.conf]
                      IN /\ statements[i].defn = c.defn /\ IsComplete(c.defn)
                         /\ c.by \in Humans
                         /\ c.subject = r.subject /\ c.draft = r.draft
    BY DEF RunsOnlyWhatAPersonConfirmed
  <2>1. /\ statements[i].run \in DOMAIN runs
        /\ statements[i].defn = confs[runs[statements[i].run].conf].defn
    BY DEF SafetyInv, StatementsSafe
  <2>2. runs[statements[i].run].conf \in DOMAIN confs
    BY <2>1 DEF SafetyInv, TypeInv, RowsFit
  <2>3. QED
    BY <2>1, <2>2 DEF SafetyInv, RunsSafe, ConfsSafe
<1>2. QED
  BY <1>1, SafetyHolds, PTL

\* Idempotency: one key is one query, however many processes present it and
\* wherever they are killed (store.py claim_run).
THEOREM KeysAskOnce == Spec => []OneQueryPerKey
<1>1. SafetyInv => OneQueryPerKey
  BY DEF SafetyInv, StatementsSafe, RunsSafe, OneQueryPerKey, Advisory
<1>2. QED
  BY <1>1, SafetyHolds, PTL

\* Ownership: a confirmation and a run belong to the person their draft
\* belongs to (store.py get_draft, get_confirmation).
THEOREM PeopleAreKeptApart == Spec => []PeopleKeepToTheirDrafts
<1>1. SafetyInv => PeopleKeepToTheirDrafts
  BY DEF SafetyInv, TypeInv, RowsFit, ConfsSafe, RunsSafe, PeopleKeepToTheirDrafts
<1>2. QED
  BY <1>1, SafetyHolds, PTL

-----------------------------------------------------------------------------
(* The workflow implements the gate.  A step that saves a confirmation       *)
(* approves, one that claims a run claims, one that sends a statement asks,  *)
(* and every other step leaves the three as they are.                        *)

Approved == {Approval(c) : c \in {n \in DOMAIN confs : confs[n].by \in Humans}}
Claims == [r \in DOMAIN runs |-> ClaimOf(r)]
Questions == [i \in DOMAIN statements |-> Sent(i)]

\* A claim as the tables have it: confirmations and runs once written keep
\* what a claim is made of.
LEMMA ClaimsStay ==
  ASSUME TypeInv, RowsKept
  PROVE  /\ \A c \in DOMAIN confs : Approval(c)' = Approval(c)
         /\ \A r \in DOMAIN runs : ClaimOf(r)' = ClaimOf(r)
<1>1. \A c \in DOMAIN confs : confs'[c] = confs[c]
  BY DEF RowsKept
<1>2. \A c \in DOMAIN confs : Approval(c)' = Approval(c)
  BY <1>1 DEF Approval
<1>3. ASSUME NEW r \in DOMAIN runs PROVE ClaimOf(r)' = ClaimOf(r)
  <2>1. runs[r].conf \in DOMAIN confs
    BY DEF TypeInv, RowsFit
  <2>2. runs'[r].key = runs[r].key /\ runs'[r].conf = runs[r].conf
    BY DEF RowsKept
  <2>3. Approval(runs[r].conf)' = Approval(runs[r].conf)
    BY <1>1, <2>1, <2>2 DEF Approval
  <2>4. QED
    BY <2>2, <2>3 DEF ClaimOf
<1>4. QED
  BY <1>2, <1>3

\* What was sent is what was claimed: the definition a statement asked is the
\* approved one, so putting it in its place changes nothing.
LEMMA SentAsClaimed ==
  ASSUME SafetyInv, NEW i \in DOMAIN statements
  PROVE  \/ statements[i] = Advisory /\ Sent(i) = [kind |-> "advisory"]
         \/ /\ statements[i].kind # "advisory"
            /\ statements[i].run \in DOMAIN runs
            /\ Sent(i) = [claim |-> ClaimOf(statements[i].run), kind |-> statements[i].kind]
<1>1. CASE statements[i] = Advisory
  BY <1>1 DEF Sent
<1>2. CASE statements[i] # Advisory
  <2> DEFINE r == statements[i].run
  <2>1. /\ statements[i].kind # "advisory"
        /\ r \in DOMAIN runs /\ statements[i].defn = confs[runs[r].conf].defn
    BY <1>2 DEF SafetyInv, StatementsSafe
  <2>2. ClaimOf(r) = [key |-> runs[r].key,
                      what |-> [subject |-> confs[runs[r].conf].subject,
                                draft |-> confs[runs[r].conf].draft,
                                version |-> confs[runs[r].conf].version,
                                defn |-> confs[runs[r].conf].defn]]
    BY DEF ClaimOf, Approval
  <2>3. [ClaimOf(r) EXCEPT !.what.defn = statements[i].defn] = ClaimOf(r)
    BY <2>1, <2>2
  <2>4. QED
    BY <1>2, <2>1, <2>3 DEF Sent
<1>3. QED
  BY <1>1, <1>2

\* What was sent stays what was sent, as long as the tables keep their rows.
LEMMA SentStays ==
  ASSUME SafetyInv, RowsKept, NEW i \in DOMAIN statements, statements'[i] = statements[i]
  PROVE  Sent(i)' = Sent(i)
<1>1. CASE statements[i] = Advisory
  BY <1>1 DEF Sent, Advisory
<1>2. CASE statements[i] # Advisory
  <2>1. PICK r : r = statements[i].run
    OBVIOUS
  <2>2. r \in DOMAIN runs
    BY <1>2, <2>1 DEF SafetyInv, StatementsSafe
  <2>3. ClaimOf(r)' = ClaimOf(r)
    BY <2>2, ClaimsStay DEF SafetyInv
  <2>4. Advisory' = Advisory
    BY DEF Advisory, OpenDefinition, Missing
  <2>5. QED
    BY <1>2, <2>1, <2>3, <2>4 DEF Sent
<1>3. QED
  BY <1>1, <1>2

\* What a step may do to what the gate sees: nothing, or one of the gate's steps.
GateStep == [Gate!Next]_(Gate!vars)

\* What has been asked for a claim, in the terms of the tables.
AskedFor(claim) ==
  {Questions[i].kind : i \in {j \in DOMAIN Questions :
                               /\ Questions[j].kind # "advisory"
                               /\ Questions[j].claim = claim}}

\* The gate's four steps, in the terms of the tables.
LEMMA GateSteps ==
  /\ Approved' = Approved /\ Claims' = Claims /\ Questions' = Questions => GateStep
  /\ ( /\ \E what \in Approved' : Approved' = Approved \cup {what}
       /\ Claims' = Claims /\ Questions' = Questions )
     => GateStep
  /\ ( /\ \E n \in DOMAIN Claims' :
            /\ Claims' = Append(Claims, Claims'[n])
            /\ Claims'[n].what \in Approved
            /\ \A m \in DOMAIN Claims : Claims[m].key # Claims'[n].key
       /\ Approved' = Approved /\ Questions' = Questions )
     => GateStep
  /\ ( /\ \E n \in DOMAIN Questions' :
            /\ Questions' = Append(Questions, Questions'[n])
            /\ Questions'[n].kind \in {"probe", "query"}
            /\ \E m \in DOMAIN Claims : Questions'[n].claim = Claims[m]
            /\ AskedFor(Questions'[n].claim) \cap {"query", Questions'[n].kind} = {}
       /\ Approved' = Approved /\ Claims' = Claims )
     => GateStep
  /\ ( /\ Questions' = Append(Questions, [kind |-> "advisory"])
       /\ Approved' = Approved /\ Claims' = Claims )
     => GateStep
  BY DEF GateStep, Gate!Next, Gate!vars, Gate!Approve, Gate!Claim, Gate!Ask, Gate!Advise,
         Gate!Asked, Approved, Claims, Questions, AskedFor

LEMMA GateUnseen ==
  ASSUME SafetyInv, SafetyInv', RowsKept
  PROVE  /\ UNCHANGED confs => Approved' = Approved
         /\ DOMAIN runs' = DOMAIN runs => Claims' = Claims
         /\ UNCHANGED statements => Questions' = Questions
<1>1. /\ \A c \in DOMAIN confs : Approval(c)' = Approval(c)
      /\ \A r \in DOMAIN runs : ClaimOf(r)' = ClaimOf(r)
  BY ClaimsStay DEF SafetyInv
<1>2. ASSUME UNCHANGED confs PROVE Approved' = Approved
  BY <1>2 DEF Approved, Approval
<1>3. ASSUME DOMAIN runs' = DOMAIN runs PROVE Claims' = Claims
  BY <1>1, <1>3 DEF Claims
<1>4. ASSUME UNCHANGED statements PROVE Questions' = Questions
  <2>1. \A i \in DOMAIN statements : Sent(i)' = Sent(i)
    BY <1>4, SentStays
  <2>2. QED
    BY <1>4, <2>1 DEF Questions
<1>5. QED
  BY <1>2, <1>3, <1>4

LEMMA GateInit == Init => Gate!Init
  BY DEF Init, Gate!Init

\* A step that writes none of the three tables.
LEMMA GateQuiet ==
  ASSUME UNCHANGED <<confs, runs, statements>>
  PROVE  GateStep
<1>1. Approved' = Approved /\ Claims' = Claims /\ Questions' = Questions
  BY DEF Approved, Claims, Questions, Approval, ClaimOf, Sent
<1>2. QED
  BY <1>1, GateSteps

\* Settling a run changes neither its key nor what it runs under.
LEMMA GateFinish ==
  ASSUME SafetyInv, SafetyInv', NEW a \in Actors, Finish(a)
  PROVE  GateStep
<1> DEFINE r == loc[a].run
           row == Finished(runs[r], loc[a].outcome, loc[a].defn)
<1>1. UNCHANGED <<drafts, confs, statements>> /\ runs' = [runs EXCEPT ![r] = row]
  BY DEF Finish
<1>2. /\ row.key = runs[r].key /\ row.draft = runs[r].draft
      /\ row.conf = runs[r].conf /\ row.subject = runs[r].subject
  BY DEF Finished
<1>3. runs \in Seq(Run)
  BY DEF SafetyInv, TypeInv, TypeOK
<1> HIDE DEF row
<1>4. RowsKept /\ DOMAIN runs' = DOMAIN runs
  BY <1>1, <1>2, <1>3 DEF RowsKept
<1>5. QED
  BY <1>1, <1>4, GateUnseen, GateSteps

LEMMA GateSaveConfirmation ==
  ASSUME SafetyInv, SafetyInv', NEW a \in Actors, SaveConfirmation(a)
  PROVE  GateStep
<1>0. PICK c : c = Len(confs) + 1
  OBVIOUS
<1> DEFINE row == [draft |-> loc[a].draft, version |-> loc[a].version,
                          defn |-> loc[a].defn, subject |-> SubjectOf[a], by |-> a]
<1>1. UNCHANGED <<drafts, runs, statements>>
  BY DEF SaveConfirmation
<1>2. CASE UNCHANGED confs
  BY <1>1, <1>2, GateQuiet
<1>3. CASE confs' = Append(confs, row)
  <2>1. a \in Humans
    BY DEF SaveConfirmation, HeldSafely, SafetyInv
  <2>2. confs \in Seq(Confirmation)
    BY DEF SafetyInv, TypeInv, TypeOK
  <2>3. row.by = a
    OBVIOUS
  <2> HIDE DEF row
  <2>4. /\ \A i \in DOMAIN confs : i \in DOMAIN confs' /\ confs'[i] = confs[i]
        /\ DOMAIN confs' = DOMAIN confs \cup {c} /\ confs'[c] = row
    BY <1>0, <1>3, <2>2
  <2>5. RowsKept
    BY <1>1, <2>4 DEF RowsKept
  <2>6. Claims' = Claims /\ Questions' = Questions
    BY <1>1, <2>5, GateUnseen
  <2> DEFINE what == Approval(c)'
  <2>7. \A i \in DOMAIN confs : Approval(i)' = Approval(i)
    BY <2>5, ClaimsStay DEF SafetyInv
  <2>8. {n \in DOMAIN confs' : confs'[n].by \in Humans}
          = {n \in DOMAIN confs : confs[n].by \in Humans} \cup {c}
    BY <2>1, <2>3, <2>4
  <2>9. Approved' = Approved \cup {what} /\ what \in Approved'
    <3>1. Approved' = {Approval(i)' : i \in {n \in DOMAIN confs : confs[n].by \in Humans} \cup {c}}
      BY <2>8 DEF Approved
    <3>2. QED
      BY <2>7, <3>1 DEF Approved
  <2>10. QED
    BY <2>6, <2>9, GateSteps
<1>4. QED
  BY <1>2, <1>3 DEF SaveConfirmation

\* The key was free, so no claim has it; and what the run is claimed under is a
\* confirmation, which only a person gives.
LEMMA GateClaim ==
  ASSUME SafetyInv, SafetyInv', NEW a \in Actors, Claim(a)
  PROVE  GateStep
<1>0. PICK r : r = Len(runs) + 1
  OBVIOUS
<1> DEFINE row == [key |-> loc[a].key, draft |-> loc[a].draft, conf |-> loc[a].conf,
                          subject |-> SubjectOf[a], status |-> "executing",
                          defn |-> OpenDefinition]
<1>1. UNCHANGED <<drafts, confs, statements>>
  BY DEF Claim
<1>2. CASE UNCHANGED runs
  BY <1>1, <1>2, GateQuiet
<1>3. CASE Holding(loc[a].key) = {} /\ runs' = Append(runs, row)
  <2>1. loc[a].conf \in DOMAIN confs /\ confs[loc[a].conf].by \in Humans
    BY DEF Claim, SafetyInv, HeldSafely, AgreesWithConfirmation, ConfsSafe
  <2>2. runs \in Seq(Run)
    BY DEF SafetyInv, TypeInv, TypeOK
  <2>3. row.key = loc[a].key /\ row.conf = loc[a].conf
    OBVIOUS
  <2> HIDE DEF row
  <2>4. /\ \A n \in DOMAIN runs : n \in DOMAIN runs' /\ runs'[n] = runs[n]
        /\ DOMAIN runs' = DOMAIN runs \cup {r} /\ runs'[r] = row
    BY <1>0, <1>3, <2>2
  <2>5. RowsKept
    BY <1>1, <2>4 DEF RowsKept
  <2>6. Approved' = Approved /\ Questions' = Questions
    BY <1>1, <2>5, GateUnseen
  <2> DEFINE claim == ClaimOf(r)'
  <2>7. claim = [key |-> loc[a].key, what |-> Approval(loc[a].conf)]
    BY <1>1, <2>3, <2>4 DEF ClaimOf, Approval
  <2>8. \A n \in DOMAIN runs : ClaimOf(n)' = ClaimOf(n)
    BY <2>5, ClaimsStay DEF SafetyInv
  <2>9. /\ r \in DOMAIN Claims' /\ Claims'[r] = claim
        /\ Claims' = Append(Claims, Claims'[r])
    <3>1. PICK n \in Nat : r = n + 1 /\ DOMAIN runs = 1..n /\ DOMAIN runs' = 1..r
      BY <1>0, <2>2, <2>4
    <3>2. /\ Claims = [m \in 1..n |-> Claims[m]]
          /\ Claims' = [m \in 1..(n + 1) |-> Claims'[m]]
          /\ \A m \in 1..n : Claims'[m] = Claims[m]
      BY <2>4, <2>8, <3>1 DEF Claims
    <3>3. Claims' = Append(Claims, Claims'[n + 1])
      BY <3>2, RowsMapped
    <3>4. QED
      BY <2>4, <3>1, <3>3 DEF Claims
  <2>10. claim.what \in Approved
    BY <2>1, <2>7 DEF Approved
  <2>11. \A m \in DOMAIN Claims : Claims[m].key # claim.key
    <3>1. \A n \in DOMAIN runs : runs[n].key # loc[a].key
      BY <1>3 DEF Holding
    <3>2. \A n \in DOMAIN runs : ClaimOf(n).key = runs[n].key
      BY DEF ClaimOf
    <3>3. QED
      BY <2>7, <3>1, <3>2 DEF Claims
  <2>12. QED
    BY <2>6, <2>9, <2>10, <2>11, GateSteps
<1>4. QED
  BY <1>2, <1>3 DEF Claim

\* A run that has yet to be queried was never queried under its claim, because
\* a key is one run's.
LEMMA GateAsk ==
  ASSUME SafetyInv, SafetyInv', NEW a \in Actors, Probe(a) \/ Query(a)
  PROVE  GateStep
<1>0. PICK r, n : r = loc[a].run /\ n = Len(statements) + 1
  OBVIOUS
<1>1. UNCHANGED <<drafts, confs, runs>> /\ RowsKept
  BY SameRows DEF Probe, Query, tables
<1>2. /\ r \in DOMAIN runs
      /\ Probe(a) => StatementsOf(r) = {}
      /\ Query(a) => ~ Queried(r)
  BY <1>0 DEF Probe, Query, HeldSafely, LocalFits, Asking, SafetyInv, TypeInv
<1>3. PICK row : /\ statements' = Append(statements, row) /\ row.run = r
                 /\ \/ Probe(a) /\ row.kind = "probe"
                    \/ Query(a) /\ row.kind = "query"
  <2>1. \A kind : LET s == [run |-> r, kind |-> kind, defn |-> loc[a].defn]
                 IN s.run = r /\ s.kind = kind
    OBVIOUS
  <2>2. QED
    BY <1>0, <2>1 DEF Probe, Query
<1>4. statements \in Seq(Statement)
  BY DEF SafetyInv, TypeInv, TypeOK
<1>5. /\ \A i \in DOMAIN statements : i \in DOMAIN statements' /\ statements'[i] = statements[i]
      /\ DOMAIN statements' = DOMAIN statements \cup {n} /\ statements'[n] = row
  BY <1>0, <1>3, <1>4
<1>6. Approved' = Approved /\ Claims' = Claims
  BY <1>1, GateUnseen
<1> DEFINE question == Sent(n)'
<1>7. ClaimOf(r)' = ClaimOf(r) /\ \E m \in DOMAIN Claims : ClaimOf(r) = Claims[m]
  BY <1>1, <1>2, ClaimsStay DEF SafetyInv, Claims
<1>8. question = [claim |-> ClaimOf(r), kind |-> row.kind]
  <2>0. statements'[n] # Advisory'
    BY <1>3, <1>5 DEF Advisory
  <2>1. statements'[n].defn = confs'[runs'[r].conf].defn
    BY <1>3, <1>5, <2>0 DEF SafetyInv, StatementsSafe
  <2>2. ClaimOf(r) = [key |-> runs[r].key,
                      what |-> [subject |-> confs[runs[r].conf].subject,
                                draft |-> confs[runs[r].conf].draft,
                                version |-> confs[runs[r].conf].version,
                                defn |-> confs[runs[r].conf].defn]]
    BY DEF ClaimOf, Approval
  <2>3. [ClaimOf(r) EXCEPT !.what.defn = statements'[n].defn] = ClaimOf(r)
    BY <1>1, <2>1, <2>2
  <2>4. QED
    BY <1>3, <1>5, <1>7, <2>0, <2>3 DEF Sent
<1>9. \A i \in DOMAIN statements : Sent(i)' = Sent(i)
  BY <1>1, <1>5, SentStays
<1>10. /\ n \in DOMAIN Questions' /\ Questions'[n] = question
       /\ Questions' = Append(Questions, Questions'[n])
  <2>1. PICK k \in Nat : /\ n = k + 1 /\ DOMAIN statements = 1..k
                         /\ DOMAIN statements' = 1..n
    BY <1>0, <1>4, <1>5
  <2>2. /\ Questions = [m \in 1..k |-> Questions[m]]
        /\ Questions' = [m \in 1..(k + 1) |-> Questions'[m]]
        /\ \A m \in 1..k : Questions'[m] = Questions[m]
    BY <1>5, <1>9, <2>1 DEF Questions
  <2>3. Questions' = Append(Questions, Questions'[k + 1])
    BY <2>2, RowsMapped
  <2>4. QED
    BY <1>5, <2>1, <2>3 DEF Questions
<1>11. AskedFor(ClaimOf(r)) \cap {"query", row.kind} = {}
  <2> SUFFICES ASSUME NEW i \in DOMAIN statements,
                      Sent(i).kind # "advisory", Sent(i).claim = ClaimOf(r),
                      Sent(i).kind \in {"query", row.kind}
               PROVE  FALSE
    BY DEF AskedFor, Questions
  <2>1. /\ statements[i].run \in DOMAIN runs
        /\ Sent(i) = [claim |-> ClaimOf(statements[i].run), kind |-> statements[i].kind]
    BY SentAsClaimed
  <2>2. ClaimOf(statements[i].run) = ClaimOf(r) /\ statements[i].kind \in {"query", row.kind}
    BY <2>1
  <2>3. runs[statements[i].run].key = runs[r].key
    BY <2>2 DEF ClaimOf
  <2>4. statements[i].run = r
    BY <1>2, <2>1, <2>3 DEF SafetyInv, RunsSafe
  <2>5. QED
    BY <1>2, <1>3, <2>2, <2>4 DEF StatementsOf, Queried
<1>12. /\ Questions'[n].kind \in {"probe", "query"}
       /\ \E m \in DOMAIN Claims : Questions'[n].claim = Claims[m]
       /\ AskedFor(Questions'[n].claim) \cap {"query", Questions'[n].kind} = {}
  <2>1. Questions'[n].claim = ClaimOf(r) /\ Questions'[n].kind = row.kind
    BY <1>8, <1>10
  <2>2. QED
    BY <1>3, <1>7, <1>11, <2>1
<1>13. QED
  BY <1>6, <1>10, <1>12, GateSteps

LEMMA GateProbeFreshness ==
  ASSUME SafetyInv, SafetyInv', NEW a \in Actors, ProbeFreshness(a)
  PROVE  GateStep
<1>0. PICK n : n = Len(statements) + 1
  OBVIOUS
<1>1. UNCHANGED <<drafts, confs, runs>> /\ RowsKept
  BY SameRows DEF ProbeFreshness, tables
<1>2. statements \in Seq(Statement) /\ statements' = Append(statements, Advisory)
  BY DEF ProbeFreshness, SafetyInv, TypeInv, TypeOK
<1>3. /\ \A i \in DOMAIN statements : i \in DOMAIN statements' /\ statements'[i] = statements[i]
      /\ DOMAIN statements' = DOMAIN statements \cup {n} /\ statements'[n] = Advisory
  BY <1>0, <1>2
<1>4. Approved' = Approved /\ Claims' = Claims
  BY <1>1, GateUnseen
<1>5. \A i \in DOMAIN statements : Sent(i)' = Sent(i)
  BY <1>1, <1>3, SentStays
<1>6. Sent(n)' = [kind |-> "advisory"]
  BY <1>3 DEF Sent, Advisory
<1>7. Questions' = Append(Questions, [kind |-> "advisory"])
  <2>1. PICK k \in Nat : /\ n = k + 1 /\ DOMAIN statements = 1..k
                         /\ DOMAIN statements' = 1..n
    BY <1>0, <1>2, <1>3
  <2>2. /\ Questions = [m \in 1..k |-> Questions[m]]
        /\ Questions' = [m \in 1..(k + 1) |-> Questions'[m]]
        /\ \A m \in 1..k : Questions'[m] = Questions[m]
    BY <1>3, <1>5, <2>1 DEF Questions
  <2>3. Questions' = Append(Questions, Questions'[k + 1])
    BY <2>2, RowsMapped
  <2>4. Questions'[k + 1] = [kind |-> "advisory"]
    BY <1>3, <1>6, <2>1 DEF Questions
  <2>5. QED
    BY <2>3, <2>4
<1>8. QED
  BY <1>4, <1>7, GateSteps

LEMMA GateNext == SafetyInv /\ SafetyInv' /\ [Next]_vars => GateStep
<1> SUFFICES ASSUME SafetyInv, SafetyInv', [Next]_vars PROVE GateStep
  OBVIOUS
<1>1. CASE UNCHANGED vars
  BY <1>1, GateQuiet DEF vars
<1>2. ASSUME NEW a \in Actors, Request(a) PROVE GateStep
  BY <1>2, GateQuiet
     DEF Request, Prepare, View, Amend, Confirm, ExecuteConfirmed, tables
<1>3. ASSUME NEW a \in Actors, Crash(a) PROVE GateStep
  BY <1>3, GateQuiet DEF Crash, tables
<1>4. ASSUME NEW doc \in Docs, ChangeDoc(doc) PROVE GateStep
  BY <1>4, GateQuiet DEF ChangeDoc, tables
<1>5. ASSUME NEW a \in Actors, Step(a) PROVE GateStep
  <2>1. CASE \/ SaveConfirmation(a) \/ Claim(a) \/ Probe(a) \/ Query(a) \/ Finish(a)
             \/ ProbeFreshness(a)
    BY <2>1, GateSaveConfirmation, GateClaim, GateAsk, GateFinish, GateProbeFreshness
  <2>2. CASE \/ \E doc \in Docs : RecordCitation(a, doc)
             \/ ShowProgress(a) \/ ShowNotes(a) \/ AmendCheck(a) \/ AmendWrite(a)
             \/ ReadEvidence(a) \/ CheckRefs(a) \/ Expire(a)
             \/ LookUp(a) \/ Load(a) \/ ReadKey(a) \/ Admit(a) \/ Refuse(a) \/ Answer(a)
    BY <2>2, GateQuiet
       DEF RecordCitation, ShowProgress, ShowNotes, AmendCheck, AmendWrite, ReadEvidence,
           CheckRefs, Expire, LookUp, Load, ReadKey, Admit, Refuse, Answer, tables
  <2>3. QED
    BY <1>5, <2>1, <2>2 DEF Step
<1>6. QED
  BY <1>1, <1>2, <1>3, <1>4, <1>5 DEF Next

\* The four doors and the state file together implement the gate: whatever
\* they interleave with, and wherever they are killed, each step approves
\* something, claims a run under an approval and a fresh key, asks what a claim
\* approved, or changes none of that (store.py's tables, service.py's methods).
THEOREM TheGateIsImplemented == Spec => ImplementsGate
<1>1. Spec => []SafetyInv
  BY SafetyHolds
<1>2. SafetyInv /\ SafetyInv' /\ [Next]_vars => [Gate!Next]_(Gate!vars)
  BY GateNext DEF GateStep
<1>3. QED
  BY <1>1, <1>2, GateInit, PTL DEF Spec, ImplementsGate, Gate!Spec

-----------------------------------------------------------------------------
(* The two readings of a pending draft. *)

\* Every confirmation was given by a person, for their own draft, so the join
\* that asks for any confirmation and the query that asks for a person's own
\* find the same rows (store.py pending_drafts, service.py progress).
THEOREM PendingListAgrees == Spec => []PendingAgreesWithProgress
<1>1. ASSUME SafetyInv PROVE PendingAgreesWithProgress
  <2> SUFFICES ASSUME NEW d \in DOMAIN drafts
               PROVE  LET pending ==
                            /\ drafts[d].status \in {"needs_input", "awaiting_confirmation"}
                            /\ ~ \E c \in DOMAIN confs :
                                   /\ confs[c].draft = d
                                   /\ confs[c].version = drafts[d].version
                                   /\ confs[c].defn = drafts[d].defn
                      IN pending <=> Progress(d) \in {"NEEDS_INPUT", "AWAITING_CONFIRMATION"}
    BY DEF PendingAgreesWithProgress
  <2> DEFINE given == HumanConfirmations(drafts[d].subject, d, drafts[d].version, drafts[d].defn)
             confirmed == \E c \in DOMAIN confs : /\ confs[c].draft = d
                                                  /\ confs[c].version = drafts[d].version
                                                  /\ confs[c].defn = drafts[d].defn
  <2>1. confirmed <=> given # {}
    <3>1. ASSUME NEW c \in DOMAIN confs, confs[c].draft = d
          PROVE  confs[c].subject = drafts[d].subject /\ confs[c].by \in Humans
      BY <1>1, <3>1 DEF SafetyInv, ConfsSafe
    <3>2. QED
      BY <3>1 DEF HumanConfirmations
  <2>2. drafts[d].status \in {"needs_input", "awaiting_confirmation", "expired"}
    <3>1. drafts[d] \in Draft
      BY <1>1, RowInTable DEF SafetyInv, TypeInv, TypeOK
    <3>2. QED
      BY <3>1 DEF Draft
  <2>3. Progress(d) \in {"NEEDS_INPUT", "AWAITING_CONFIRMATION"}
          <=> drafts[d].status # "expired" /\ given = {}
    BY DEF Progress
  <2>4. QED
    BY <2>1, <2>2, <2>3
<1>2. QED
  BY <1>1, SafetyHolds, PTL

-----------------------------------------------------------------------------
(* Withdrawn evidence.  From the moment an operation begins, a citation in   *)
(* lost is one that does not stand.  Until the citations have been looked up *)
(* it is among those that will be, because citations are only ever added, so *)
(* an operation that gets past the lookup has none.                          *)

Onward == {"save", "key", "admit", "claim", "probe", "query"}

LostIsSeen(a) ==
  /\ pc[a] \in {"evidence", "refs"} => loc[a].lost \cap standing = {}
  /\ pc[a] = "evidence" => loc[a].lost \subseteq evidence[loc[a].draft]
  /\ pc[a] = "refs" => loc[a].lost \subseteq loc[a].refs
  /\ a \in Checkers /\ pc[a] \in Onward => loc[a].lost = {}

EvidenceInv == TypeInv /\ \A a \in Actors : LostIsSeen(a)

\* Citations are only added.
EvidenceGrows ==
  \A d \in DOMAIN drafts : d \in DOMAIN drafts' /\ evidence[d] \subseteq evidence'[d]

LEMMA OthersSee ==
  ASSUME EvidenceInv, TypeInv', EvidenceGrows, UNCHANGED standing, NEW a \in Actors,
         \A b \in Actors \ {a} : pc'[b] = pc[b] /\ loc'[b] = loc[b],
         LostIsSeen(a)'
  PROVE  EvidenceInv'
<1>1. ASSUME NEW b \in Actors \ {a} PROVE LostIsSeen(b)'
  <2>1. LostIsSeen(b) /\ LocalFits(b)
    BY DEF EvidenceInv, TypeInv
  <2>2. pc[b] = "evidence" => loc[b].draft \in DOMAIN drafts
    BY <2>1 DEF LocalFits, AtDraft, Steps
  <2>3. QED
    BY <2>1, <2>2 DEF LostIsSeen, EvidenceGrows
<1>2. QED
  BY <1>1 DEF EvidenceInv

\* A step to where nothing is carried: the methods' ends and beginnings.
Unconcerned == Steps \ ({"evidence", "refs"} \cup Onward)

LEMMA SteppingAside ==
  ASSUME EvidenceInv, TypeInv', EvidenceGrows, UNCHANGED standing, NEW a \in Actors,
         NEW step \in Unconcerned, Goto(a, step),
         \A b \in Actors \ {a} : loc'[b] = loc[b]
  PROVE  EvidenceInv'
<1>1. pc'[a] = step /\ \A b \in Actors \ {a} : pc'[b] = pc[b]
  BY DEF Goto, EvidenceInv, TypeInv, TypeOK
<1>2. LostIsSeen(a)'
  BY <1>1 DEF LostIsSeen, Unconcerned, Onward
<1>3. QED
  BY <1>1, <1>2, OthersSee

LEMMA Ending ==
  ASSUME EvidenceInv, TypeInv', EvidenceGrows, UNCHANGED standing, NEW a \in Actors, Rests(a)
  PROVE  EvidenceInv'
<1>1. PICK step \in {"idle", "advise"} : Goto(a, step)
  BY DEF Rests, Moves, Goto
<1>2. \A b \in Actors \ {a} : loc'[b] = loc[b]
  BY DEF Rests, Moves, EvidenceInv, TypeInv, TypeOK
<1>3. step \in Unconcerned
  BY DEF Unconcerned, Onward, Steps
<1>4. QED
  BY <1>1, <1>2, <1>3, SteppingAside

LEMMA SameEvidence ==
  ASSUME UNCHANGED <<drafts, evidence>>
  PROVE  EvidenceGrows
  BY DEF EvidenceGrows

LEMMA EvidenceInit == Init => EvidenceInv
  BY TypeInvInit DEF Init, EvidenceInv, LostIsSeen, Onward

LEMMA EvidencePrepare ==
  ASSUME EvidenceInv, TypeInv', NEW a \in Actors, NEW defn \in Built,
         NEW cites \in SUBSET Docs, Prepare(a, defn, cites)
  PROVE  EvidenceInv'
<1>1. EvidenceGrows
  <2>1. /\ drafts \in Seq(Draft) /\ evidence \in Seq(SUBSET Docs)
        /\ Len(evidence) = Len(drafts)
    BY DEF EvidenceInv, TypeInv, TypeOK
  <2>2. evidence' = Append(evidence, {})
    BY DEF Prepare
  <2>3. PICK row : drafts' = Append(drafts, row)
    BY DEF Prepare
  <2>4. \A d \in DOMAIN drafts : d \in DOMAIN drafts' /\ evidence'[d] = evidence[d]
    BY <2>1, <2>2, <2>3
  <2>5. QED
    BY <2>4 DEF EvidenceGrows
<1>2. CASE Rests(a)
  BY <1>1, <1>2, Ending DEF Prepare
<1>3. CASE ~Rests(a)
  <2>1. Goto(a, "record") /\ \A b \in Actors \ {a} : loc'[b] = loc[b]
    BY <1>3, Rested DEF Prepare, EvidenceInv, TypeInv, TypeOK
  <2>2. "record" \in Unconcerned
    BY DEF Unconcerned, Onward, Steps
  <2>3. QED
    BY <1>1, <2>1, <2>2, SteppingAside DEF Prepare
<1>4. QED
  BY <1>2, <1>3

LEMMA EvidenceRecord ==
  ASSUME EvidenceInv, TypeInv', NEW a \in Actors, NEW doc \in Docs, RecordCitation(a, doc)
  PROVE  EvidenceInv'
<1> DEFINE d == loc[a].draft
<1>1. evidence' = [evidence EXCEPT ![d] = evidence[d] \cup {doc}] /\ UNCHANGED drafts
  BY DEF RecordCitation
<1>2. EvidenceGrows
  <2>1. /\ evidence \in Seq(SUBSET Docs) /\ Len(evidence) = Len(drafts)
        /\ drafts \in Seq(Draft)
    BY DEF EvidenceInv, TypeInv, TypeOK
  <2>2. QED
    BY <1>1, <2>1 DEF EvidenceGrows
<1>3. CASE Rests(a)
  BY <1>2, <1>3, Ending DEF RecordCitation
<1>4. CASE ~Rests(a)
  <2>1. UNCHANGED pc /\ \A b \in Actors \ {a} : loc'[b] = loc[b]
    BY <1>4, Rested DEF RecordCitation, EvidenceInv, TypeInv, TypeOK
  <2>2. LostIsSeen(a)'
    BY <2>1 DEF RecordCitation, LostIsSeen, Onward
  <2>3. QED
    BY <1>2, <2>1, <2>2, OthersSee DEF RecordCitation
<1>5. QED
  BY <1>3, <1>4

\* An operation begins with the citations that do not stand as it reads the
\* draft.
LEMMA EvidenceBegins ==
  ASSUME EvidenceInv, TypeInv', NEW a \in Actors, NEW op, NEW d, NEW c, NEW key,
         Goto(a, "evidence"), loc' = [loc EXCEPT ![a] = Checking(op, d, c, key)],
         UNCHANGED <<tables, standing>>
  PROVE  EvidenceInv'
<1>1. /\ pc'[a] = "evidence" /\ loc'[a] = Checking(op, d, c, key)
      /\ \A b \in Actors \ {a} : pc'[b] = pc[b] /\ loc'[b] = loc[b]
  BY DEF Goto, EvidenceInv, TypeInv, TypeOK
<1>2. loc'[a].draft = d /\ loc'[a].lost = evidence[d] \ standing
  BY <1>1 DEF Checking
<1>3. LostIsSeen(a)'
  BY <1>1, <1>2 DEF LostIsSeen, Onward, tables
<1>4. EvidenceGrows
  BY SameEvidence DEF tables
<1>5. QED
  BY <1>1, <1>3, <1>4, OthersSee

LEMMA EvidenceRead ==
  ASSUME EvidenceInv, TypeInv', NEW a \in Actors, ReadEvidence(a)
  PROVE  EvidenceInv'
<1> DEFINE refs == evidence[loc[a].draft]
<1>1. /\ loc \in [Actors -> Local] /\ pc \in [Actors -> Steps] /\ LostIsSeen(a)
  BY DEF EvidenceInv, TypeInv, TypeOK
<1>2. \A b \in Actors \ {a} : pc'[b] = pc[b] /\ loc'[b] = loc[b]
  BY <1>1 DEF ReadEvidence, Goto
<1>3. ASSUME a \in Checkers PROVE LostIsSeen(a)'
  <2>1. loc'[a].refs = refs /\ loc'[a].lost = loc[a].lost
    BY <1>1, <1>3 DEF ReadEvidence, Local
  <2>2. loc[a].lost \cap standing = {} /\ loc[a].lost \subseteq refs
    BY <1>1 DEF ReadEvidence, LostIsSeen
  <2>3. CASE refs = {}
    <3>1. pc'[a] \in {"save", "key"}
      BY <1>1, <1>3, <2>3 DEF ReadEvidence, Goto, AfterEvidence
    <3>2. QED
      BY <2>1, <2>2, <2>3, <3>1 DEF LostIsSeen, Onward
  <2>4. CASE refs # {}
    <3>1. pc'[a] = "refs"
      BY <1>1, <1>3, <2>4 DEF ReadEvidence, Goto
    <3>2. QED
      BY <2>1, <2>2, <3>1 DEF LostIsSeen, Onward, ReadEvidence
  <2>5. QED
    BY <2>3, <2>4
<1>4. ASSUME a \notin Checkers PROVE LostIsSeen(a)'
  <2>1. pc'[a] \in {"save", "key"}
    BY <1>1, <1>4 DEF ReadEvidence, Goto, AfterEvidence
  <2>2. QED
    BY <1>4, <2>1 DEF LostIsSeen
<1>5. EvidenceGrows
  BY SameEvidence DEF ReadEvidence, tables
<1>6. QED
  BY <1>2, <1>3, <1>4, <1>5, OthersSee DEF ReadEvidence

\* check_refs finds every citation only if none is lost.
LEMMA EvidenceChecked ==
  ASSUME EvidenceInv, TypeInv', NEW a \in Actors, CheckRefs(a)
  PROVE  EvidenceInv'
<1>1. /\ loc \in [Actors -> Local] /\ pc \in [Actors -> Steps] /\ LostIsSeen(a)
  BY DEF EvidenceInv, TypeInv, TypeOK
<1>2. EvidenceGrows
  BY SameEvidence DEF CheckRefs, tables
<1>3. CASE loc[a].refs \subseteq Visible(a, loc[a].draft)
  <2>1. loc[a].lost = {}
    BY <1>1, <1>3 DEF CheckRefs, LostIsSeen, Visible
  <2>2. pc'[a] \in {"save", "key"}
    BY <1>1, <1>3 DEF CheckRefs, Goto, AfterEvidence
  <2>3. LostIsSeen(a)'
    BY <2>1, <2>2 DEF CheckRefs, LostIsSeen, Onward
  <2>4. \A b \in Actors \ {a} : pc'[b] = pc[b] /\ loc'[b] = loc[b]
    BY <1>1 DEF CheckRefs, Goto
  <2>5. QED
    BY <1>2, <2>3, <2>4, OthersSee DEF CheckRefs
<1>4. CASE ~ (loc[a].refs \subseteq Visible(a, loc[a].draft))
  <2>1. Goto(a, "expire") /\ \A b \in Actors \ {a} : loc'[b] = loc[b]
    BY <1>4 DEF CheckRefs
  <2>2. "expire" \in Unconcerned
    BY DEF Unconcerned, Onward, Steps
  <2>3. QED
    BY <1>2, <2>1, <2>2, SteppingAside DEF CheckRefs
<1>5. QED
  BY <1>3, <1>4

\* A step that changes no citation and goes to where nothing is carried.
LEMMA EvidenceAside ==
  ASSUME EvidenceInv, TypeInv', UNCHANGED <<evidence, drafts, standing>>,
         NEW a \in Actors, NEW step \in Unconcerned, Goto(a, step),
         \A b \in Actors \ {a} : loc'[b] = loc[b]
  PROVE  EvidenceInv'
  BY SameEvidence, SteppingAside

LEMMA EvidenceRests ==
  ASSUME EvidenceInv, TypeInv', UNCHANGED <<evidence, drafts, standing>>,
         NEW a \in Actors, Rests(a)
  PROVE  EvidenceInv'
  BY SameEvidence, Ending

LEMMA EvidenceEnds ==
  ASSUME EvidenceInv, TypeInv', UNCHANGED <<evidence, drafts, standing>>,
         NEW a \in Actors, Return(a)
  PROVE  EvidenceInv'
  BY Rested, EvidenceRests

\* A draft's row changes, its citations do not.
LEMMA EvidenceOfDraftKept ==
  ASSUME EvidenceInv, NEW a \in Actors, AmendWrite(a) \/ Expire(a)
  PROVE  EvidenceGrows
<1>1. drafts \in Seq(Draft)
  BY DEF EvidenceInv, TypeInv, TypeOK
<1>2. DOMAIN drafts' = DOMAIN drafts /\ evidence' = evidence
  BY <1>1 DEF AmendWrite, Expire
<1>3. QED
  BY <1>2 DEF EvidenceGrows

LEMMA EvidenceWritten ==
  ASSUME EvidenceInv, TypeInv', NEW a \in Actors, AmendWrite(a) \/ Expire(a)
  PROVE  EvidenceInv'
<1>1. EvidenceGrows
  BY EvidenceOfDraftKept
<1>2. Rests(a) /\ UNCHANGED standing
  BY Rested DEF AmendWrite, Expire, Exit
<1>3. QED
  BY <1>1, <1>2, Ending

LEMMA LocalsOfOthers ==
  ASSUME TypeInv, NEW a \in Actors, NEW l, loc' = [loc EXCEPT ![a] = l]
  PROVE  \A b \in Actors \ {a} : loc'[b] = loc[b]
  BY DEF TypeInv, TypeOK

\* The requests.
LEMMA EvidenceRequest ==
  ASSUME EvidenceInv, TypeInv', NEW a \in Actors, Request(a)
  PROVE  EvidenceInv'
<1> USE DEF EvidenceInv
<1>1. \A step \in {"progress", "check", "lookup"} : step \in Unconcerned
  BY DEF Unconcerned, Onward, Steps
<1>2. CASE \E defn \in Built, cites \in SUBSET Docs : Prepare(a, defn, cites)
  BY <1>2, EvidencePrepare
<1>3. CASE \E d \in DOMAIN drafts : View(a, d)
  <2>1. PICK d \in DOMAIN drafts : View(a, d)
    BY <1>3
  <2>2. \A b \in Actors \ {a} : loc'[b] = loc[b]
    BY <2>1, LocalsOfOthers DEF View
  <2>3. QED
    BY <1>1, <2>1, <2>2, EvidenceAside DEF View, tables
<1>4. CASE \E added \in Amendments(a), expected \in 1..MaxVersion : Amend(a, added, expected)
  <2>1. PICK added \in Amendments(a), expected \in 1..MaxVersion : Amend(a, added, expected)
    BY <1>4
  <2>2. \A b \in Actors \ {a} : loc'[b] = loc[b]
    BY <2>1, LocalsOfOthers DEF Amend
  <2>3. QED
    BY <1>1, <2>1, <2>2, EvidenceAside DEF Amend, tables
<1>5. CASE Confirm(a)
  <2>1. UNCHANGED <<tables, standing>>
    BY <1>5 DEF Confirm
  <2>2. CASE Return(a)
    BY <2>1, <2>2, EvidenceEnds DEF tables
  <2>3. CASE ~ Return(a)
    <3>1. Goto(a, "evidence")
          /\ loc' = [loc EXCEPT ![a] = Checking("confirm", screen[a].draft, 0, NoKey)]
      BY <1>5, <2>3 DEF Confirm, Exit
    <3>2. QED
      BY <2>1, <3>1, EvidenceBegins
  <2>4. QED
    BY <2>2, <2>3
<1>6. CASE \E d \in DOMAIN drafts : ExecuteConfirmed(a, d)
  <2>1. PICK d \in DOMAIN drafts : ExecuteConfirmed(a, d)
    BY <1>6
  <2>2. \A b \in Actors \ {a} : loc'[b] = loc[b]
    BY <2>1, LocalsOfOthers DEF ExecuteConfirmed
  <2>3. QED
    BY <1>1, <2>1, <2>2, EvidenceAside DEF ExecuteConfirmed, tables
<1>7. QED
  BY <1>2, <1>3, <1>4, <1>5, <1>6 DEF Request

\* Past the lookup, a step that keeps what was lost keeps it empty.
LEMMA EvidenceProceeds ==
  ASSUME EvidenceInv, TypeInv', UNCHANGED <<evidence, drafts, standing>>,
         NEW a \in Actors, pc[a] \in Onward,
         loc'[a].lost = loc[a].lost,
         \A b \in Actors \ {a} : pc'[b] = pc[b] /\ loc'[b] = loc[b],
         pc'[a] \in Onward
  PROVE  EvidenceInv'
<1>1. a \in Checkers => loc'[a].lost = {}
  BY DEF EvidenceInv, LostIsSeen
<1>2. LostIsSeen(a)'
  BY <1>1 DEF LostIsSeen, Onward
<1>3. QED
  BY <1>2, SameEvidence, OthersSee

\* Being answered from a run ends the operation or leaves only the answer.
LEMMA EvidenceAnswered ==
  ASSUME EvidenceInv, TypeInv', UNCHANGED <<evidence, drafts, standing>>,
         NEW a \in Actors, NEW r, AnswerFrom(a, r)
  PROVE  EvidenceInv'
<1>1. CASE Return(a)
  BY <1>1, EvidenceEnds
<1>2. CASE ~ Return(a)
  <2>1. Goto(a, "answer") /\ \A b \in Actors \ {a} : loc'[b] = loc[b]
    BY <1>2 DEF AnswerFrom, Exit, EvidenceInv, TypeInv, TypeOK
  <2>2. "answer" \in Unconcerned
    BY DEF Unconcerned, Onward, Steps
  <2>3. QED
    BY <2>1, <2>2, EvidenceAside
<1>3. QED
  BY <1>1, <1>2

LEMMA EvidenceLoad ==
  ASSUME EvidenceInv, TypeInv', NEW a \in Actors, Load(a)
  PROVE  EvidenceInv'
<1> DEFINE c == loc[a].conf
<1>1. UNCHANGED <<tables, standing>>
  BY DEF Load
<1>2. CASE Return(a)
  BY <1>1, <1>2, EvidenceEnds DEF tables
<1>3. CASE ~ Return(a)
  <2>1. Goto(a, "evidence")
        /\ loc' = [loc EXCEPT ![a] = Checking("execute", confs[c].draft, c, loc[a].key)]
    BY <1>3 DEF Load, Exit
  <2>2. QED
    BY <1>1, <2>1, EvidenceBegins
<1>4. QED
  BY <1>2, <1>3

LEMMA EvidenceSave ==
  ASSUME EvidenceInv, TypeInv', NEW a \in Actors, SaveConfirmation(a)
  PROVE  EvidenceInv'
<1>1. UNCHANGED <<evidence, drafts, standing>>
  BY DEF SaveConfirmation
<1>2. CASE Return(a)
  BY <1>1, <1>2, EvidenceEnds
<1>3. CASE ~ Return(a)
  <2>1. Goto(a, "load") /\ \A b \in Actors \ {a} : loc'[b] = loc[b]
    BY <1>3 DEF SaveConfirmation, Exit, EvidenceInv, TypeInv, TypeOK
  <2>2. "load" \in Unconcerned
    BY DEF Unconcerned, Onward, Steps
  <2>3. QED
    BY <1>1, <2>1, <2>2, EvidenceAside
<1>4. QED
  BY <1>2, <1>3

LEMMA EvidenceLookUp ==
  ASSUME EvidenceInv, TypeInv', NEW a \in Actors, LookUp(a)
  PROVE  EvidenceInv'
<1>1. UNCHANGED <<evidence, drafts, standing>>
  BY DEF LookUp, tables
<1>2. CASE Return(a)
  BY <1>1, <1>2, EvidenceEnds
<1>3. CASE ~ Return(a)
  <2>1. Goto(a, "load") /\ \A b \in Actors \ {a} : loc'[b] = loc[b]
    BY <1>3 DEF LookUp, Exit, EvidenceInv, TypeInv, TypeOK
  <2>2. "load" \in Unconcerned
    BY DEF Unconcerned, Onward, Steps
  <2>3. QED
    BY <1>1, <2>1, <2>2, EvidenceAside
<1>4. QED
  BY <1>2, <1>3

LEMMA EvidenceReadKey ==
  ASSUME EvidenceInv, TypeInv', NEW a \in Actors, ReadKey(a)
  PROVE  EvidenceInv'
<1>1. UNCHANGED <<evidence, drafts, standing>>
  BY DEF ReadKey, tables
<1>2. CASE Holding(loc[a].key) = {}
  <2>1. /\ pc[a] \in Onward /\ pc'[a] \in Onward /\ UNCHANGED loc
        /\ \A b \in Actors \ {a} : pc'[b] = pc[b]
    BY <1>2 DEF ReadKey, Goto, Onward, EvidenceInv, TypeInv, TypeOK
  <2>2. QED
    BY <1>1, <2>1, EvidenceProceeds
<1>3. CASE Holding(loc[a].key) # {}
  <2>1. PICK r \in Holding(loc[a].key) : AnswerFrom(a, r)
    BY <1>3 DEF ReadKey
  <2>2. QED
    BY <1>1, <2>1, EvidenceAnswered
<1>4. QED
  BY <1>2, <1>3

LEMMA EvidenceClaim ==
  ASSUME EvidenceInv, TypeInv', NEW a \in Actors, Claim(a)
  PROVE  EvidenceInv'
<1>1. UNCHANGED <<evidence, drafts, standing>>
  BY DEF Claim
<1>2. CASE Holding(loc[a].key) = {}
  <2>1. /\ pc[a] \in Onward /\ pc'[a] \in Onward
        /\ \A b \in Actors \ {a} : pc'[b] = pc[b]
    BY <1>2 DEF Claim, Goto, Onward, EvidenceInv, TypeInv, TypeOK
  <2>2. /\ loc'[a].lost = loc[a].lost
        /\ \A b \in Actors \ {a} : loc'[b] = loc[b]
    <3>1. loc \in [Actors -> Local] /\ loc[a] \in Local
      BY DEF EvidenceInv, TypeInv, TypeOK
    <3>2. loc' = [loc EXCEPT ![a].run = Len(runs) + 1]
      BY <1>2 DEF Claim
    <3>3. loc'[a] = [loc[a] EXCEPT !.run = Len(runs) + 1]
      BY <3>1, <3>2
    <3>4. loc'[a].lost = loc[a].lost
      BY <3>1, <3>3 DEF Local
    <3>5. QED
      BY <3>1, <3>2, <3>4
  <2>3. QED
    BY <1>1, <2>1, <2>2, EvidenceProceeds
<1>3. CASE Holding(loc[a].key) # {}
  <2>1. PICK r \in Holding(loc[a].key) : AnswerFrom(a, r)
    BY <1>3 DEF Claim
  <2>2. QED
    BY <1>1, <2>1, EvidenceAnswered
<1>4. QED
  BY <1>2, <1>3

LEMMA EvidenceFinish ==
  ASSUME EvidenceInv, TypeInv', NEW a \in Actors, Finish(a)
  PROVE  EvidenceInv'
<1>1. UNCHANGED <<evidence, drafts, standing>>
  BY DEF Finish
<1>2. CASE Return(a)
  BY <1>1, <1>2, EvidenceEnds
<1>3. CASE ~ Return(a)
  <2>1. Goto(a, "answer") /\ \A b \in Actors \ {a} : loc'[b] = loc[b]
    BY <1>3 DEF Finish, Exit
  <2>2. "answer" \in Unconcerned
    BY DEF Unconcerned, Onward, Steps
  <2>3. QED
    BY <1>1, <2>1, <2>2, EvidenceAside
<1>4. QED
  BY <1>2, <1>3

\* The steps that only move on, and the ones that may only end.
LEMMA EvidenceMoves ==
  ASSUME EvidenceInv, TypeInv', NEW a \in Actors,
         Admit(a) \/ Probe(a) \/ Query(a) \/ AmendCheck(a)
  PROVE  EvidenceInv'
<1>1. UNCHANGED <<evidence, drafts, standing>>
  BY DEF Admit, Probe, Query, AmendCheck, tables
<1>2. CASE Admit(a) \/ Probe(a)
  <2>1. /\ pc[a] \in Onward /\ pc'[a] \in Onward /\ UNCHANGED loc
        /\ \A b \in Actors \ {a} : pc'[b] = pc[b]
    BY <1>2 DEF Admit, Probe, Goto, Onward, EvidenceInv, TypeInv, TypeOK
  <2>2. QED
    BY <1>1, <2>1, EvidenceProceeds
<1>3. CASE Query(a)
  <2>1. Goto(a, "finish") /\ \A b \in Actors \ {a} : loc'[b] = loc[b]
    BY <1>3 DEF Query, EvidenceInv, TypeInv, TypeOK
  <2>2. "finish" \in Unconcerned
    BY DEF Unconcerned, Onward, Steps
  <2>3. QED
    BY <1>1, <2>1, <2>2, EvidenceAside
<1>4. CASE AmendCheck(a) /\ Return(a)
  BY <1>1, <1>4, EvidenceEnds
<1>5. CASE AmendCheck(a) /\ ~ Return(a)
  <2>1. Goto(a, "write") /\ UNCHANGED loc
    BY <1>5 DEF AmendCheck, Exit
  <2>2. "write" \in Unconcerned
    BY DEF Unconcerned, Onward, Steps
  <2>3. QED
    BY <1>1, <2>1, <2>2, EvidenceAside
<1>6. QED
  BY <1>2, <1>3, <1>4, <1>5

LEMMA EvidenceEndings ==
  ASSUME EvidenceInv, TypeInv', NEW a \in Actors,
         ShowProgress(a) \/ ShowNotes(a) \/ Refuse(a) \/ Answer(a) \/ Crash(a)
  PROVE  EvidenceInv'
<1>1. UNCHANGED <<evidence, drafts, standing>> /\ Rests(a)
  BY Rested DEF ShowProgress, ShowNotes, Refuse, Answer, Crash, Exit, tables
<1>2. QED
  BY <1>1, EvidenceRests

LEMMA EvidenceDating ==
  ASSUME EvidenceInv, TypeInv', NEW a \in Actors, ProbeFreshness(a)
  PROVE  EvidenceInv'
  BY DEF ProbeFreshness, EvidenceInv, LostIsSeen, tables

LEMMA EvidenceStep ==
  ASSUME EvidenceInv, TypeInv', NEW a \in Actors, Step(a)
  PROVE  EvidenceInv'
  BY EvidenceRecord, EvidenceEndings, EvidenceMoves, EvidenceWritten, EvidenceRead,
     EvidenceChecked, EvidenceSave, EvidenceLookUp, EvidenceLoad, EvidenceReadKey,
     EvidenceClaim, EvidenceFinish, EvidenceDating
  DEF Step

\* A document withdrawn is not lost to an operation that saw it stand; one
\* restored is lost no more.
LEMMA EvidenceOfChangedDoc ==
  ASSUME EvidenceInv, TypeInv', NEW doc \in Docs, ChangeDoc(doc)
  PROVE  EvidenceInv'
<1>1. UNCHANGED <<tables, pc>>
  BY DEF ChangeDoc
<1>2. ASSUME NEW a \in Actors PROVE LostIsSeen(a)'
  <2>1. loc[a] \in Local /\ LostIsSeen(a)
    BY DEF EvidenceInv, TypeInv, TypeOK
  <2>2. loc'[a] = [loc[a] EXCEPT !.lost = loc[a].lost \ standing']
    BY DEF ChangeDoc
  <2>3. /\ loc'[a].lost = loc[a].lost \ standing'
        /\ loc'[a].refs = loc[a].refs /\ loc'[a].draft = loc[a].draft
    BY <2>1, <2>2 DEF Local
  <2>4. QED
    BY <1>1, <2>1, <2>3 DEF LostIsSeen, tables
<1>3. QED
  BY <1>2 DEF EvidenceInv

LEMMA EvidenceStutter ==
  ASSUME EvidenceInv, UNCHANGED vars
  PROVE  EvidenceInv'
<1>1. TypeInv'
  BY TypeInvNext DEF EvidenceInv
<1>2. QED
  BY <1>1 DEF EvidenceInv, LostIsSeen, vars

LEMMA EvidenceNext == EvidenceInv /\ [Next]_vars => EvidenceInv'
<1> SUFFICES ASSUME EvidenceInv, [Next]_vars PROVE EvidenceInv'
  OBVIOUS
<1>1. TypeInv'
  BY TypeInvNext DEF EvidenceInv
<1>2. ASSUME NEW a \in Actors, Request(a) \/ Step(a) \/ Crash(a) PROVE EvidenceInv'
  BY <1>1, <1>2, EvidenceRequest, EvidenceStep, EvidenceEndings
<1>3. ASSUME NEW doc \in Docs, ChangeDoc(doc) PROVE EvidenceInv'
  BY <1>1, <1>3, EvidenceOfChangedDoc
<1>4. CASE UNCHANGED vars
  BY <1>4, EvidenceStutter
<1>5. QED
  BY <1>2, <1>3, <1>4 DEF Next

\* Nothing is confirmed and nothing runs on a citation withdrawn before the
\* operation began: _evidence_still_stands reads the stored citations and the
\* knowledge index at two moments, and a withdrawal may land anywhere around
\* them (service.py).
THEOREM WithdrawnEvidenceStops == Spec => []NothingProceedsOnWithdrawnEvidence
<1>1. EvidenceInv => NothingProceedsOnWithdrawnEvidence
  <2>1. Checkers \subseteq Actors
    BY WorkflowAssumption
  <2>2. QED
    BY <2>1 DEF EvidenceInv, LostIsSeen, Onward, Proceeding, NothingProceedsOnWithdrawnEvidence
<1>2. QED
  BY <1>1, EvidenceInit, EvidenceNext, PTL DEF Spec

-----------------------------------------------------------------------------
(* Amendments.  Nothing a process holds of a draft is newer than the draft:  *)
(* the version of the sheet in front of it, the version a view has read, and *)
(* the version an amendment is built on.  When that last one is still the    *)
(* draft's, so is the definition the amendment adds to; and the version the  *)
(* caller named is no newer, so the conditional UPDATE goes through only     *)
(* then.  An agent that guesses a version breaks this, and the theorem       *)
(* supposes none does.                                                       *)

SheetNotAhead(a) ==
  screen[a].offers # {}
    => /\ screen[a].draft \in DOMAIN drafts
       /\ screen[a].version <= drafts[screen[a].draft].version

ViewNotAhead(a) ==
  pc[a] = "progress" => loc[a].version <= drafts[loc[a].draft].version

BuildsOnWhatItRead(a) ==
  pc[a] \in {"check", "write"}
    => /\ loc[a].expected < loc[a].version
       /\ loc[a].version <= drafts[loc[a].draft].version + 1
       /\ loc[a].version = drafts[loc[a].draft].version + 1
            => \E added \in Amendments(a) :
                 loc[a].defn = WithRules(drafts[loc[a].draft].defn, added)

Follows(a) == SheetNotAhead(a) /\ ViewNotAhead(a) /\ BuildsOnWhatItRead(a)

AmendInv == TypeInv /\ \A a \in Actors : Follows(a)

\* A draft keeps its version with its definition, or goes to a later version.
VersionsGrow ==
  \A d \in DOMAIN drafts :
    /\ d \in DOMAIN drafts'
    /\ drafts[d].version \in Nat /\ drafts'[d].version \in Nat
    /\ \/ drafts'[d].version = drafts[d].version /\ drafts'[d].defn = drafts[d].defn
       \/ drafts'[d].version > drafts[d].version

LEMMA OthersFollow ==
  ASSUME AmendInv, TypeInv', VersionsGrow, NEW a \in Actors,
         \A b \in Actors \ {a} :
           pc'[b] = pc[b] /\ loc'[b] = loc[b] /\ screen'[b] = screen[b],
         Follows(a)'
  PROVE  AmendInv'
<1>1. ASSUME NEW b \in Actors \ {a} PROVE Follows(b)'
  <2>1. /\ Follows(b) /\ LocalFits(b)
        /\ loc[b] \in Local /\ screen[b] \in Screen
    BY DEF AmendInv, TypeInv, TypeOK
  <2>2. pc[b] \in {"progress", "check", "write"} => loc[b].draft \in DOMAIN drafts
    BY <2>1 DEF LocalFits, AtDraft, Steps
  <2>3. /\ loc[b].version \in Nat /\ loc[b].expected \in Nat /\ screen[b].version \in Nat
    BY <2>1 DEF Local, Screen
  <2>4. SheetNotAhead(b)'
    BY <2>1, <2>3 DEF Follows, SheetNotAhead, VersionsGrow
  <2>5. ViewNotAhead(b)'
    BY <2>1, <2>2, <2>3 DEF Follows, ViewNotAhead, VersionsGrow
  <2>6. BuildsOnWhatItRead(b)'
    <3>1. SUFFICES ASSUME pc[b] \in {"check", "write"}
                   PROVE  BuildsOnWhatItRead(b)'
      BY DEF BuildsOnWhatItRead
    <3> DEFINE d == loc[b].draft
    <3>2. d \in DOMAIN drafts /\ loc'[b] = loc[b]
      BY <2>2, <3>1
    <3>3. CASE drafts'[d].version = drafts[d].version /\ drafts'[d].defn = drafts[d].defn
      BY <2>1, <3>1, <3>2, <3>3 DEF Follows, BuildsOnWhatItRead
    <3>4. CASE drafts'[d].version > drafts[d].version
      BY <2>1, <2>3, <3>1, <3>2, <3>4 DEF Follows, BuildsOnWhatItRead, VersionsGrow
    <3>5. QED
      BY <3>2, <3>3, <3>4 DEF VersionsGrow
  <2>7. QED
    BY <2>4, <2>5, <2>6 DEF Follows
<1>2. QED
  BY <1>1 DEF AmendInv

LEMMA VersionsAreNumbers ==
  ASSUME AmendInv, NEW d \in DOMAIN drafts
  PROVE  drafts[d].version \in Nat /\ drafts[d].version >= 1
<1>1. drafts[d] \in Draft
  BY RowInTable DEF AmendInv, TypeInv, TypeOK
<1>2. drafts[d].version \in 1..MaxVersion
  BY <1>1 DEF Draft
<1>3. QED
  BY <1>2, WorkflowAssumption

LEMMA SameVersions ==
  ASSUME AmendInv, UNCHANGED drafts
  PROVE  VersionsGrow
  BY VersionsAreNumbers DEF VersionsGrow

\* A step that leaves the drafts alone, goes to where nothing is built or
\* viewed, and leaves the sheet or puts it away.
Resting == Steps \ {"progress", "check", "write"}

Quietly(a) ==
  /\ UNCHANGED drafts
  /\ \E step \in Resting : Goto(a, step)
  /\ \A b \in Actors \ {a} : loc'[b] = loc[b]
  /\ \/ UNCHANGED screen
     \/ screen' = [screen EXCEPT ![a] = NoScreen]

LEMMA QuietlyFollows ==
  ASSUME AmendInv, TypeInv', NEW a \in Actors, Quietly(a)
  PROVE  AmendInv'
<1>1. /\ pc \in [Actors -> Steps] /\ screen \in [Actors -> Screen] /\ Follows(a)
  BY DEF AmendInv, TypeInv, TypeOK
<1>2. /\ pc'[a] \notin {"progress", "check", "write"}
      /\ \A b \in Actors \ {a} : pc'[b] = pc[b]
  BY <1>1 DEF Quietly, Resting, Goto
<1>3. /\ screen'[a] \in {screen[a], NoScreen}
      /\ \A b \in Actors \ {a} : screen'[b] = screen[b]
  BY <1>1 DEF Quietly
<1>4. SheetNotAhead(a)'
  BY <1>1, <1>3 DEF Follows, SheetNotAhead, NoScreen, Quietly
<1>5. Follows(a)'
  BY <1>2, <1>4 DEF Follows, ViewNotAhead, BuildsOnWhatItRead
<1>6. QED
  BY <1>2, <1>3, <1>5, SameVersions, OthersFollow DEF Quietly

LEMMA ReturnsQuietly ==
  ASSUME TypeInv, NEW a \in Actors, UNCHANGED drafts, Return(a),
         \/ UNCHANGED screen
         \/ screen' = [screen EXCEPT ![a] = NoScreen]
         \/ screen' = ScreenAfterExit(a)
  PROVE  Quietly(a)
<1>1. "idle" \in Resting
  BY DEF Resting, Steps
<1>2. \A b \in Actors \ {a} : loc'[b] = loc[b]
  BY LocalsOfOthers DEF Return
<1>3. screen' = screen \/ screen' = [screen EXCEPT ![a] = NoScreen]
  BY DEF ScreenAfterExit
<1>4. QED
  BY <1>1, <1>2, <1>3 DEF Quietly, Return

LEMMA GoesQuietly ==
  ASSUME TypeInv, NEW a \in Actors, UNCHANGED <<drafts, screen>>,
         NEW step \in Resting, Goto(a, step), \A b \in Actors \ {a} : loc'[b] = loc[b]
  PROVE  Quietly(a)
  BY DEF Quietly

\* The sheet a process goes on with once prepare has returned.
LEMMA FollowSheet ==
  ASSUME AmendInv, TypeInv', NEW a \in Actors, VersionsGrow,
         NEW d \in DOMAIN drafts', NEW version, NEW defn,
         version <= drafts'[d].version,
         Rests(a), screen' = [screen EXCEPT ![a] = Sheet(a, d, version, defn)]
  PROVE  AmendInv'
<1>1. /\ pc \in [Actors -> Steps] /\ screen \in [Actors -> Screen] /\ loc \in [Actors -> Local]
  BY DEF AmendInv, TypeInv, TypeOK
<1>2. /\ pc'[a] \in {"idle", "advise"} /\ screen'[a] = Sheet(a, d, version, defn)
      /\ \A b \in Actors \ {a} :
           pc'[b] = pc[b] /\ loc'[b] = loc[b] /\ screen'[b] = screen[b]
  BY <1>1 DEF Rests, Moves
<1>3. screen'[a].draft = d /\ screen'[a].version = version
  BY <1>2 DEF Sheet
<1>4. Follows(a)'
  BY <1>2, <1>3 DEF Follows, SheetNotAhead, ViewNotAhead, BuildsOnWhatItRead
<1>5. QED
  BY <1>2, <1>4, OthersFollow

\* The steps that carry nothing of a draft's content.
LEMMA FollowElsewhere ==
  ASSUME AmendInv, TypeInv', NEW a \in Actors,
         \/ Refuse(a) \/ Answer(a) \/ Crash(a) \/ ShowNotes(a) \/ Finish(a)
         \/ ReadEvidence(a) \/ CheckRefs(a) \/ SaveConfirmation(a)
         \/ LookUp(a) \/ Load(a) \/ ReadKey(a) \/ Admit(a) \/ Claim(a)
         \/ Probe(a) \/ Query(a) \/ Confirm(a)
         \/ \E d \in DOMAIN drafts : ExecuteConfirmed(a, d)
  PROVE  AmendInv'
<1>1. TypeInv /\ pc \in [Actors -> Steps] /\ loc \in [Actors -> Local]
  BY DEF AmendInv, TypeInv, TypeOK
<1>2. \A step \in {"expire", "refs", "save", "key", "load", "admit", "claim", "probe",
                   "query", "finish", "answer", "evidence", "lookup"} : step \in Resting
  BY DEF Resting, Steps
<1>3. CASE Refuse(a) \/ Answer(a) \/ Crash(a) \/ ShowNotes(a)
  BY <1>1, <1>3, ReturnsQuietly, QuietlyFollows
  DEF Refuse, Answer, Crash, ShowNotes, Exit, tables
<1>4. CASE Finish(a)
  BY <1>1, <1>2, <1>4, ReturnsQuietly, GoesQuietly, QuietlyFollows DEF Finish, Exit
<1>5. CASE ReadEvidence(a)
  BY <1>1, <1>2, <1>5, GoesQuietly, QuietlyFollows DEF ReadEvidence, AfterEvidence, tables
<1>6. CASE CheckRefs(a)
  BY <1>1, <1>2, <1>6, GoesQuietly, QuietlyFollows DEF CheckRefs, AfterEvidence, tables
<1>7. CASE SaveConfirmation(a)
  BY <1>1, <1>2, <1>7, ReturnsQuietly, GoesQuietly, QuietlyFollows
  DEF SaveConfirmation, Exit
<1>8. CASE LookUp(a)
  BY <1>1, <1>2, <1>8, ReturnsQuietly, GoesQuietly, QuietlyFollows
  DEF LookUp, Exit, tables
<1>9. CASE Load(a)
  BY <1>1, <1>2, <1>9, ReturnsQuietly, GoesQuietly, QuietlyFollows
  DEF Load, Exit, tables
<1>10. ASSUME NEW r, AnswerFrom(a, r), UNCHANGED drafts PROVE AmendInv'
  BY <1>1, <1>2, <1>10, ReturnsQuietly, GoesQuietly, QuietlyFollows
  DEF AnswerFrom, Exit
<1>11. CASE ReadKey(a)
  BY <1>1, <1>2, <1>10, <1>11, GoesQuietly, QuietlyFollows DEF ReadKey, tables
<1>12. CASE Claim(a)
  BY <1>1, <1>2, <1>10, <1>12, GoesQuietly, QuietlyFollows DEF Claim
<1>13. CASE Admit(a) \/ Probe(a) \/ Query(a)
  BY <1>1, <1>2, <1>13, GoesQuietly, QuietlyFollows DEF Admit, Probe, Query, tables
<1>14. CASE Confirm(a)
  BY <1>1, <1>2, <1>14, ReturnsQuietly, GoesQuietly, QuietlyFollows
  DEF Confirm, Exit, tables
<1>15. CASE \E d \in DOMAIN drafts : ExecuteConfirmed(a, d)
  BY <1>1, <1>2, <1>15, GoesQuietly, QuietlyFollows DEF ExecuteConfirmed, tables
<1>16. QED
  BY <1>3, <1>4, <1>5, <1>6, <1>7, <1>8, <1>9, <1>11, <1>12, <1>13, <1>14, <1>15

LEMMA FollowPrepare ==
  ASSUME AmendInv, TypeInv', NEW a \in Actors, NEW defn \in Built,
         NEW cites \in SUBSET Docs, Prepare(a, defn, cites)
  PROVE  AmendInv'
<1> DEFINE d == Len(drafts) + 1
<1>1. /\ drafts \in Seq(Draft) /\ pc \in [Actors -> Steps] /\ loc \in [Actors -> Local]
      /\ Follows(a)
  BY DEF AmendInv, TypeInv, TypeOK
<1>2. PICK row : drafts' = Append(drafts, row) /\ row.version = 1
  BY DEF Prepare
<1>3. /\ d \in DOMAIN drafts' /\ drafts'[d].version = 1
      /\ \A e \in DOMAIN drafts : e \in DOMAIN drafts' /\ drafts'[e] = drafts[e]
  BY <1>1, <1>2
<1>4. VersionsGrow
  BY <1>3, VersionsAreNumbers DEF VersionsGrow
<1>5. CASE cites = {}
  <2>1. Rests(a) /\ screen' = [screen EXCEPT ![a] = Sheet(a, d, 1, defn)]
    BY <1>5, Rested DEF Prepare
  <2>2. 1 <= drafts'[d].version
    BY <1>3
  <2>3. QED
    BY <1>3, <1>4, <2>1, <2>2, FollowSheet
<1>6. CASE cites # {}
  <2>1. /\ pc'[a] = "record" /\ UNCHANGED screen
        /\ \A b \in Actors \ {a} : pc'[b] = pc[b] /\ loc'[b] = loc[b]
    BY <1>1, <1>6 DEF Prepare, Goto
  <2>2. SheetNotAhead(a)'
    BY <1>1, <1>3, <2>1 DEF Follows, SheetNotAhead
  <2>3. Follows(a)'
    BY <2>1, <2>2 DEF Follows, ViewNotAhead, BuildsOnWhatItRead
  <2>4. QED
    BY <1>4, <2>1, <2>3, OthersFollow
<1>7. QED
  BY <1>5, <1>6

LEMMA FollowRecord ==
  ASSUME AmendInv, TypeInv', NEW a \in Actors, NEW doc \in Docs, RecordCitation(a, doc)
  PROVE  AmendInv'
<1> DEFINE d == loc[a].draft
<1>1. TypeInv /\ pc \in [Actors -> Steps] /\ loc \in [Actors -> Local]
  BY DEF AmendInv, TypeInv, TypeOK
<1>2. pc[a] = "record" /\ UNCHANGED drafts /\ d \in DOMAIN drafts
  BY <1>1 DEF RecordCitation, TypeInv, LocalFits, AtDraft, Steps
<1>3. CASE loc[a].refs = {doc}
  <2>1. Rests(a) /\ screen' = [screen EXCEPT ![a] = Sheet(a, d, 1, loc[a].defn)]
    BY <1>3, Rested DEF RecordCitation
  <2>2. 1 <= drafts'[d].version /\ d \in DOMAIN drafts'
    BY <1>2, VersionsAreNumbers
  <2>3. QED
    BY <1>2, <2>1, <2>2, SameVersions, FollowSheet
<1>4. CASE loc[a].refs # {doc}
  <2>1. UNCHANGED <<pc, screen>> /\ \A b \in Actors \ {a} : loc'[b] = loc[b]
    BY <1>1, <1>4 DEF RecordCitation
  <2>2. Goto(a, "record") /\ "record" \in Resting
    BY <1>1, <1>2, <2>1 DEF Goto, Resting, Steps
  <2>3. QED
    BY <1>1, <1>2, <2>1, <2>2, GoesQuietly, QuietlyFollows
<1>5. QED
  BY <1>3, <1>4

LEMMA FollowView ==
  ASSUME AmendInv, TypeInv', NEW a \in Actors, NEW d \in DOMAIN drafts, View(a, d)
  PROVE  AmendInv'
<1> DEFINE l == OnDraft(d, drafts[d].version, drafts[d].defn)
<1>1. pc \in [Actors -> Steps] /\ loc \in [Actors -> Local] /\ Follows(a)
  BY DEF AmendInv, TypeInv, TypeOK
<1>2. /\ UNCHANGED <<drafts, screen>> /\ pc'[a] = "progress" /\ loc'[a] = l
      /\ \A b \in Actors \ {a} : pc'[b] = pc[b] /\ loc'[b] = loc[b]
  BY <1>1 DEF View, Goto, tables
<1>3. l.draft = d /\ l.version = drafts[d].version
  BY DEF OnDraft
<1>4. drafts[d].version \in Nat
  BY <1>2, SameVersions DEF VersionsGrow
<1>5. ViewNotAhead(a)'
  BY <1>2, <1>3, <1>4 DEF ViewNotAhead
<1>6. Follows(a)'
  BY <1>1, <1>2, <1>5 DEF Follows, SheetNotAhead, BuildsOnWhatItRead
<1>7. QED
  BY <1>2, <1>6, SameVersions, OthersFollow

LEMMA FollowShow ==
  ASSUME AmendInv, TypeInv', NEW a \in Actors, ShowProgress(a)
  PROVE  AmendInv'
<1> DEFINE d == loc[a].draft
           offers == Offers(a, Progress(d), loc[a].defn)
           sheet == [draft |-> d, version |-> loc[a].version,
                     defn |-> loc[a].defn, offers |-> offers]
<1>1. /\ TypeInv /\ pc \in [Actors -> Steps] /\ screen \in [Actors -> Screen]
      /\ loc \in [Actors -> Local] /\ Follows(a)
  BY DEF AmendInv, TypeInv, TypeOK
<1>2. UNCHANGED drafts /\ Rests(a) /\ pc[a] = "progress"
  BY Rested DEF ShowProgress, Exit, tables
<1>3. d \in DOMAIN drafts
  BY <1>1, <1>2 DEF TypeInv, LocalFits, AtDraft, Steps
<1>4. loc[a].version <= drafts[d].version
  BY <1>1, <1>2 DEF Follows, ViewNotAhead
<1>5. /\ screen'[a] \in {NoScreen, sheet} /\ pc'[a] \in {"idle", "advise"}
      /\ \A b \in Actors \ {a} :
           pc'[b] = pc[b] /\ loc'[b] = loc[b] /\ screen'[b] = screen[b]
  <2>1. screen' = [screen EXCEPT ![a] = NoScreen] \/ screen' = [screen EXCEPT ![a] = sheet]
    BY DEF ShowProgress, Exit, ScreenAfterExit
  <2> HIDE DEF sheet
  <2>2. QED
    BY <1>1, <1>2, <2>1 DEF Rests, Moves
<1>6. SheetNotAhead(a)'
  <2>1. CASE screen'[a] = NoScreen
    BY <2>1 DEF SheetNotAhead, NoScreen
  <2>2. CASE screen'[a] = sheet
    <3>1. screen'[a].draft = d /\ screen'[a].version = loc[a].version
      BY <2>2
    <3>2. QED
      BY <1>2, <1>3, <1>4, <3>1 DEF SheetNotAhead
  <2>3. QED
    BY <1>5, <2>1, <2>2
<1>7. Follows(a)'
  BY <1>5, <1>6 DEF Follows, ViewNotAhead, BuildsOnWhatItRead
<1>8. QED
  BY <1>2, <1>5, <1>7, SameVersions, OthersFollow

LEMMA FollowAmend ==
  ASSUME ~ Guessing, AmendInv, TypeInv', NEW a \in Actors, NEW added \in Amendments(a),
         NEW expected \in 1..MaxVersion, Amend(a, added, expected)
  PROVE  AmendInv'
<1> DEFINE d == screen[a].draft
           l == [OnDraft(d, drafts[d].version + 1, WithRules(drafts[d].defn, added))
                   EXCEPT !.expected = expected]
<1>1. pc \in [Actors -> Steps] /\ loc \in [Actors -> Local] /\ Follows(a)
  BY DEF AmendInv, TypeInv, TypeOK
<1>2. /\ UNCHANGED <<drafts, screen>> /\ pc'[a] = "check" /\ loc'[a] = l
      /\ \A b \in Actors \ {a} : pc'[b] = pc[b] /\ loc'[b] = loc[b]
  BY <1>1 DEF Amend, Goto, tables
<1>3. /\ l.draft = d /\ l.version = drafts[d].version + 1 /\ l.expected = expected
      /\ l.defn = WithRules(drafts[d].defn, added)
  BY DEF OnDraft
<1>4. /\ d \in DOMAIN drafts /\ expected = screen[a].version
      /\ screen[a].version <= drafts[d].version
  BY <1>1 DEF Amend, Follows, SheetNotAhead
<1>5. drafts[d].version \in Nat /\ expected \in Nat
  <2>1. drafts[d].version \in Nat
    BY <1>2, <1>4, SameVersions DEF VersionsGrow
  <2>2. QED
    BY <2>1, WorkflowAssumption
<1>6. BuildsOnWhatItRead(a)'
  <2>1. /\ loc'[a].draft = d /\ loc'[a].expected = expected
        /\ loc'[a].version = drafts[d].version + 1
        /\ loc'[a].defn = WithRules(drafts[d].defn, added)
    BY <1>2, <1>3
  <2>2. drafts' = drafts
    BY <1>2
  <2>3. loc'[a].expected < loc'[a].version
    BY <1>4, <1>5, <2>1
  <2>4. loc'[a].version <= drafts'[loc'[a].draft].version + 1
    BY <1>5, <2>1, <2>2
  <2>5. \E plus \in Amendments(a) :
          loc'[a].defn = WithRules(drafts'[loc'[a].draft].defn, plus)
    BY <2>1, <2>2
  <2>6. QED
    BY <2>3, <2>4, <2>5 DEF BuildsOnWhatItRead
<1>7. Follows(a)'
  BY <1>1, <1>2, <1>6 DEF Follows, SheetNotAhead, ViewNotAhead
<1>8. QED
  BY <1>2, <1>7, SameVersions, OthersFollow

LEMMA FollowCheck ==
  ASSUME AmendInv, TypeInv', NEW a \in Actors, AmendCheck(a)
  PROVE  AmendInv'
<1>1. /\ TypeInv /\ pc \in [Actors -> Steps] /\ loc \in [Actors -> Local] /\ Follows(a)
  BY DEF AmendInv, TypeInv, TypeOK
<1>2. UNCHANGED drafts /\ pc[a] = "check"
  BY DEF AmendCheck, tables
<1>3. CASE Goto(a, "write") /\ UNCHANGED <<loc, screen>>
  <2>1. pc'[a] = "write" /\ \A b \in Actors \ {a} : pc'[b] = pc[b]
    BY <1>1, <1>3 DEF Goto
  <2>2. BuildsOnWhatItRead(a)'
    BY <1>1, <1>2, <1>3, <2>1 DEF Follows, BuildsOnWhatItRead
  <2>3. Follows(a)'
    BY <1>1, <1>2, <1>3, <2>1, <2>2 DEF Follows, SheetNotAhead, ViewNotAhead
  <2>4. QED
    BY <1>2, <1>3, <2>1, <2>3, SameVersions, OthersFollow
<1>4. CASE Exit(a)
  BY <1>1, <1>2, <1>4, ReturnsQuietly, QuietlyFollows DEF Exit
<1>5. QED
  BY <1>3, <1>4 DEF AmendCheck

\* The methods' ends, when the draft may have changed as well.
LEMMA FollowEnd ==
  ASSUME AmendInv, TypeInv', VersionsGrow, NEW a \in Actors, Return(a),
         \/ screen' = ScreenAfterExit(a)
         \/ screen' = [screen EXCEPT ![a] = NoScreen]
  PROVE  AmendInv'
<1>1. /\ pc \in [Actors -> Steps] /\ screen \in [Actors -> Screen]
      /\ loc \in [Actors -> Local] /\ Follows(a)
  BY DEF AmendInv, TypeInv, TypeOK
<1>2. /\ pc'[a] = "idle" /\ screen'[a] \in {screen[a], NoScreen}
      /\ \A b \in Actors \ {a} :
           pc'[b] = pc[b] /\ loc'[b] = loc[b] /\ screen'[b] = screen[b]
  BY <1>1 DEF Return, Goto, ScreenAfterExit
<1>3. SheetNotAhead(a)'
  <2>1. CASE screen'[a] = NoScreen
    BY <2>1 DEF SheetNotAhead, NoScreen
  <2>2. CASE screen'[a] = screen[a]
    <3>1. screen[a].version \in Nat
      BY <1>1 DEF Screen
    <3>2. QED
      BY <1>1, <2>2, <3>1 DEF Follows, SheetNotAhead, VersionsGrow
  <2>3. QED
    BY <1>2, <2>1, <2>2
<1>4. Follows(a)'
  BY <1>2, <1>3 DEF Follows, ViewNotAhead, BuildsOnWhatItRead
<1>5. QED
  BY <1>2, <1>4, OthersFollow

\* The UPDATE goes through only on the draft the amendment was built on.
LEMMA WrittenOnWhatWasRead ==
  ASSUME AmendInv, NEW a \in Actors, AmendWrite(a),
         drafts[loc[a].draft].version = loc[a].expected
  PROVE  LET d == loc[a].draft IN
         /\ d \in DOMAIN drafts /\ DOMAIN drafts' = DOMAIN drafts
         /\ \A e \in DOMAIN drafts \ {d} : drafts'[e] = drafts[e]
         /\ drafts'[d].version = loc[a].version /\ drafts'[d].defn = loc[a].defn
         /\ loc[a].version = drafts[d].version + 1
         /\ \E added \in Amendments(a) : drafts'[d].defn = WithRules(drafts[d].defn, added)
<1> DEFINE d == loc[a].draft
<1>1. /\ drafts \in Seq(Draft) /\ loc[a] \in Local /\ LocalFits(a) /\ Follows(a)
  BY DEF AmendInv, TypeInv, TypeOK
<1>2. d \in DOMAIN drafts
  BY <1>1 DEF AmendWrite, LocalFits, AtDraft, Steps
<1>3. drafts' = [drafts EXCEPT ![d] = Amended(drafts[d], loc[a].version, loc[a].defn)]
  BY DEF AmendWrite
<1>4. /\ DOMAIN drafts' = DOMAIN drafts
      /\ \A e \in DOMAIN drafts \ {d} : drafts'[e] = drafts[e]
      /\ drafts'[d].version = loc[a].version /\ drafts'[d].defn = loc[a].defn
  BY <1>1, <1>2, <1>3 DEF Amended
<1>5. /\ loc[a].expected < loc[a].version /\ loc[a].version <= drafts[d].version + 1
      /\ loc[a].version = drafts[d].version + 1
           => \E added \in Amendments(a) : loc[a].defn = WithRules(drafts[d].defn, added)
  BY <1>1 DEF AmendWrite, Follows, BuildsOnWhatItRead
<1>6. loc[a].version \in Nat /\ loc[a].expected \in Nat
  BY <1>1 DEF Local
<1>7. loc[a].version = drafts[d].version + 1
  BY <1>5, <1>6
<1>8. QED
  BY <1>2, <1>4, <1>5, <1>7

LEMMA FollowWrite ==
  ASSUME AmendInv, TypeInv', NEW a \in Actors, AmendWrite(a)
  PROVE  AmendInv'
<1> DEFINE d == loc[a].draft
<1>1. CASE drafts[d].version = loc[a].expected
  <2>1. /\ d \in DOMAIN drafts /\ DOMAIN drafts' = DOMAIN drafts
        /\ \A e \in DOMAIN drafts \ {d} : drafts'[e] = drafts[e]
        /\ drafts'[d].version = loc[a].version
        /\ loc[a].version = drafts[d].version + 1
    BY <1>1, WrittenOnWhatWasRead
  <2>2. \A e \in DOMAIN drafts : drafts[e].version \in Nat
    BY VersionsAreNumbers
  <2>3. VersionsGrow
    BY <2>1, <2>2 DEF VersionsGrow
  <2>4. /\ Rests(a)
        /\ a \in Pages => Return(a)
        /\ screen' = [screen EXCEPT ![a] =
             IF a \in Pages THEN NoScreen ELSE Sheet(a, d, loc[a].version, loc[a].defn)]
    BY <1>1, Rested DEF AmendWrite
  <2>5. CASE a \in Pages
    BY <2>3, <2>4, <2>5, FollowEnd
  <2>6. CASE a \notin Pages
    <3>1. loc[a].version <= drafts'[d].version
      BY <2>1, <2>2
    <3>2. QED
      BY <2>1, <2>3, <2>4, <2>6, <3>1, FollowSheet
  <2>7. QED
    BY <2>5, <2>6
<1>2. CASE drafts[d].version # loc[a].expected
  <2>1. Exit(a) /\ UNCHANGED drafts
    BY <1>2 DEF AmendWrite
  <2>2. QED
    BY <2>1, SameVersions, FollowEnd DEF Exit
<1>3. QED
  BY <1>1, <1>2

LEMMA ExpireKeepsContent ==
  ASSUME AmendInv, NEW a \in Actors, Expire(a)
  PROVE  /\ DOMAIN drafts' = DOMAIN drafts
         /\ \A e \in DOMAIN drafts : drafts'[e].version = drafts[e].version
                                     /\ drafts'[e].defn = drafts[e].defn
<1> DEFINE d == loc[a].draft
<1>1. drafts \in Seq(Draft)
  BY DEF AmendInv, TypeInv, TypeOK
<1>2. drafts' = [drafts EXCEPT ![d] = [drafts[d] EXCEPT !.status = "expired"]]
  BY DEF Expire
<1>3. /\ DOMAIN drafts' = DOMAIN drafts
      /\ \A e \in DOMAIN drafts :
           drafts'[e] = drafts[e] \/ drafts'[e] = [drafts[e] EXCEPT !.status = "expired"]
  BY <1>1, <1>2
<1>4. \A e \in DOMAIN drafts : drafts[e] \in Draft
  BY <1>1, RowInTable
<1>5. QED
  BY <1>3, <1>4 DEF Draft

LEMMA FollowExpire ==
  ASSUME AmendInv, TypeInv', NEW a \in Actors, Expire(a)
  PROVE  AmendInv'
<1>1. VersionsGrow
  BY VersionsAreNumbers, ExpireKeepsContent DEF VersionsGrow
<1>2. QED
  BY <1>1, FollowEnd DEF Expire, Exit

LEMMA FollowChangeDoc ==
  ASSUME AmendInv, TypeInv', NEW doc \in Docs, ChangeDoc(doc)
  PROVE  AmendInv'
<1>1. ASSUME NEW a \in Actors PROVE Follows(a)'
  <2>1. loc[a] \in Local /\ Follows(a)
    BY DEF AmendInv, TypeInv, TypeOK
  <2>2. loc'[a] = [loc[a] EXCEPT !.lost = loc[a].lost \ standing']
    BY DEF ChangeDoc
  <2>3. /\ loc'[a].draft = loc[a].draft /\ loc'[a].version = loc[a].version
        /\ loc'[a].expected = loc[a].expected /\ loc'[a].defn = loc[a].defn
    BY <2>1, <2>2 DEF Local
  <2>4. UNCHANGED <<drafts, pc, screen>>
    BY DEF ChangeDoc, tables
  <2>5. QED
    BY <2>1, <2>3, <2>4
    DEF Follows, SheetNotAhead, ViewNotAhead, BuildsOnWhatItRead
<1>2. QED
  BY <1>1 DEF AmendInv

LEMMA FollowDating ==
  ASSUME AmendInv, TypeInv', NEW a \in Actors, ProbeFreshness(a)
  PROVE  AmendInv'
  BY DEF ProbeFreshness, AmendInv, Follows, SheetNotAhead, ViewNotAhead,
         BuildsOnWhatItRead, tables

LEMMA AmendInit == Init => AmendInv
  BY TypeInvInit
  DEF Init, AmendInv, Follows, SheetNotAhead, ViewNotAhead, BuildsOnWhatItRead, NoScreen

LEMMA AmendNext ==
  ASSUME ~ Guessing
  PROVE  AmendInv /\ [Next]_vars => AmendInv'
<1> SUFFICES ASSUME AmendInv, [Next]_vars PROVE AmendInv'
  OBVIOUS
<1>1. TypeInv'
  BY TypeInvNext DEF AmendInv
<1>2. ASSUME NEW a \in Actors, Request(a) PROVE AmendInv'
  BY <1>1, <1>2, FollowPrepare, FollowView, FollowAmend, FollowElsewhere DEF Request
<1>3. ASSUME NEW a \in Actors, Step(a) PROVE AmendInv'
  BY <1>1, <1>3, FollowRecord, FollowShow, FollowCheck, FollowWrite, FollowExpire,
     FollowDating, FollowElsewhere
  DEF Step
<1>4. ASSUME NEW a \in Actors, Crash(a) PROVE AmendInv'
  BY <1>1, <1>4, FollowElsewhere
<1>5. ASSUME NEW doc \in Docs, ChangeDoc(doc) PROVE AmendInv'
  BY <1>1, <1>5, FollowChangeDoc
<1>6. CASE UNCHANGED vars
  BY <1>1, <1>6
  DEF vars, AmendInv, Follows, SheetNotAhead, ViewNotAhead, BuildsOnWhatItRead
<1>7. QED
  BY <1>2, <1>3, <1>4, <1>5, <1>6 DEF Next

\* What one step may do to the content of a draft.
Builds ==
  \A d \in DOMAIN drafts :
    <<drafts'[d].version, drafts'[d].defn>> # <<drafts[d].version, drafts[d].defn>>
    => /\ drafts'[d].version = drafts[d].version + 1
       /\ \E a \in Actors : \E added \in Amendments(a) :
            drafts'[d].defn = WithRules(drafts[d].defn, added)

LEMMA StepsBuild == AmendInv /\ [Next]_vars => [Builds]_drafts
<1> SUFFICES ASSUME AmendInv, [Next]_vars PROVE [Builds]_drafts
  OBVIOUS
<1>1. ASSUME NEW a \in Actors, AmendWrite(a) PROVE [Builds]_drafts
  <2>1. CASE drafts[loc[a].draft].version = loc[a].expected
    BY <1>1, <2>1, WrittenOnWhatWasRead DEF Builds
  <2>2. CASE drafts[loc[a].draft].version # loc[a].expected
    BY <1>1, <2>2 DEF AmendWrite
  <2>3. QED
    BY <2>1, <2>2
<1>2. ASSUME NEW a \in Actors, Expire(a) PROVE [Builds]_drafts
  BY <1>2, ExpireKeepsContent DEF Builds
<1>3. ASSUME NEW a \in Actors, NEW defn \in Built, NEW cites \in SUBSET Docs,
             Prepare(a, defn, cites)
      PROVE  [Builds]_drafts
  <2>1. drafts \in Seq(Draft)
    BY DEF AmendInv, TypeInv, TypeOK
  <2>2. PICK row : drafts' = Append(drafts, row)
    BY <1>3 DEF Prepare
  <2>3. \A e \in DOMAIN drafts : drafts'[e] = drafts[e]
    BY <2>1, <2>2
  <2>4. QED
    BY <2>3 DEF Builds
<1>4. ASSUME NEW a \in Actors, Request(a) \/ Step(a) \/ Crash(a) PROVE [Builds]_drafts
  BY <1>1, <1>2, <1>3, <1>4
  DEF Request, Step, tables, View, Amend, Confirm, ExecuteConfirmed, RecordCitation,
      ShowProgress, ProbeFreshness, ShowNotes, AmendCheck, ReadEvidence, CheckRefs,
      SaveConfirmation, LookUp, Load,
      ReadKey, Admit, Refuse, Claim, Probe, Query, Finish, Answer, Crash
<1>5. QED
  BY <1>4 DEF Next, ChangeDoc, tables, vars

\* No amendment is lost: a stored definition is only replaced by one built on
\* it, under the next version number, as long as every caller names a version
\* it was shown (service.py amend, store.py update_draft).
THEOREM AmendmentsAreKept ==
  ASSUME ~ Guessing
  PROVE  Spec => AmendmentsBuildOnEachOther
<1>1. AmendInv /\ [Next]_vars => AmendInv'
  BY AmendNext
<1>2. QED
  BY <1>1, AmendInit, StepsBuild, PTL DEF Spec, AmendmentsBuildOnEachOther, Builds
=============================================================================
