------------------------------ MODULE Workflow ------------------------------
(***************************************************************************)
(* The confirmation-gated query workflow: QueryWorkflow over the SQLite    *)
(* state file, driven through four doors that are separate processes.      *)
(*                                                                         *)
(*   Flows       `queryagent flow`      a person: prepare, confirm, run    *)
(*   Confirmers  `queryagent confirm`   a person: review one draft         *)
(*   Pages       `queryagent web`       a person: the confirmation page    *)
(*   Agents      `queryagent mcp`       an agent: prepare, amend, execute  *)
(*                                                                         *)
(* Every store method is one or more autocommitted statements, and no      *)
(* service method holds a transaction, so the processes interleave between *)
(* any two store calls: one action below is one such call together with    *)
(* the local work up to the next one.  pc[a] names the store call process  *)
(* a makes next and loc[a] holds the local variables of its method.        *)
(*                                                                         *)
(* A table that is only inserted into is a sequence in commit order: the   *)
(* index stands for the uuid primary key, and "newest" is the largest      *)
(* index.  A definition's SHA-256 hash is taken to be injective, so hashes *)
(* are compared by comparing definitions.                                  *)
(***************************************************************************)
EXTENDS Integers, Sequences, FiniteSets

CONSTANTS
  Subjects,       \* people; a row belongs to one of them
  Workspaces,     \* a draft is prepared in one, from that one's documents
  RuleKeys,       \* the rules a definition may leave open
  Values,         \* the values a rule may take
  Docs,           \* citable document chunks
  Flows, Confirmers, Pages, Agents,   \* the processes, by door
  SubjectOf,      \* the person each process was started for
  WorkspaceOf,    \* and the workspace
  Checkers,       \* the processes whose configuration has a knowledge index
  Probing,        \* TRUE: workflow.freshness_before_confirm is "probe"
  Guessing,       \* TRUE: an agent may pass an expected_version it never saw
  MaxDrafts, MaxVersion, MaxConfs,   \* bounds on the growing tables
  MaxAdvisories,  \* how many statements are sent for sheets
  MaxCrashes,     \* how many times a process may die part-way
  MaxDocChanges   \* how many times a document is withdrawn or restored

Humans == Flows \cup Confirmers \cup Pages
Actors == Humans \cup Agents

ASSUME WorkflowAssumption ==
  /\ Humans \cap Agents = {}
  /\ SubjectOf \in [Actors -> Subjects]
  /\ WorkspaceOf \in [Actors -> Workspaces]
  /\ Checkers \subseteq Actors
  /\ Probing \in BOOLEAN /\ Guessing \in BOOLEAN
  /\ MaxDrafts \in Nat /\ MaxVersion \in Nat \ {0} /\ MaxConfs \in Nat
  /\ MaxAdvisories \in Nat
  /\ MaxCrashes \in Nat /\ MaxDocChanges \in Nat

-----------------------------------------------------------------------------
(* Definitions, rows and local state. *)

Sources == {"missing", "built", "user", "agent"}
Rule == [value : Values \cup {"none"}, source : Sources]
Missing == [value |-> "none", source |-> "missing"]
Definition == [RuleKeys -> Rule]
OpenDefinition == [k \in RuleKeys |-> Missing]

\* BusinessDefinition.is_complete and .with_rules.
IsComplete(defn) == \A k \in RuleKeys : defn[k] # Missing
WithRules(defn, added) ==
  [k \in RuleKeys |-> IF k \in DOMAIN added THEN added[k] ELSE defn[k]]

\* The provenance of a rule this caller supplies (ActorContext).
AuthoringSource(a) == IF a \in Humans THEN "user" ELSE "agent"

\* What one caller may supply in one amendment: some rules, all of its own.
Amendments(a) ==
  UNION {[ks -> [value : Values, source : {AuthoringSource(a)}]] :
           ks \in SUBSET RuleKeys \ {{}}}

StatusOf(defn) ==
  IF IsComplete(defn) THEN "awaiting_confirmation" ELSE "needs_input"

Draft == [subject : Subjects, workspace : Workspaces, version : 1..MaxVersion,
          defn : Definition, status : {"needs_input", "awaiting_confirmation", "expired"},
          cites : SUBSET Docs]
Confirmation == [draft : Nat, version : Nat, defn : Definition,
                 subject : Subjects, by : Actors]
Key == [kind : {"request", "confirmation"}, id : Nat]
NoKey == [kind |-> "request", id |-> 0]
Run == [key : Key, draft : Nat, conf : Nat, subject : Subjects,
        status : {"executing", "succeeded", "failed"}, defn : Definition]
Statement == [run : Nat, kind : {"advisory", "probe", "query"}, defn : Definition]

\* A sheet's own statement is for no run: the MAX() of one table's time column,
\* which asks for nothing a definition says.
Advisory == [run |-> 0, kind |-> "advisory", defn |-> OpenDefinition]

\* What a process has in front of it: the sheet last shown, and the forms on it.
Screen == [draft : Nat, version : Nat, defn : Definition,
           offers : SUBSET {"confirm", "amend"}]
NoScreen == [draft |-> 0, version |-> 0, defn |-> OpenDefinition, offers |-> {}]

Steps == {"idle", "record", "progress", "advise", "check", "write", "evidence", "refs",
          "expire", "save", "lookup", "load", "key", "admit", "claim",
          "probe", "query", "finish", "answer"}

Local == [draft : Nat, version : Nat, expected : Nat, defn : Definition,
          refs : SUBSET Docs, lost : SUBSET Docs, conf : Nat, key : Key,
          run : Nat, op : {"none", "confirm", "execute"},
          outcome : {"executing", "succeeded", "failed"}]

\* The local state of a method working on a draft, of one going to execute a
\* confirmation under a key, and of no method at all.
OnDraft(d, version, defn) ==
  [draft |-> d, version |-> version, expected |-> 0, defn |-> defn,
   refs |-> {}, lost |-> {}, conf |-> 0, key |-> NoKey,
   run |-> 0, op |-> "none", outcome |-> "executing"]
ToExecute(c, key) ==
  [draft |-> 0, version |-> 0, expected |-> 0, defn |-> OpenDefinition,
   refs |-> {}, lost |-> {}, conf |-> c, key |-> key,
   run |-> 0, op |-> "none", outcome |-> "executing"]
Blank == OnDraft(0, 0, OpenDefinition)

-----------------------------------------------------------------------------

VARIABLES
  drafts,      \* table drafts
  evidence,    \* table draft_evidence: the citations stored for each draft
  confs,       \* table confirmations
  runs,        \* table runs
  standing,    \* the documents that still stand in the knowledge index
  pc, loc,     \* each process's next store call and local variables
  screen,      \* each process's last view of a draft
  answer,      \* what each agent was last told a result means
  statements,  \* history: the statements the business database was sent
  crashes, docChanges   \* how much of the bounds is used up

tables == <<drafts, evidence, confs, runs>>
bounds == <<crashes, docChanges>>
vars == <<drafts, evidence, confs, runs, standing, pc, loc, screen, answer,
          statements, crashes, docChanges>>

NoAnswer == [run |-> 0, version |-> 0, defn |-> OpenDefinition]

Init ==
  /\ drafts = <<>> /\ evidence = <<>> /\ confs = <<>> /\ runs = <<>>
  /\ standing = Docs
  /\ pc = [a \in Actors |-> "idle"]
  /\ loc = [a \in Actors |-> Blank]
  /\ screen = [a \in Actors |-> NoScreen]
  /\ answer = [a \in Agents |-> NoAnswer]
  /\ statements = <<>>
  /\ crashes = 0 /\ docChanges = 0

-----------------------------------------------------------------------------
(* The store's reads. *)

\* get_draft: the row exists and is the caller's; otherwise NotFound or
\* PermissionDenied ends the call with nothing changed.
CanReadAnyone(a, d) == d \in DOMAIN drafts
CanRead(a, d) ==
  /\ d \in DOMAIN drafts
  /\ drafts[d].subject = SubjectOf[a]

\* The page and `queryagent confirm` also keep to their own workspace; the
\* agent's tools do not.
CanOpen(a, d) ==
  /\ CanRead(a, d)
  /\ a \in Agents \/ drafts[d].workspace = WorkspaceOf[a]

\* check_refs looks a citation up in the caller's workspace: elsewhere it is
\* unavailable.
Visible(a, d) == IF drafts[d].workspace = WorkspaceOf[a] THEN standing ELSE {}

\* human_confirmation: rows a person gave this draft at this version and hash.
HumanConfirmations(subject, d, version, defn) ==
  {c \in DOMAIN confs :
     /\ confs[c].draft = d /\ confs[c].version = version
     /\ confs[c].defn = defn /\ confs[c].subject = subject
     /\ confs[c].by \in Humans}

\* ORDER BY ... DESC LIMIT 1: at most one row.
Newest(S) == {n \in S : \A m \in S : m <= n}

RunsOf(c) == {r \in DOMAIN runs : runs[r].conf = c}
HoldingFinished(key) ==
  {r \in DOMAIN runs : runs[r].key = key /\ runs[r].status # "executing"}
Holding(key) == {r \in DOMAIN runs : runs[r].key = key}

\* QueryWorkflow.progress, its reads taken together.
ProgressUnexpired(d) ==
  LET draft == drafts[d]
      given == HumanConfirmations(draft.subject, d, draft.version, draft.defn)
  IN IF given # {} THEN "CONFIRMED"
     ELSE IF draft.status = "needs_input" THEN "NEEDS_INPUT"
     ELSE "AWAITING_CONFIRMATION"
Progress(d) ==
  LET draft == drafts[d]
      given == HumanConfirmations(draft.subject, d, draft.version, draft.defn)
  IN IF draft.status = "expired" THEN "EXPIRED"
     ELSE IF given = {}
          THEN IF draft.status = "needs_input" THEN "NEEDS_INPUT"
               ELSE "AWAITING_CONFIRMATION"
     ELSE IF \E c \in Newest(given) : \E r \in Newest(RunsOf(c)) :
               runs[r].status = "succeeded"
          THEN "EXECUTED" ELSE "CONFIRMED"

\* Which forms a door puts on the sheet at that progress: the page's two
\* forms, the terminal's prompts, and the agent's amend_query tool.
Offers(a, progress, defn) ==
  IF a \in Agents THEN {"amend"}
  ELSE IF progress \notin {"NEEDS_INPUT", "AWAITING_CONFIRMATION"} THEN {}
  ELSE IF a \in Pages
       THEN {"amend"} \cup IF progress = "NEEDS_INPUT" THEN {} ELSE {"confirm"}
       ELSE {"confirm"} \cup IF IsComplete(defn) THEN {} ELSE {"amend"}

-----------------------------------------------------------------------------
(* Moving a process along. *)

Goto(a, step) == pc' = [pc EXCEPT ![a] = step]

\* A terminal command ends when its method returns or raises; the page and
\* the MCP server wait for the next request.
ScreenAfterExit(a) ==
  IF a \in Flows \cup Confirmers
  THEN [screen EXCEPT ![a] = NoScreen] ELSE screen

Return(a) ==
  /\ Goto(a, "idle")
  /\ loc' = [loc EXCEPT ![a] = Blank]

Exit(a) == Return(a) /\ screen' = ScreenAfterExit(a)

\* Under every sheet a door shows stands freshness_advisory's note, whose only
\* statements are those of the mode "probe".
AfterSheet(a) ==
  /\ Goto(a, IF Probing THEN "advise" ELSE "idle")
  /\ loc' = [loc EXCEPT ![a] = Blank]

-----------------------------------------------------------------------------
(* prepare *)

\* The definition the builder returns: each rule settled from the mapping,
\* the documents or the question, or left open, citing some of the documents.
Built == {defn \in Definition :
            \A k \in RuleKeys : defn[k] = Missing
                                \/ (defn[k].source = "built" /\ defn[k].value \in Values)}

\* What a caller goes on with once prepare or amend has returned a draft.
Sheet(a, d, version, defn) ==
  [draft |-> d, version |-> version, defn |-> defn,
   offers |-> (IF a \in Agents THEN {} ELSE {"confirm"})
              \cup (IF a \in Confirmers THEN {} ELSE {"amend"})]

\* prepare up to create_draft; a draft without citations is then returned.
Prepare(a, defn, cites) ==
  LET d == Len(drafts) + 1 IN
  /\ a \in Flows \cup Agents
  /\ pc[a] = "idle"
  /\ a \in Flows => screen[a] = NoScreen
  /\ Len(drafts) < MaxDrafts
  /\ cites # {} => a \in Checkers
  /\ drafts' = Append(drafts, [subject |-> SubjectOf[a],
                               workspace |-> WorkspaceOf[a],
                               version |-> 1, defn |-> defn, status |-> StatusOf(defn),
                               cites |-> cites])
  /\ evidence' = Append(evidence, {})
  /\ IF cites = {}
     THEN AfterSheet(a) /\ screen' = [screen EXCEPT ![a] = Sheet(a, d, 1, defn)]
     ELSE /\ Goto(a, "record")
          /\ loc' = [loc EXCEPT ![a] = [OnDraft(d, 1, defn) EXCEPT !.refs = cites]]
          /\ UNCHANGED screen
  /\ UNCHANGED <<confs, runs, standing, answer, statements, bounds>>

\* set_evidence: one autocommitted INSERT for each citation.
RecordCitation(a, doc) ==
  LET d == loc[a].draft IN
  /\ pc[a] = "record"
  /\ doc \in loc[a].refs
  /\ evidence' = [evidence EXCEPT ![d] = @ \cup {doc}]
  /\ IF loc[a].refs = {doc}
     THEN /\ AfterSheet(a)
          /\ screen' = [screen EXCEPT ![a] = Sheet(a, d, 1, loc[a].defn)]
     ELSE /\ loc' = [loc EXCEPT ![a].refs = @ \ {doc}]
          /\ UNCHANGED <<pc, screen>>
  /\ UNCHANGED <<drafts, confs, runs, standing, answer, statements, bounds>>

-----------------------------------------------------------------------------
(* Looking at a draft: the page's GET, `queryagent confirm`, query_status. *)

View(a, d) ==
  /\ a \in Pages \cup Confirmers \cup Agents
  /\ pc[a] = "idle"
  /\ CanOpen(a, d)
  /\ Goto(a, "progress")
  /\ loc' = [loc EXCEPT ![a] = OnDraft(d, drafts[d].version, drafts[d].defn)]
  /\ UNCHANGED <<tables, standing, screen, answer, statements, bounds>>

\* The sheet shows the draft as it was read; what is offered under it comes
\* from the progress read afterwards.
ShowProgress(a) ==
  LET d == loc[a].draft
      offers == Offers(a, Progress(d), loc[a].defn)
  IN /\ pc[a] = "progress"
     /\ IF a \in Confirmers /\ offers = {}
        THEN Exit(a)
        ELSE /\ AfterSheet(a)
             /\ screen' = [screen EXCEPT ![a] =
                  [draft |-> d, version |-> loc[a].version,
                   defn |-> loc[a].defn, offers |-> offers]]
     /\ UNCHANGED <<tables, standing, answer, statements, bounds>>

\* freshness_advisory, before anyone has confirmed: one MAX() probe for each
\* table the draft may read that is not in the cache and that the budget lets
\* through.  An answer, a failure and a refusal all cost at most the note.
ProbeFreshness(a) ==
  /\ pc[a] = "advise"
  /\ Cardinality({i \in DOMAIN statements : statements[i].kind = "advisory"})
       < MaxAdvisories
  /\ statements' = Append(statements, Advisory)
  /\ UNCHANGED <<tables, standing, pc, loc, screen, answer, bounds>>

ShowNotes(a) ==
  /\ pc[a] = "advise"
  /\ Return(a)
  /\ UNCHANGED <<tables, standing, screen, answer, statements, bounds>>

-----------------------------------------------------------------------------
(* amend *)

\* amend up to its own read of the draft.  The caller passes the version it
\* was looking at; nothing but the schema's minimum of 1 holds an agent to it.
Amend(a, added, expected) ==
  LET d == screen[a].draft IN
  /\ pc[a] = "idle"
  /\ "amend" \in screen[a].offers
  /\ expected = screen[a].version \/ (Guessing /\ a \in Agents)
  /\ CanOpen(a, d)
  /\ drafts[d].version < MaxVersion
  /\ Goto(a, "check")
  /\ loc' = [loc EXCEPT ![a] = 
       [OnDraft(d, drafts[d].version + 1, WithRules(drafts[d].defn, added))
          EXCEPT !.expected = expected]]
  /\ UNCHANGED <<tables, standing, screen, answer, statements, bounds>>

\* update_draft's first read: StaleVersion unless the draft is at the version
\* the caller named.
AmendCheck(a) ==
  /\ pc[a] = "check"
  /\ IF drafts[loc[a].draft].version = loc[a].expected
     THEN Goto(a, "write") /\ UNCHANGED <<loc, screen>>
     ELSE Exit(a)
  /\ UNCHANGED <<tables, standing, answer, statements, bounds>>

\* update_draft's conditional UPDATE writes the version, the definition and
\* its status, whatever the status was.  The page answers with a redirect to a
\* fresh view; the other doors go on with the updated draft.
Amended(row, version, defn) ==
  [subject |-> row.subject, workspace |-> row.workspace, version |-> version,
   defn |-> defn, status |-> StatusOf(defn), cites |-> row.cites]

AmendWriteAnyVersion(a) ==
  LET d == loc[a].draft IN
  /\ pc[a] = "write"
  /\ drafts' = [drafts EXCEPT ![d] = Amended(@, loc[a].version, loc[a].defn)]
  /\ Return(a)
  /\ screen' = [screen EXCEPT ![a] = NoScreen]
  /\ UNCHANGED <<evidence, confs, runs, standing, answer, statements, bounds>>
AmendWrite(a) ==
  LET d == loc[a].draft IN
  /\ pc[a] = "write"
  /\ IF drafts[d].version = loc[a].expected
     THEN /\ drafts' = [drafts EXCEPT ![d] = Amended(@, loc[a].version, loc[a].defn)]
          /\ IF a \in Pages THEN Return(a) ELSE AfterSheet(a)
          /\ screen' = [screen EXCEPT ![a] =
               IF a \in Pages THEN NoScreen
               ELSE Sheet(a, d, loc[a].version, loc[a].defn)]
     ELSE Exit(a) /\ UNCHANGED drafts
  /\ UNCHANGED <<evidence, confs, runs, standing, answer, statements, bounds>>

-----------------------------------------------------------------------------
(* The evidence re-check both confirm and execute begin with. *)

\* The local state it works from: what get_draft returned, and the citations
\* that do not stand as the operation begins.
Checking(op, d, c, key) ==
  [draft |-> d, version |-> drafts[d].version, expected |-> 0,
   defn |-> drafts[d].defn, refs |-> {}, lost |-> evidence[d] \ standing,
   conf |-> c, key |-> key, run |-> 0, op |-> op, outcome |-> "executing"]

\* _evidence_still_stands: without a knowledge index nothing is checked;
\* otherwise read the stored citations, and none means nothing to check.  After
\* it, confirm saves and execute compiles and looks up its key.
AfterEvidence(a) == IF loc[a].op = "confirm" THEN "save" ELSE "key"

ReadEvidenceToConfirmOnly(a) ==
  LET refs == evidence[loc[a].draft] IN
  /\ pc[a] = "evidence"
  /\ loc' = [loc EXCEPT ![a].refs = refs]
  /\ Goto(a, IF refs = {} \/ loc[a].op = "execute" THEN AfterEvidence(a) ELSE "refs")
  /\ UNCHANGED <<tables, standing, screen, answer, statements, bounds>>
ReadEvidence(a) ==
  LET refs == evidence[loc[a].draft] IN
  /\ pc[a] = "evidence"
  /\ IF a \in Checkers
     THEN /\ loc' = [loc EXCEPT ![a].refs = refs]
          /\ Goto(a, IF refs = {} THEN AfterEvidence(a) ELSE "refs")
     ELSE Goto(a, AfterEvidence(a)) /\ UNCHANGED loc
  /\ UNCHANGED <<tables, standing, screen, answer, statements, bounds>>

\* check_refs asks the knowledge index, another file.
CheckRefs(a) ==
  /\ pc[a] = "refs"
  /\ Goto(a, IF loc[a].refs \subseteq Visible(a, loc[a].draft) THEN AfterEvidence(a)
             ELSE "expire")
  /\ UNCHANGED <<tables, standing, loc, screen, answer, statements, bounds>>

\* expire_draft changes the status only, whatever version the draft is at by
\* now; the call then raises ConfirmationRequired.
ExpireWithNewVersion(a) ==
  /\ pc[a] = "expire"
  /\ drafts' = [drafts EXCEPT ![loc[a].draft] =
                  [Amended(@, @.version + 1, @.defn) EXCEPT !.status = "expired"]]
  /\ Exit(a)
  /\ UNCHANGED <<evidence, confs, runs, standing, answer, statements, bounds>>
Expire(a) ==
  /\ pc[a] = "expire"
  /\ drafts' = [drafts EXCEPT ![loc[a].draft].status = "expired"]
  /\ Exit(a)
  /\ UNCHANGED <<evidence, confs, runs, standing, answer, statements, bounds>>

-----------------------------------------------------------------------------
(* confirm *)

Confirm(a) ==
  LET d == screen[a].draft IN
  /\ a \in Humans
  /\ pc[a] = "idle"
  /\ "confirm" \in screen[a].offers
  /\ Len(confs) + Cardinality({b \in Actors : loc[b].op = "confirm"}) < MaxConfs
  /\ CanOpen(a, d)
  /\ IF drafts[d].version = screen[a].version /\ drafts[d].defn = screen[a].defn
     THEN /\ Goto(a, "evidence")
          /\ loc' = [loc EXCEPT ![a] = Checking("confirm", d, 0, NoKey)]
          /\ UNCHANGED screen
     ELSE Exit(a)
  /\ UNCHANGED <<tables, standing, answer, statements, bounds>>

\* The is_complete check and save_confirmation.  The flow goes straight on to
\* execute, under its own request id.
SaveConfirmation(a) ==
  LET c == Len(confs) + 1 IN
  /\ pc[a] = "save"
  /\ IF IsComplete(loc[a].defn)
     THEN /\ confs' = Append(confs, [draft |-> loc[a].draft,
                               version |-> loc[a].version, defn |-> loc[a].defn,
                               subject |-> SubjectOf[a], by |-> a])
          /\ IF a \in Flows
             THEN /\ Goto(a, "load")
                  /\ loc' = [loc EXCEPT ![a] = 
                       ToExecute(c, [kind |-> "request", id |-> loc[a].draft])]
                  /\ UNCHANGED screen
             ELSE Exit(a)
     ELSE Exit(a) /\ UNCHANGED confs
  /\ UNCHANGED <<drafts, evidence, runs, standing, answer, statements, bounds>>

-----------------------------------------------------------------------------
(* execute *)

\* execute_confirmed, the agent's door: its read of the draft.
ExecuteConfirmed(a, d) ==
  /\ a \in Agents
  /\ pc[a] = "idle"
  /\ CanRead(a, d)
  /\ drafts[d].status # "expired"
  /\ Goto(a, "lookup")
  /\ loc' = [loc EXCEPT ![a] = OnDraft(d, drafts[d].version, drafts[d].defn)]
  /\ UNCHANGED <<tables, standing, screen, answer, statements, bounds>>

\* human_confirmation; without one nothing runs.  The confirmation is the key.
LookUp(a) ==
  LET given == HumanConfirmations(SubjectOf[a], loc[a].draft, loc[a].version,
                                  loc[a].defn)
  IN /\ pc[a] = "lookup"
     /\ IF given = {} THEN Exit(a)
        ELSE \E c \in Newest(given) :
             /\ Goto(a, "load")
             /\ loc' = [loc EXCEPT ![a] = 
                  ToExecute(c, [kind |-> "confirmation", id |-> c])]
             /\ UNCHANGED screen
     /\ UNCHANGED <<tables, standing, answer, statements, bounds>>

\* The confirmation still speaks for the draft as it is now stored.
StillUnexpired(c) == drafts[confs[c].draft].status # "expired"
StillConfirmed(c) ==
  LET draft == drafts[confs[c].draft] IN
  /\ draft.version = confs[c].version
  /\ draft.defn = confs[c].defn
  /\ draft.status # "expired"

\* execute: get_confirmation (rows never change) and get_draft.
Load(a) ==
  LET c == loc[a].conf
      d == confs[c].draft
  IN /\ pc[a] = "load"
     /\ IF StillConfirmed(c)
        THEN /\ Goto(a, "evidence")
             /\ loc' = [loc EXCEPT ![a] = Checking("execute", d, c, loc[a].key)]
             /\ UNCHANGED screen
        ELSE Exit(a)
     /\ UNCHANGED <<tables, standing, answer, statements, bounds>>

\* A run already holds the key: the flow renders it, the agent is answered
\* from it when it succeeded and told to wait or to reconfirm otherwise.
AnswerFrom(a, r) ==
  IF a \in Agents /\ runs[r].status = "succeeded"
  THEN /\ Goto(a, "answer")
       /\ loc' = [loc EXCEPT ![a].run = r]
       /\ UNCHANGED screen
  ELSE Exit(a)

\* Compile and get_run_by_key.
ReadKey(a) ==
  /\ pc[a] = "key"
  /\ IF Holding(loc[a].key) = {}
     THEN Goto(a, "admit") /\ UNCHANGED <<loc, screen>>
     ELSE \E r \in Holding(loc[a].key) : AnswerFrom(a, r)
  /\ UNCHANGED <<tables, standing, answer, statements, bounds>>

\* budget.admit lets the request through.
Admit(a) ==
  /\ pc[a] = "admit"
  /\ Goto(a, "claim")
  /\ UNCHANGED <<tables, standing, loc, screen, answer, statements, bounds>>

\* The compiler cannot map the definition, or the budget refuses.
Refuse(a) ==
  /\ pc[a] \in {"key", "admit"}
  /\ Exit(a)
  /\ UNCHANGED <<tables, standing, answer, statements, bounds>>

\* claim_run: the UNIQUE key admits one row.  Whether the data is then dated
\* with a probe depends on the metric's mapping.
Claim(a) ==
  /\ pc[a] = "claim"
  /\ IF Holding(loc[a].key) = {}
     THEN /\ runs' = Append(runs, [key |-> loc[a].key, draft |-> loc[a].draft,
                              conf |-> loc[a].conf, subject |-> SubjectOf[a],
                              status |-> "executing", defn |-> OpenDefinition])
          /\ loc' = [loc EXCEPT ![a].run = Len(runs) + 1]
          /\ \E next \in {"probe", "query"} : Goto(a, next)
          /\ UNCHANGED screen
     ELSE /\ \E r \in Holding(loc[a].key) : AnswerFrom(a, r)
          /\ UNCHANGED runs
  /\ UNCHANGED <<drafts, evidence, confs, standing, answer, statements, bounds>>

\* _date_the_data: a probe that fails costs the note only.
Probe(a) ==
  /\ pc[a] = "probe"
  /\ statements' = Append(statements, [run |-> loc[a].run, kind |-> "probe",
                                       defn |-> loc[a].defn])
  /\ Goto(a, "query")
  /\ UNCHANGED <<tables, standing, loc, screen, answer, bounds>>

Query(a) ==
  /\ pc[a] = "query"
  /\ statements' = Append(statements, [run |-> loc[a].run, kind |-> "query",
                                       defn |-> loc[a].defn])
  /\ \E outcome \in {"succeeded", "failed"} :
       loc' = [loc EXCEPT ![a].outcome = outcome]
  /\ Goto(a, "finish")
  /\ UNCHANGED <<tables, standing, screen, answer, bounds>>

\* finish_run; a failure is recorded and then raised again.
Finished(row, outcome, defn) ==
  [key |-> row.key, draft |-> row.draft, conf |-> row.conf,
   subject |-> row.subject, status |-> outcome, defn |-> defn]

FinishIfSucceeded(a) ==
  LET r == loc[a].run IN
  /\ pc[a] = "finish"
  /\ runs' = IF loc[a].outcome = "failed" THEN runs
             ELSE [runs EXCEPT ![r] = Finished(@, loc[a].outcome, loc[a].defn)]
  /\ Exit(a)
  /\ UNCHANGED <<drafts, evidence, confs, standing, answer, statements, bounds>>
Finish(a) ==
  LET r == loc[a].run IN
  /\ pc[a] = "finish"
  /\ runs' = [runs EXCEPT ![r] = Finished(@, loc[a].outcome, loc[a].defn)]
  /\ IF a \in Agents /\ loc[a].outcome = "succeeded"
     THEN Goto(a, "answer") /\ UNCHANGED <<loc, screen>>
     ELSE Exit(a)
  /\ UNCHANGED <<drafts, evidence, confs, standing, answer, statements, bounds>>

\* execute_query reads the draft again and renders the run with it.
Answer(a) ==
  LET r == loc[a].run
      d == runs[r].draft
  IN /\ pc[a] = "answer"
     /\ answer' = [answer EXCEPT ![a] = [run |-> r, version |-> drafts[d].version,
                                         defn |-> drafts[d].defn]]
     /\ Exit(a)
     /\ UNCHANGED <<tables, standing, statements, bounds>>

-----------------------------------------------------------------------------
(* The environment. *)

\* A process is killed, or interrupted by an exception _run does not catch.
Crash(a) ==
  /\ crashes < MaxCrashes
  /\ pc[a] # "idle"
  /\ crashes' = crashes + 1
  /\ Return(a)
  /\ screen' = [screen EXCEPT ![a] = NoScreen]
  /\ UNCHANGED <<tables, standing, answer, statements, docChanges>>

\* A cited chunk leaves the draft's workspace, revoked or taken into another
\* one, or is imported again.  Editing its text changes nothing check_refs
\* tells of a stored citation (KnowledgeIndex).
\* lost keeps, for each operation under way, the citations that have not
\* stood at any moment since it began.
ChangeDoc(doc) ==
  /\ docChanges < MaxDocChanges
  /\ docChanges' = docChanges + 1
  /\ standing' = IF doc \in standing THEN standing \ {doc} ELSE standing \cup {doc}
  /\ loc' = [a \in Actors |-> [loc[a] EXCEPT !.lost = @ \ standing']]
  /\ UNCHANGED <<tables, pc, screen, answer, statements, crashes>>

-----------------------------------------------------------------------------

Step(a) ==
  \/ \E doc \in Docs : RecordCitation(a, doc)
  \/ ShowProgress(a) \/ ProbeFreshness(a) \/ ShowNotes(a)
  \/ AmendCheck(a) \/ AmendWrite(a)
  \/ ReadEvidence(a) \/ CheckRefs(a) \/ Expire(a)
  \/ SaveConfirmation(a)
  \/ LookUp(a) \/ Load(a) \/ ReadKey(a) \/ Admit(a) \/ Refuse(a) \/ Claim(a)
  \/ Probe(a) \/ Query(a) \/ Finish(a) \/ Answer(a)

Request(a) ==
  \/ \E defn \in Built, cites \in SUBSET Docs : Prepare(a, defn, cites)
  \/ \E d \in DOMAIN drafts : View(a, d)
  \/ \E added \in Amendments(a), expected \in 1..MaxVersion : Amend(a, added, expected)
  \/ Confirm(a)
  \/ \E d \in DOMAIN drafts : ExecuteConfirmed(a, d)

Next ==
  \/ \E a \in Actors : Request(a) \/ Step(a) \/ Crash(a)
  \/ \E doc \in Docs : ChangeDoc(doc)

Spec == Init /\ [][Next]_vars

\* A process scheduled by its operating system takes the step its method is
\* at.  Nothing obliges anyone to make a request.
FairSpec == Spec /\ \A a \in Actors : WF_vars(Step(a))

-----------------------------------------------------------------------------
(* Properties. *)

TypeOK ==
  /\ drafts \in Seq(Draft) /\ confs \in Seq(Confirmation) /\ runs \in Seq(Run)
  /\ evidence \in Seq(SUBSET Docs) /\ Len(evidence) = Len(drafts)
  /\ standing \in SUBSET Docs
  /\ pc \in [Actors -> Steps]
  /\ loc \in [Actors -> Local]
  /\ screen \in [Actors -> Screen]
  /\ answer \in [Agents -> [run : Nat, version : Nat, defn : Definition]]
  /\ statements \in Seq(Statement)
  /\ crashes \in 0..MaxCrashes /\ docChanges \in 0..MaxDocChanges

\* Every statement the business database was ever sent, but for the sheets' own
\* of the mode "probe", asks exactly what some person confirmed: the complete
\* definition of a confirmation given through a human door, by the person whose
\* run it is, for the run's own draft.  It has to survive an amendment, an
\* expiry or a second confirmation landing between any two reads of execute
\* (service.py execute, execute_confirmed).
RunsOnlyWhatAPersonConfirmed ==
  \A i \in DOMAIN statements :
    \/ Probing /\ statements[i] = Advisory
    \/ LET r == runs[statements[i].run]
           c == confs[r.conf]
       IN /\ statements[i].defn = c.defn /\ IsComplete(c.defn)
          /\ c.by \in Humans
          /\ c.subject = r.subject /\ c.draft = r.draft

\* People keep to their drafts: whoever passes whatever draft id to whichever
\* door, a confirmation and a run belong to the person the draft belongs to.
PeopleKeepToTheirDrafts ==
  /\ \A c \in DOMAIN confs : drafts[confs[c].draft].subject = confs[c].subject
  /\ \A r \in DOMAIN runs : drafts[runs[r].draft].subject = runs[r].subject

\* One idempotency key, one query: however many processes present the same
\* key and wherever they are killed, the business database is asked at most
\* once (claim_run's "a duplicate request cannot start a second database query
\* even if two callers race").
OneQueryPerKey ==
  \A i, j \in DOMAIN statements :
    /\ statements[i].kind = "query" /\ statements[j].kind = "query"
    /\ runs[statements[i].run].key = runs[statements[j].run].key
    => i = j

\* A process with a knowledge index confirms nothing and runs nothing on a
\* citation that was withdrawn before the operation began and has not come back
\* since: the re-check of _evidence_still_stands reads two files, and the
\* withdrawal may land before, between or after those reads.
Proceeding(a) == pc[a] \in {"save", "key", "admit", "claim", "probe", "query"}
NothingProceedsOnWithdrawnEvidence ==
  \A a \in Checkers : Proceeding(a) => loc[a].lost = {}

\* The two readings of "still waiting on a person" agree: the list of pending
\* drafts (store.py pending_drafts, one join over any confirmation) and each
\* draft's progress (service.py progress, over human confirmations only).
PendingAgreesWithProgress ==
  \A d \in DOMAIN drafts :
    LET pending ==
          /\ drafts[d].status \in {"needs_input", "awaiting_confirmation"}
          /\ ~ \E c \in DOMAIN confs :
                 /\ confs[c].draft = d
                 /\ confs[c].version = drafts[d].version
                 /\ confs[c].defn = drafts[d].defn
    IN pending <=> Progress(d) \in {"NEEDS_INPUT", "AWAITING_CONFIRMATION"}

\* No amendment is lost: a stored definition is only ever replaced by one built
\* on it, under the next version number, so a version names one content (amend:
\* expected_version "makes a second editor lose loudly instead of overwriting").
AmendmentsBuildOnEachOther ==
  [][\A d \in DOMAIN drafts :
       <<drafts'[d].version, drafts'[d].defn>> # <<drafts[d].version, drafts[d].defn>>
       => /\ drafts'[d].version = drafts[d].version + 1
          /\ \E a \in Actors : \E added \in Amendments(a) :
               drafts'[d].defn = WithRules(drafts[d].defn, added)]_drafts

\* A run a process has claimed is settled, whatever the database does, as long
\* as no process is killed (service.py _run records failures and re-raises).
ClaimedRunsSettle ==
  \A r \in 1..(MaxDrafts + MaxConfs) :
    (r \in DOMAIN runs) ~> (r \in DOMAIN runs /\ runs[r].status # "executing")

-----------------------------------------------------------------------------
(* The abstract gate this implements. *)

Approval(c) == [subject |-> confs[c].subject, draft |-> confs[c].draft,
                version |-> confs[c].version, defn |-> confs[c].defn]

\* The claim a run stands for; what it asks is what was sent, not what was
\* approved, so a query asking anything else would be no step of the gate.
ClaimOf(r) == [key |-> runs[r].key, what |-> Approval(runs[r].conf)]
Sent(i) ==
  IF statements[i] = Advisory THEN [kind |-> "advisory"]
  ELSE [claim |-> [ClaimOf(statements[i].run) EXCEPT !.what.defn = statements[i].defn],
        kind |-> statements[i].kind]

Gate == INSTANCE ConfirmationGate WITH
  approved <- {Approval(c) : c \in {n \in DOMAIN confs : confs[n].by \in Humans}},
  claims <- [r \in DOMAIN runs |-> ClaimOf(r)],
  asked <- [i \in DOMAIN statements |-> Sent(i)]

\* The workflow implements the gate: every step is a step of the gate or none.
ImplementsGate == Gate!Spec

-----------------------------------------------------------------------------
(* What the repository's documents say that the code does not keep.        *)

\* "One confirmation authorises one run."
OneRunPerConfirmation ==
  \A r, s \in DOMAIN runs : runs[r].conf = runs[s].conf => r = s
=============================================================================
