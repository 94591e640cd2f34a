# QueryAgent in TLA+

QueryAgent answers business questions from a database. Its centre is a rule: the
business database is asked nothing until a person has confirmed, on a sheet, the exact
definition the answer will be computed by. The rule is kept by several processes (a
terminal, a confirmation page, an MCP server driven by an agent) that share one SQLite
file and hold no lock between two calls to it. Around it stand an agent loop that asks on
its own within limits, a budget, a connection pool, a document index, a batch evaluation,
and the path from the words of a question to the statement that answers it. These modules
model those parts, TLC checks them on small instances, and TLAPS proves the properties
that matter most for every number of people, processes, documents, threads, cases and
rows.
Paths below are under `src/queryagent/` unless they say otherwise.

## Inventory

| Component | State | Operations | What makes it correct |
|---|---|---|---|
| Query workflow (`workflow/service.py`, `store.py`, `models.py`) | tables drafts, draft_evidence, confirmations, runs | prepare, amend, confirm, execute_confirmed, execute, progress | only what a person confirmed runs; one query per idempotency key; withdrawn evidence stops everything; no lost amendment; claimed runs settle |
| Doors (`cli.py`, `web/server.py`, `web/page.py`, `mcp/tools.py`) | the sheet each last showed | show a draft, offer forms, post them | people keep to their own drafts; what is shown is what is confirmed |
| Budget (`budget.py`) | tables budget_leases, budget_ledger | admit, record, refund, release | never undercounts; daily and concurrent limits hold through races, kills and midnight |
| MySQL pool (`connectors/mysql.py`) | queue of idle connections and tokens, a count, a lock | acquire, open, ping, discard, use, put back, close | no slot is lost, no connection has two users, nobody waits for ever |
| Agent loop and tools (`agent.py`, `tools.py`, `safety.py`'s verdict) | message history, counters | a model call, a tool call | one terminal event, bounded rounds, every question ends |
| Context trimming (`context.py`) | none | build a message list | no pair torn, no more dropped than needed, the newest result kept |
| Model backends (`llm/`) | none | post, retry, parse | bounded retries; each failure has one reading |
| Trace (`trace.py`) | a file of lines, a directory of files | append, read back, prune | names every statement sent, whenever the process dies |
| Batch evaluation (`cli.py`, `evals/`) | workers, checkpoint file, outage guard, report | run, record, abort, drain, resume | each case reported once; nothing paid for is lost; a resume is the same experiment |
| Definition algebra (`workflow/builder.py`, `extraction.py`, `enforcement.py`, `evidence_builder.py`, `history.py`, `answers.py`) | what was confirmed before | build, amend, adopt, recall | a rule comes from where it says it does; documents only explain; a recalled choice only fills a gap |
| Periods, splits, compiler, mappings (`workflow/periods.py`, `grouping.py`, `compiler.py`, `mappings.py`) | the mapping file | read phrases, compile, check a mapping | the words are read in full; the rows counted are the rows confirmed |
| Document knowledge (`knowledge/`, `text.py`) | chunk index, document files | load, chunk, import, embed, search, revoke, check_refs | a search keeps to its workspace; a vector describes its row's text; citations survive imports |
| Freshness (`workflow/freshness.py`) | cached data dates | advise | the probes of mode `probe` are the only statements nobody confirmed, and touch nothing but its cache |
| Web session (`web/session.py`) | one secret | compare a token | a form belongs to its session |
| Rendering, metric files, configuration, serialisation | none | | pure functions and files |

How they interact: every door builds a `QueryWorkflow` over the same state file. It calls
the knowledge provider (another file) before it confirms or executes, the budget (the same
file, its own connection) before it claims a run, the connector after. Before a draft
exists, the definition is built from the metric files, the documents the provider finds and
the person's earlier confirmed runs. The agent loop goes to the database through
`BudgetedConnector` and never through the workflow; the batch evaluation drives many agent
loops from worker threads, and its outage guard reads what their failures mean.

The hard behaviour is of three kinds. In the shared files, a method reads a row, does
other work, and acts on what it read, while another process changes the row or this one is
killed. In the loops, limits of several kinds count the same rounds. In the definitions,
many finders read one text and many sources settle one rule. `hazards` in PROJECT.json
lists each place.

## Modules

| Module | Models |
|---|---|
| `ConfirmationGate` | the abstract promise: approve, claim under an approval with a fresh key, ask exactly what was claimed, the query once; advisories for sheets aside |
| `Workflow` | the four doors and every store call of the workflow |
| `WorkflowProofs` | theorems about `Workflow` and the gate it implements |
| `Budget`, `BudgetProofs` | the ledger, its leases and the two ways it is used; theorems |
| `MySQLPool`, `MySQLPoolProofs` | the threads and the pool; theorems |
| `Sift`, `SiftProofs` | what a condition keeps of a list (by element or by position), and what a list of numbers adds up to, as functions of the length; lemmas about them |
| `Failures` | what can fail in a command, its exit code, whether it leaves a case unmeasured |
| `Context` | the message list of a model call, trimmed (extends `Sift`) |
| `Ask`, `AskProofs` | one `ask` or `chat`: loop, retries, memory, trace, exit (extends `Context`, `Failures`); theorems |
| `Scoring` | how one evaluation case is scored and the report's totals (extends `Failures`) |
| `EvalBatch`, `EvalBatchProofs` | `queryagent eval` over several processes (extends `Scoring`, `Sift`); theorems |
| `Periods`, `Splits` | the time, split and filter words of a question |
| `Compiler` | a definition as a statement, and what a data source answers |
| `Drafting` | how a question becomes a definition, and how an answer completes it |
| `Definitions`, `DefinitionsProofs` | one definition after another, to the number that answers it (extends the four above); theorems |
| `Documents` | what a file becomes: lines, sections, chunks |
| `KnowledgeIndex`, `KnowledgeProofs` | import, embedding, search, revocation, citations; theorems |
| `MC...` | the instances for TLC |

### Workflow

A process is a door: `Flows` (`queryagent flow`), `Confirmers` (`queryagent confirm`),
`Pages` (`queryagent web`), `Agents` (`queryagent mcp`). A store method is one or more
autocommitted statements, and no service method holds a transaction, so the unit of
interleaving is a store call: each action is one call and the local work up to the next,
`pc[a]` the call process `a` makes next, `loc[a]` the method's local variables, `screen[a]`
the sheet last shown and the forms on it.

| Code | Actions |
|---|---|
| `prepare`, `create_draft`, `set_evidence` | `Prepare`, then one `RecordCitation` for each citation |
| the page's GET, `queryagent confirm`, `query_status` | `View`, `ShowProgress` |
| `freshness_advisory`, under every sheet | `ProbeFreshness`, `ShowNotes` |
| `amend`, `update_draft` | `Amend`, `AmendCheck`, `AmendWrite` |
| `confirm` | `Confirm`, `ReadEvidence`, `CheckRefs`, `Expire`, `SaveConfirmation` |
| `execute_confirmed` | `ExecuteConfirmed`, `LookUp` |
| `execute`, `_run`, `_date_the_data` | `Load`, `ReadEvidence`, `CheckRefs`, `Expire`, `ReadKey`, `Admit`, `Refuse`, `Claim`, `Probe`, `Query`, `Finish` |
| the MCP tool's second read of the draft | `Answer` |
| a process killed; a cited chunk revoked, taken into another workspace, or imported again | `Crash`, `ChangeDoc` |

A table that is only inserted into is a sequence, its index standing for the uuid; a
definition's SHA-256 hash is taken to be injective; SQL text is abstracted to the
definition it was compiled from. `Checkers` are the processes whose configuration has a
knowledge index: the others re-check no citation, and prepare no draft with one. `Probing`
is `freshness_before_confirm: probe`, in which a door that has shown a sheet may send
`MAX()` probes before it goes on (`src/SECURITY.md:94`): any number of them, since how many
tables a draft may read, what is cached and what the budget refuses are left open. They
show in `statements` as `Advisory`. `lost` is a history variable: the citations of the
operation under way that have not stood at any moment since it began. `statements` is the
history of what the business database was sent.

`ConfirmationGate` holds claims and questions as sequences: a second run under a key, or a
second query for a claim, is a step the gate has to allow and does not, rather than a set
that stays as it was. The approvals are a set, because approving the same sheet twice
promises nothing more.

### Budget

`Runners` are confirmed runs (a lease for the query and, with it, the probe that dates
the data), `Askers` are the agent path (a lease for each statement of a question). `admit`
is two actions, because the clock and the per-request limit are read before
`BEGIN IMMEDIATE` waits for the file: `Begin`, then the transaction `Reserve` (or `GiveUp`
when the wait is too long). Then `Claim` (the workflow's claim_run, seen from here: the key
is free or not), `Refund`, `Start` and `Record` for each statement, `Release`. A killed
process leaves its lease in the table and its statement in the database (`Crash`,
`OrphanEnds`). `Tick` is time. A unit passes for everyone at once, and only while no
statement is past its timeout and no request has waited for the file longer than
`Waiting`. Local computation takes no time. `reserved` and `sent` are history: the
statements of each day, numbered, so that which statement was given back and which was sent
can be told apart.

### MySQLPool

A thread executes a statement (`Execute`), takes from the queue (`Try`), looks at the count
under the lock (`Count`) and opens a connection still holding it (`Connect`), or waits
(`Wait`, or `TimeOut` at its deadline); it pings what it took (`Ping`), discards what does
not answer and opens another (`Discard`, `Replace`), uses it (`Use`) and puts it back
(`Return`), where a connector closed meanwhile (`Close`) closes it instead. The queue holds
connections and `None`, the token that says a slot came free. Every call of the driver may
fail where it is made.

### Ask

`AskQuestion` begins a run, `Call` posts the trimmed message list, `PostFails` is one failed
attempt (`Again` while retries are left), `Propose` a tool call, `Unusable` an answer that
does not parse, `AnswerText` and `Clarify` the ends the model chooses, `Dispatch` the tool
with its outcome and the observation, `Reply` the person's answer to a clarification,
`Leave` and `Die` the end of the process. Each event is written to the trace before the
loop goes on; a kill may tear the last line. A statement is what the safety check can see
of it, and its result a size. The provider's and the database's answers are any of those
the code tells apart.

### EvalBatch

A process starts afresh or with `--resume` (`Start`, `Refuse`), opens its groups
(`OpenGroup`, `Unusable`), hands cases to workers (`Admit`), which finish or cannot be built
(`Finish`, `WorkerFails`); the main thread collects results, appends them to the checkpoint
and counts outages (`Collect`, `Release`), and stops, aborts a group or goes on (`Abort`,
`RecordUnusable`, `RecordAborted`, `NextGroup`, `StopForOutage`, `WriteReport`). Ctrl-C
drains first (`Interrupt`, `Drain`, `LeaveInterrupted`); a kill leaves any part of an append
(`Kill`). `paid` and `lost` are history: the measured results, and those a kill or a failed
worker took along. How a case is scored is `Scoring`, operators over what a run came to.

### Definitions

`Periods` and `Splits` are the finders: a text is a sequence of words of known kinds, a
regular expression the shape it spans, and a finder returns the set of what it found.
`Drafting` is the builder with its sources in order (question, documents, history, open)
and the amendments; `Compiler` the mapping lookup, the statement as source, bounds, filters
and grain, what a data source answers to it (external), the probe's targets and the note on
coverage. `Definitions` is the state: one draft at a time through `Prepare`, `Amend`,
`Confirm`, `Expire`, `DateTheData`, `Finish`, `Fail`, while `NextDay`, `Load`, `Deploy` (a
new mapping file) and `Withdraw` happen around it. The gate itself is kept simple here,
being `Workflow`'s subject; in turn `Workflow` compares definitions only for equality.

### KnowledgeIndex

An import is one autocommitted row at a time: `Import`, `List` (a source's files),
`ReadFile` or `SkipFile`, `UpsertChunk`, `NextSource`, then `EmbedBatch` and `StoreVector`
for the rows without a vector; `Stop` ends it anywhere. A question is `Search`,
`ReadVectors`, `ReadChunks`, `ScoreChunks` (three reads with the endpoint's answer between
them) and `Cite`, whose citation is stored as it is rendered, without the text's hash.
`Revoke` takes a workspace's rows away and `Edit` changes a file. A text is the words of its
heading and body, a vector the text it was computed from, relevance the shared words.

## What is checked

| Run | Instance | Question |
|---|---|---|
| `doors` | a page, an agent; one draft of one rule, one document, two versions, two confirmations, one probe for a sheet, a kill, a document change | is only what a person confirmed ever asked, a sheet's probes aside; does withdrawn evidence stop a confirmation or a run; do the pending list and a draft's progress agree; is an amendment ever lost; is this an implementation of `ConfirmationGate` |
| `race` | a flow and two agents of one person, a page and an agent of another; a kill | does a key ask once; does anyone reach another's draft |
| `settle` | a flow, a confirming terminal, an agent that passes any version; nobody killed | does every claimed run settle |
| `limits` | a confirmed run and an ask of one person for one slot, up to midnight and past it, connecting and waiting longer than the margin, a kill | does the ledger undercount; does the day's allowance hold; how far do the day's seconds run over; does a lease that has not expired exclude others; for how long may one that has be outlived |
| `ask` | two questions, three turns, one retry of each kind, a token budget one long turn overruns, a memory of one turn, room for two traces | is what the model is sent ever torn or trimmed too much; is a run bounded, with one terminal event; do memory and trace say what happened; does every question end |
| `pool` | three threads, two statements each, two slots, four connections | is the count exact; has a connection two users; is every borrower served |
| `batch` | four cases over two databases, two workers, a guard of two, two processes of either mode | is each case reported once; does a paid result survive; is a resume the same experiment; does an outage stop the batch; does every batch end |
| `define` | two people, two drafts in turn, 34 courses of questions, phrases apart and side by side, two documents, two mapping files, the last day of a leap year and the next | are the words read in full; is what is counted what was confirmed; do documents or history decide more than they may; does a coverage note promise more than was loaded |
| `knowledge` | a handbook in seven editions under one workspace, a glossary under two; two imports, an edit, a question, a revocation | does a search keep to its workspace; do citations of unchanged sections survive imports; does a stored vector outlive its text; is a finished import searchable as far as its rows are not outranked |

Each property has a mutant, a plausible bug in a mapped definition, that TLC finds.

### Bounds

`MaxDrafts`, `MaxVersion`, `MaxConfs` bound the workflow's tables, `MaxAdvisories` the
probes sent for its sheets, `MaxCrashes` and `MaxDocChanges` its environment, `MaxTime` the
budget's clock; every one is in a guard. They are enough for the hazards: overtaking an
operation takes one other actor and one change (a second version, a second confirmation, an
expiry), and a key needs a loser and a third caller who finds the winner killed. `doors`
sends a probe and a query for each of two confirmations around an amendment. In `limits` a
unit of time stands for ten seconds: connecting takes up to one and waiting for the file up
to one, and the lease's margin of five is none. A run's lease is two units and the run takes
up to five, so another request is admitted beside it, and its refund or second statement may
fall on the other side of the midnight at six. One rule with one value suffices because the
workflow compares definitions only for equality, and an open, a built and an amended rule
are three of them. The bound on confirmations counts those under way, so that it never stops
a confirmation half-way. `MaxVersion` is checked when an amendment begins.

`Ask` needs two questions for a memory to displace and a trace to prune, and turns enough
for a failed call, a repeated one and a trimmed one (`MaxQuestions`, `MaxReplies`,
`MaxTurns`, `MaxRetries`, `HttpRetries`). In `MySQLPool` a third thread waits while two
slots are lost and found again (`MaxQueries`, `MaxConnects`; when no connection is left to
open, opening fails, as a server that refuses does). `EvalBatch` needs `Limit` +
`Concurrency` cases, four, for a batch to run past its guard, and a second process for a
resume (`MaxProcesses`). `Definitions` is bounded by its courses of questions, `Starts` (the
rows loaded at first), `MaxChanges` (deployments and withdrawals), `MaxAmendments`, `MaxAge`
(days a draft waits) and `WorkDays`; two people are enough for one to recall what is not
theirs, and symmetric. `KnowledgeIndex` has `MaxEdits` 1, `MaxImports` 2, `MaxSearches` 1,
`MaxRevocations` 1, batches of one text, one hit returned (`Limit`, so that a row that is not
pruned takes another's place): an import stopped half-way, an edit and a second import over
what the first left; this is the largest run, some six million states.

### Fairness

`settle`: weak fairness of each process's own `Step`: an operating system runs a process
that can run, and a store call returns (SQLite's lock is waited for at most ten seconds, and
`timeout` bounds a statement). `ask`: weak fairness of `Work`, since requests and statements
have timeouts; none of what a person types. `pool`: weak fairness of each thread's `Step`,
since connecting, pinging and a statement have timeouts, and none of `TimeOut`: a waiting
thread must be served without owing it to its own deadline. `batch`: weak fairness of
`Work`. Nothing is asked of kills, documents or requests. Deadlock is checked in the
workflow's and the budget's runs: a system at rest with a draft always has someone who may
look at it. The other systems come to an end, of themselves or at their bounds, so their
runs do not check it.

## Findings

Each is a run whose one property is what the repository says, and TLC finds a behaviour
of the code against it.

| Run | The repository says | The code |
|---|---|---|
| `v_two_doors` | "One confirmation authorises one run" (`workflow/service.py:455`) | the flow runs under its request id and the agent under the confirmation's key: two runs |
| `v_history` | a reading chosen through a document's wording "rests on the document as much as the wording does" (`workflow/history.py:114`) | once recalled and confirmed again the reading has lost its reference, and is offered for ever after the document is gone |
| `v_edited` | "a withdrawn or edited source expires the draft" (`src/CHANGELOG.md:221`) | a citation is stored without its content hash, so an edited section that keeps its place still stands |

### Behaviour met while modelling, with no run of its own

Workflow and doors:

- `amend` writes a new status whatever the old one was, so an amendment brings an expired
  draft back, though the message says to prepare it again (`service.py:358`).
- A kill between `create_draft` and `set_evidence` leaves a draft without its citations,
  which nobody then re-checks (`service.py:155`).
- The MCP tool reads the draft again after the run, so an amendment in between heads the
  result in place of what was executed (`mcp/tools.py:261`).
- After a failed run the agent is told to have the person confirm again, and no human door
  offers to confirm or amend (`mcp/tools.py:268`, `web/page.py:141`, `cli.py:1017`).
- An agent started for another workspace looks a draft's citations up there, finds none,
  and expires a good draft (`service.py:220`).
- `amend` reads the draft before `update_draft` compares the version with
  `expected_version`, so a caller that guesses the next version can overwrite an amendment
  it never saw; the tool's schema asks for nothing but a number of at least 1.
  `AmendmentsBuildOnEachOther` is therefore checked and proved with `Guessing = FALSE`.
- "Re-check every citation, or raise" (`service.py:205`) is kept by processes whose
  configuration has a knowledge index. Any other returns before it reads the stored
  citations (`service.py:213`, `wiring.py:132`, 174), so it confirms and runs a draft that
  the process that prepared it would refuse; `Checkers` are the processes of the first kind,
  and `NothingProceedsOnWithdrawnEvidence` speaks of them.
- A process killed after `claim_run` leaves its run executing for ever: every later call
  with that key is answered by it. `OneQueryPerKey` holds exactly because of this.

Budget:

- max_concurrent is "Requests executing at once against one state file, across processes"
  (`config.py:84`), and more may be. A lease expires `LEASE_MARGIN_S`, 5 s (`budget.py:40`),
  beyond its timeouts, counted from a clock read before a wait of up to 10 s for the file
  (`budget.py:145`), and connecting alone may take 10 s (`connectors/mysql.py:50`); past that
  another request is admitted beside one that still executes. By how many is not bounded,
  but for how long is: a request outlives its lease by at most the wait for the file and,
  for each of its statements, what connecting takes beyond the margin
  (`LeasesAreOutlivedBriefly`), 20 s with the default settings, and leases that have not
  expired do exclude each other (`LeasesAreSlots`).
- A day's last request can run over by two timeouts, its probe and its query, where
  `budget.py:222` speaks of one.

Agent loop:

- `agent.py`'s docstring names five terminal events; the retry limit and a parse error of
  the model's answer end a run as well. With `max_retries` n a run gives up at failure n+1.
- The plain completion at the end of the turns is refused to a person as a user error
  (exit 2) when the provider is away, where any other outage is temporary (`agent.py:213`).
- A clarified question starts with a new allowance of turns and retries.
- Traces of one second sort by a random suffix, so pruning may keep the older of two, and
  two processes that prune together may leave one more than the cap.

Pool: a token is taken by whoever looks into the queue first, with room or without, so the
thread it woke may wait until the slot's next user is done (`connectors/mysql.py:209`). And
an exception of another kind than a `MySQLError` during the ping would keep its slot for
ever (`connectors/mysql.py:168`); `Ping` fails in the way the code expects, so `CountIsExact`
says nothing of it.

Batch: a worker that cannot be built takes the other finished results in flight along and
bakes failures into the checkpoint; a kill between creating the checkpoint and its first
flush leaves a file without a signature, which `--resume` refuses; the guard's streak stays
at its limit after an abort in the public mode; a second Ctrl-C loses what was in flight;
a `QueryError` while statements are re-run for the score, of the reference too, is a wrong
answer and not an unmeasured case (`evals/runner.py:192`, 213), so an outage of the business
database depresses the rates; and as the first statement may be run once more (`runner.py:230`),
a database that is busy once yields a first try that passed in a case that did not.

Definitions: a time the patterns know in part is neither read as meant nor left as a gap
(`periods.py:236` on); with any of the first four, the guard `Readable` left out, TLC finds
`QuestionsAreReadInFull` violated at once:

- a year alone, 「2025年新增用户」, has no period and is counted over all time;
- a month and day without a year, 「3月5日」, is all of March;
- 「去年8月」 and 「今年8月」 are last year, or this one to date;
- an impossible month, 「2024年13月」, and 最近0天 are passed over silently and counted over
  all time, where `periods.py:8` promises a refusal of "an impossible date";
- 「广告和抖音渠道」, a declared value joined to an undeclared one, restricts nothing, and of
  「渠道为广告和推荐」 only the first value is read;
- an undeclared word before a dimension's name is noticed only where a clause begins or
  after a character of `_BREAKS`, so not straight behind a date in digits;
- a split by an undeclared word is noticed in the shapes 各…的 and 按…分组 only.

And two sides of a disagreement adopted in one act give two rules with one key; of two
quotes with the same wording the last citation is kept; a "no data" note may be out of date
by the time the query runs.

Knowledge: an import never deletes rows, so text that was removed stays searchable and
citable; the start line is part of a section's id, so a line inserted above it gives it
another (`chunker.py:91`, although the docstring there says the ids do not move), and
because the sort is stable over the order of the table and a replaced row goes to its end,
`limit` copies of a section that kept moving hide the fresh one for good (`provider.py:148`;
`FinishedImportsAreSearchable` says exactly that much); every import resets vectors, so all
text is sent again where `cli.py:752` prints that text with a vector is not; the semantic
search passes over rows not yet embedded; of two workspaces whose directories overlap the
last one imported takes the rows; an undecodable file, or one that vanishes between listing
and reading, ends the whole import; a search that read the vectors before an import replaced
a row ranks the new text by the old one's vector (`provider.py:161`), and two concurrent
imports could store a vector of a replaced text: `VectorsDescribeTheirText` speaks of the
table and of one import at a time; changing the embedding model leaves the old vectors;
`revoke_workspace` has no caller outside evals and tests.

## What is proved

For every value of the constants that satisfies the module's named assumption, with no
bound on processes, people, rules, documents, threads or rows.

**Workflow.** `TypeOK` is not inductive: what a step reads from a table is typed only if the
row is there. `TypeInv` adds which rows each process refers to at each step (`LocalFits`)
and that the tables' references to each other are good (`RowsFit`); `TypeCorrect` and
`WellTyped` follow. `SafetyInv` adds what the process carries from one read to the next.
From the evidence check until the run is finished, an executing process holds a definition
that equals its confirmation's, for that confirmation's draft and person
(`AgreesWithConfirmation`); every confirmation was given by a person for a complete
definition (`ConfsSafe`); two processes about to ask never hold the same run
(`RunsHeldApart`), and the run one of them holds has had no query yet. The confirmation
table being insert-only is what makes this inductive: an amendment can change the draft at
any step, but not what was confirmed, and the process no longer looks at the draft.
`GateHolds` (`RunsOnlyWhatAPersonConfirmed`), `KeysAskOnce` (`OneQueryPerKey`) and
`PeopleAreKeptApart` (`PeopleKeepToTheirDrafts`) are consequences. A sheet's probe is of no
run, so it adds nothing to what a run has asked; `GateHolds` excepts it, and only where
`Probing` is set.

The rest builds on them. `TheGateIsImplemented` is the refinement: under the mapping of
`Workflow`'s `Gate`, saving a confirmation is an approval, claiming a run is a claim under
it, each statement is asked as it was claimed (`SentAsClaimed`) and for the first time,
since the claim's run has had no statement of its kind and no query yet, and every other
step keeps confirmations, and of a run what a claim is made of, so it is a stutter.
`PendingListAgrees` follows from `ConfsSafe`. `WithdrawnEvidenceStops` needs to say where a
lost citation is while it has not been looked up (`LostIsSeen`): among the stored citations
before they are read, among those read before the index is asked. Citations being only ever
added carries it over other processes' steps. It speaks of `Checkers`; of the others it
would be false: they check nothing. `AmendmentsAreKept` needs `AmendInv`: nothing a process
holds of a draft is newer than the draft, and when the version an amendment was built on is
still the draft's, so is the definition. It supposes `~Guessing`, without which it is false.

**Budget.** `LedgerInv` says that a day's count is the number of statements reserved
(`Counted`), that what was sent is among them, and that what each process has still to send
is reserved, unsent and its alone (`Pending`): without the last, a refund could take back a
statement another process had sent. `LedgerWellTyped`, `LedgerIsNoUndercount` and
`AllowanceHolds` follow. `LeasesAreExclusive` and `LeasesAreHardlyOutlived` need a second
invariant, `SlotInv`: a request that executes has its own row in the table until the row
expires, and what it may still do ends at most `MaxLate` after that. The first half gives
each request with an unexpired lease a row of its own among those an admission counts,
though it counts at a time read before its wait; the second is preserved by `Tick` because a
lease is granted for `Timeout + Margin` for each statement. Nothing is assumed of the
margin. With the default settings (5 s of margin, up to 10 s to connect and 10 s for the
lock, the rows moved at once) `MaxLate` is 20 s; only where it is below zero would the limit
hold for all requests that execute. `SecondsOvershootIsBounded` has its own invariant,
`SecondsInv`, which bounds together what is charged to an allowance and what the executing
requests can still be charged: a recorded statement moves from the second to the first, and
only an admission adds to the second, when the first is below the limit. It does not use the
slots, so the bound counts the person's processes.

**Pool.** `PoolInvariant`: the step a thread is at says whether it holds a connection, each
open connection is in the queue once or with one thread, and the lock is with the thread
that opens. From it `TheCountIsExact` (a counting argument over three disjoint sets that a
step moves one element between) and `ConnectionsHaveOneUser`.

**Knowledge.** `IndexInvariant`: the rows, hits and chunks that an import and a question
hold in memory agree with the table as it is now. `SearchesKeepTheirScope`,
`VectorsFollowTexts` and `ImportsKeepCitations` follow. It needs every source to name a
workspace and documents (`IndexAssumption`; the import refuses to start without sources).
`FinishedImportsAreFound` needs a second invariant, `TakenInv`: of every document reported
as taken in, each section is in the table with its text or still to be written, and a row
that lacks the vector it should have is of the source the import is in
(`EverySectionIsTaken`, `Waits`); a second reading of a document replaces rows by rows of
the same sections (`WorkIsReported`). It then has to compare two counts: what stands ahead
of a section in the answer comes from rows that share as many words, so a section that is
missing was outranked by as many of these as the search returns (`FoundOrOutranked`). A
document is a finite list of lines of words (`ContentsAssumption`), a question a finite set.
`VectorsFollowTexts` is about the table and one import at a time; see the behaviour listed
above for the two ways around it.

**Ask.** `AskInv` ties what a run counts to the turn it is at (`Counted`): a model call under
way has been counted, at most as many calls as earlier turns were dispatched, the last
one sent is the one the next proposal is compared with, and only the plain call at the end
is one call more. Why a proposal is never the same as the call sent before it needs the
last of these: a reply that cannot be used leaves `last` as it was. From it
`RunsAreBounded`; that nothing but reading statements is sent also needs
`StatementAssumption`: a statement that does more shows it in one of the things the safety
check looks at, which a function with side effects called from a `SELECT` would not. (Its
other part, that a statement's text has a size, holds of any text.)
`RunsEndOnce` follows from every event list a step emits either going on or ending
(`GoesOn`, `Ends`), `MemoryHolds` from where each remembered turn is before and after the
oldest is dropped (`TwoMore`).

`RunInv` is a second invariant, which rests on `AskInv`. A result in a run's history stands
behind its call and costs what the tool's formatting can make of a result
(`HistoryShaped`); the question grows by a reply at a time (`QuestionShaped`); the file's
whole lines end in this run's events and name every call dispatched and the one about to be
(`Tells`, which has to say so of the lines before a torn one); a run that has written nothing
yet was left room for its file, or pruning would take the trace of a run still going
(`FilesKept`). `TracesNameEveryCall` follows. What is sent to the model is computed from this
state, so the other three are about `Trim` alone: after as many rounds as there are messages
it leaves the rest of the list from some place on, and that place is the first that fits,
moved past the result whose call went (`TrimFacts`, `DroppedAt`). The histories pair up, so
no pair is cut (`TrimKeepsPairs`, `PairsAreSentWhole`); the list with what went last does not
fit (`LastPairDidNotFit`) and the current run is trimmed only when nothing of the past is left
(`PastGoesFirst`), hence `TrimmingLosesLittle`. `ResultsAreSeen` needs `RoomForATurn`: the
prompt, a question with its replies, one call and its result fit the budget together. It is
a condition on the settings, which the run's instance meets and the code does not enforce:
with a budget below it the newest result itself is dropped.

**Batch.** `BatchInv` says what each step of a batch holds. `Covered`: every case is reported,
in the current group or in a group to come, and in one of these only; those of the current
group not yet reported are waiting or with a worker. `OneSignature`: results and checkpoint
were made under the batch's signature. `Logged`: the checkpoint has lines only about cases
that were read from it at the start, are reported, were drained, or were finished beside a
worker that failed; without it a case could get a second line. `PaidOrLost`: a measured
result is in the checkpoint, finished and not yet appended, or in `lost`. `OutageSeen`: the
unmeasured results at the end of those collected are no more than the guard's count, and
once it has stopped, the limit and those still in flight together bound them. `Reports`: what
was reported when the process has left with a report. `CasesAreReportedOnce`,
`PaidResultsSurviveAlways`, `ResumesContinueTheirRun` and `OutagesAlwaysStopTheBatch` follow.
The assumption: a suite names a case once (`SuiteAssumption`; the loader of one's own cases
refuses a second of an id, that of the public ones renames it).

**Definitions.** The calendar comes first: each day from day 1 on lies in one year and one
month, whose first and last day are what `FirstOf` and `YearStart` say, for every year of
the Gregorian rule. So whatever pattern reads a time word makes a range of days that begins
in the calendar, or refuses. `Sound` is the invariant (`AlwaysSound`): a definition is a list
of rules whose period, if it has one, is such a range; a complete one lacks nothing; what a
draft is about to send was compiled from its definition and a declared entry that can apply
it, and a run's answer is what that statement gave over the rows loaded when it ended. From
it `AnswersCountTheConfirmedRowsAlways`: the bound parameters of the half-open range select
the days of the closed period, a refused filter or split never reaches the statement, each
dialect's expression of a week or a month is the group's first day (`GrainSqlIsTheBucket`,
SQLite's steps to a Monday included), a period's groups are those of its days, and one
reaches outside it exactly when the sheet says so (`BucketsOfAPeriod`, `EdgesOfAPeriod`). And
`CoverageIsNeverOverstated`: the newest record dated before the rows were counted lies after
the period, so a row loaded in between, which is no older (`RowsInOrder`), is none of its
rows. `Sourced` is the second invariant, about where the rules of a draft come from: its
documented rules are claims of the output its question got, its reading is what the
wordings leave (`Explains`), and each recalled rule was taught by an earlier run of the same
person that stands (`Teaches`), however drafts are amended in between and however often a
choice was recalled. `DocumentsOnlyExplainAlways` and `RememberedChoicesOnlyFillGapsAlways`
follow. `DefinitionsAssumption` says that words carry days, months and declared metrics, that
what they count back to lies in the calendar, that work is done after year 2, and that a
declared time column holds days.

`QuestionsAreReadInFullAlways` is about the finders. They scan the flat text of a question,
and the property speaks of the phrases it is made of, so the proof first says where a phrase
lies in the text. The period patterns are tried in their order, each over what the ones
before left: a whole phrase matches its own pattern where it lies, and any other match
overlaps a phrase an earlier pattern has taken, so what is left to each pattern is the
phrases of its form and nothing else. `PeriodsAreReadAsMeant`, `GroupingsAreReadAsMeant` and
`FiltersAreReadAsMeant` say what follows for each finder: what it returns is what every such
phrase in the question means, several meanings are refused, and it returns nothing only
where no phrase is. `Heard` is the invariant that carries this to the sheet: what a draft
began with is what the finders read in its own question, and neither the documents nor a
preselected reading replaces or fills a period, a split or a value. There is no hypothesis
on the questions: any course of any texts is allowed, and the property speaks of a draft
whose question is `Readable`, whatever was asked before it. Readable are phrases of the
forms the finders have (a time word whose month is in 1..12 and whose count is positive, a
split, a value of a dimension that declares values, a distribution, or none of these), each
`Apart` from the next. That is not only by text in between: a word that opens a phrase
whatever stands before it, or one that a word of its own may follow, will do, as in
`SideBySide`; what is left out are neighbours the patterns may read as one, a word straight
before the next phrase's dimension or a month behind a year. Of a question that is not
readable nothing is claimed, and the list above says what the code makes of some. What the
guard does not weaken: a readable phrase that is unclear, impossible (a 30th of February),
undeclared or one of several has to leave its gap.

**Induction over data.** What a filter keeps, a sum adds up to or a trimmed list comes to for
every input is proved where the definition is a function of the length looked at (`Sift`,
`Context`): its value at each length exists and is a step from the one before, by induction
on a set of lengths (`NatSetInduction`), as in `SiftProofs`. A fold of the library's
cannot be treated that way, because its own definition is a recursion over sets that the
provers do not unfold.

Only model-checked: the liveness properties (`ClaimedRunsSettle`, `EveryQuestionEnds`,
`EveryBorrowerIsServed`, `EveryBatchEnds`), which are out of the prover's reach.

## Not modelled

- Workflow and budget in one module: each carries what it needs of the other (`Admit` and
  `Refuse` there, `Claim` here), and the product's state space is out of reach of a useful
  run. The hazard it would show, a caller admitted for a run that another one claims, is in
  `Budget` as the refund.
- What the freshness advisory says, its cache and the declared cadence: printed beside a
  sheet, never stored with, hashed into or compared with what is confirmed or run. (The
  probes it sends are `Workflow`'s; each is admitted by the budget as a request of one
  statement, which is an `Asker` of `Budget`.)
- The web session: one request's cookie and form token compared with one secret.
- `safety.py`'s parser (`Ask` takes the checks it makes of a statement), the parameter
  styles and the other connectors, which hold one connection and no state of their own.
- Comparing result sets column by column, prices, the public subset's download and the
  scenarios' scripts of the evaluation.
- Rendering, wording and SQL text; metric files, configuration and serialisation; the
  quality of a model's answers.
