----------------------------- MODULE EvalBatch ------------------------------
(***************************************************************************)
(* `queryagent eval`, over several processes: one suite of cases scored by *)
(* a pool of workers, each measured case appended to a checkpoint at once, *)
(* an outage guard that stops a batch, Ctrl-C, kills and --resume.  Only   *)
(* the main thread writes; workers run cases and hand over their scores.   *)
(***************************************************************************)
EXTENDS Scoring

CONSTANTS
  Suite,          \* the cases' ids by database, as the public mode groups them
  Case,           \* the case of each id
  Runs,           \* what a run of the agent may come to
  Models,         \* what the command line may change between two processes
  Concurrency,    \* --concurrency
  Limit,          \* MAX_CONSECUTIVE_OUTAGES
  MaxProcesses    \* bound

ASSUME BatchAssumption ==
  Concurrency \in Nat \ {0} /\ Limit \in Nat \ {0} /\ MaxProcesses \in Nat

\* A suite names no case twice: the loader of one's own cases refuses a second
\* of an id, and that of the public ones renames it.
ASSUME SuiteAssumption ==
  /\ Suite \in Seq(Seq(DOMAIN Case))
  /\ \A g, h \in DOMAIN Suite : \A i \in DOMAIN Suite[g], j \in DOMAIN Suite[h] :
       Suite[g][i] = Suite[h][j] => g = h /\ i = j
  /\ \A c \in DOMAIN Case : Case[c].id = c

Cases == UNION {ToSet(Suite[i]) : i \in DOMAIN Suite}
Killed == 137   \* what the shell sees of a killed process
\* The signature: the suite's source (and with it the mode) and the model.
Signatures == [mode : {"self", "public"}, model : Models]
Groups(mode) == IF mode = "public" THEN Suite ELSE <<FlattenSeq(Suite)>>

NoFile == [there |-> FALSE, lines |-> <<>>]
Torn == [type |-> "torn"]         \* a line that does not parse
Partial == [type |-> "partial"]   \* one with no newline behind it
None == "none"
NoExit == 0 - 1
Unsigned == [mode |-> None, model |-> None]

VARIABLES
  pc,        \* where the process is: "off", "between" two groups, in a
             \* "group", at an "unusable" or "aborted" one, or "draining"
  signature, \* the run's
  log,       \* the checkpoint on disk
  done,      \* the results read from it at the start
  todo,      \* the groups to come; the first is the current one
  pending,   \* the group's cases not yet handed to a worker
  active,    \* the futures: a case, its state and its result
  results,   \* the results collected for the report
  streak,    \* the guard's count
  outage,    \* the result that made the guard stop the batch, if one did
  exit,      \* the last process's exit code
  processes, \* how many have started
  paid,      \* ghost: every measured result of this checkpoint's run
  lost       \* ghost: those a kill, or a worker that failed, took along

vars == <<pc, signature, log, done, todo, pending, active, results, streak,
          outage, exit, processes, paid, lost>>

(***************************************************************************)
(* The checkpoint.                                                         *)
(***************************************************************************)
Signature(lines) ==
  IF lines # <<>> /\ Head(lines).type = "signature" THEN Head(lines).signature ELSE Unsigned

\* Where the lines are that hold a result.
Readable(lines) == {i \in DOMAIN lines : lines[i].type = "result"}

\* Of two lines about a case the later one counts.
Recorded(lines) ==
  {lines[i].result : i \in {k \in Readable(lines) :
     ~\E j \in Readable(lines) : j > k /\ lines[j].result.case = lines[k].result.case}}
ResultFor(rs, c) == CHOOSE r \in rs : r.case = c
CasesOf(rs) == {r.case : r \in rs}

\* A partial tail gets its newline, so that the next record has its own line.
Isolated(lines) ==
  IF lines # <<>> /\ Last(lines) = Partial THEN Append(Front(lines), Torn) ELSE lines

Line(r) == [type |-> "result", result |-> r]
SignatureLine(s) == [type |-> "signature", signature |-> s]

Glued(file, r) ==
  IF file.lines # <<>> /\ Last(file.lines) = Partial
    THEN [there |-> TRUE, lines |-> Append(Front(file.lines), Torn)]
    ELSE [there |-> TRUE,
          lines |-> Append(IF file.there THEN file.lines
                           ELSE <<SignatureLine(signature)>>, Line(r))]

\* Only a file that did not exist gets a signature line.
Appended(file, r) ==
  [there |-> TRUE,
   lines |-> Append(IF file.there THEN Isolated(file.lines)
                    ELSE <<SignatureLine(signature)>>, Line(r))]

\* What a kill may leave of an append: the file as it was opened, or with a
\* part of what was flushed.
TornAppends(file) ==
  IF file.there THEN {[file EXCEPT !.lines = Append(Isolated(@), Partial)]}
  ELSE {[there |-> TRUE, lines |-> l] :
          l \in {<<>>, <<Partial>>, <<SignatureLine(signature), Partial>>}}

(***************************************************************************)
(* The process.                                                            *)
(***************************************************************************)
Init ==
  /\ pc = "off" /\ signature \in Signatures /\ log = NoFile /\ done = {}
  /\ todo = <<>> /\ pending = <<>> /\ active = {} /\ results = <<>>
  /\ streak = 0 /\ outage = None /\ exit = NoExit /\ processes = 0
  /\ paid = {} /\ lost = {}

\* What a process holds in memory goes with it; a report keeps its results.
Forget ==
  /\ done' = {} /\ todo' = <<>> /\ pending' = <<>> /\ active' = {}
  /\ streak' = 0 /\ outage' = None

Begin(resume) ==
  /\ pc' = "between" /\ todo' = Groups(signature'.mode)
  /\ results' = <<>> /\ exit' = NoExit
  /\ UNCHANGED <<pending, active, streak, outage>>
  /\ log' = IF resume THEN log ELSE NoFile
  /\ done' = IF resume THEN Recorded(log.lines) ELSE {}
  /\ paid' = IF resume THEN paid ELSE {}
  /\ lost' = IF resume THEN lost ELSE {}

ContinuesAnything(file, s) == file.lines # <<>> \/ ~file.there

Continues(file, s) == ~file.there \/ Signature(file.lines) = s

Start ==
  /\ pc = "off" /\ processes < MaxProcesses /\ processes' = processes + 1
  /\ signature' \in Signatures
  /\ \E resume \in BOOLEAN : (resume => Continues(log, signature')) /\ Begin(resume)

\* ResumeMismatch: the command ends before anything is read or written.
Refuse ==
  /\ pc = "off" /\ processes < MaxProcesses /\ processes' = processes + 1
  /\ signature' \in Signatures /\ ~Continues(log, signature')
  /\ exit' = UserError /\ results' = <<>>
  /\ UNCHANGED <<pc, log, done, todo, pending, active, streak, outage, paid, lost>>

Unfinished(group) == Sifted(group, Cases \ CasesOf(done))
Earlier(group) ==
  LET old == Sifted(group, CasesOf(done)) IN
  [i \in DOMAIN old |-> ResultFor(done, old[i])]

OpenGroup ==
  /\ pc = "between" /\ todo # <<>>
  /\ pc' = "group" /\ pending' = Unfinished(Head(todo))
  /\ results' = results \o Earlier(Head(todo))
  /\ UNCHANGED <<signature, log, done, todo, active, streak, outage, exit,
                 processes, paid, lost>>

\* One unusable database costs its own cases; the other mode has only one.
Unusable ==
  /\ pc = "between" /\ todo # <<>> /\ signature.mode = "public"
  /\ pc' = "unusable" /\ pending' = Head(todo)
  /\ UNCHANGED <<signature, log, done, todo, active, results, streak, outage,
                 exit, processes, paid, lost>>

\* _OutageGuard.record
Streak(n, r) == IF r.unmeasured THEN n + 1 ELSE 0

(***************************************************************************)
(* One case.                                                               *)
(***************************************************************************)
\* A result carries the signature it was made under (ghost).
Signed(r, s) == [k \in DOMAIN r \cup {"by"} |-> IF k = "by" THEN s ELSE r[k]]
Made(r) == Signed(r, signature)
Score(c, run) == Made(RunCase(Case[c], run))
Unscoreable(c) == Made(UnscoreableCase(Case[c]))
Finished == {a \in active : a.state = "finished"}
Broken == {a \in active : a.state = "raised"}
Kept == {a \in active : a.state = "kept"}

Future(c, state, r) == [case |-> c, state |-> state, result |-> r]
NoScore == [unmeasured |-> TRUE]

AdmitThroughOutage ==
  /\ pc = "group" /\ pending # <<>>
  /\ Cardinality(active) < Concurrency
  /\ active' = active \cup {Future(Head(pending), "running", NoScore)}
  /\ pending' = Tail(pending)
  /\ UNCHANGED <<pc, signature, log, done, todo, results, streak, outage, exit,
                 processes, paid, lost>>

\* Cases are handed out in order, at most Concurrency at once, until an outage.
Admit ==
  /\ pc = "group" /\ outage = None /\ pending # <<>>
  /\ Cardinality(active) < Concurrency
  /\ active' = active \cup {Future(Head(pending), "running", NoScore)}
  /\ pending' = Tail(pending)
  /\ UNCHANGED <<pc, signature, log, done, todo, results, streak, outage, exit,
                 processes, paid, lost>>

\* A worker is done with its case; what it measured has been paid for.
Finish ==
  /\ pc \in {"group", "draining"}
  /\ \E a \in active, run \in Runs :
       LET r == Score(a.case, run) IN
       /\ a.state = "running"
       /\ active' = (active \ {a}) \cup {Future(a.case, "finished", r)}
       /\ paid' = IF r.unmeasured THEN paid ELSE paid \cup {r}
  /\ UNCHANGED <<pc, signature, log, done, todo, pending, results, streak,
                 outage, exit, processes, lost>>

\* A worker could not be built: its connector or its runner raised.
WorkerFails ==
  /\ pc \in {"group", "draining"}
  /\ \E a \in active :
       /\ a.state = "running"
       /\ active' = (active \ {a}) \cup {Future(a.case, "raised", NoScore)}
  /\ UNCHANGED <<pc, signature, log, done, todo, pending, results, streak,
                 outage, exit, processes, paid, lost>>

\* _record, and the same without the guard once an outage was seen.
Record(r) ==
  /\ results' = Append(results, r)
  /\ log' = IF r.unmeasured THEN log ELSE Appended(log, r)
  /\ IF outage # None THEN UNCHANGED <<streak, outage>>
     ELSE /\ streak' = Streak(streak, r)
          /\ outage' = IF streak' < Limit THEN None
                       ELSE IF r.retryable THEN "retryable" ELSE "refused"

Collect ==
  /\ pc = "group" /\ Kept = {}
  /\ \E a \in Finished :
       /\ Record(a.result)
       /\ active' = (active \ {a}) \cup {Future(a.case, "kept", a.result)}
  /\ UNCHANGED <<pc, signature, done, todo, pending, exit, processes, paid, lost>>

\* active.remove: an interrupt may come between the write and this.
Release ==
  /\ pc = "group" /\ Kept # {} /\ active' = active \ Kept
  /\ UNCHANGED <<pc, signature, log, done, todo, pending, results, streak,
                 outage, exit, processes, paid, lost>>

(***************************************************************************)
(* The end of a group.                                                     *)
(***************************************************************************)
Results(futures) == {a.result : a \in futures}
Measured(futures) == {r \in Results(futures) : ~r.unmeasured}

WholeGroup == Head(todo)

\* The group's cases with no result yet, those an interrupt saved included.
Uncollected ==
  Sifted(Head(todo), Cases \ {results[i].case : i \in DOMAIN results})

\* An exception leaves the batch: the executor waits for the others and drops
\* them.  The public mode goes on with the next database.
Abort ==
  /\ pc \in {"group", "draining"} /\ Broken # {}
  /\ lost' = lost \cup {r \in paid : r.case \in ToSet(Uncollected)}
  /\ IF signature.mode = "public"
       THEN /\ pc' = "aborted" /\ pending' = Uncollected
            /\ active' = {} /\ outage' = None
            /\ UNCHANGED <<done, todo, results, streak, exit>>
       ELSE pc' = "off" /\ exit' = ExitCode("connector") /\ results' = <<>> /\ Forget
  /\ UNCHANGED <<signature, log, processes, paid>>

\* The group's cases are failures now; an earlier result is kept.
RecordUnusable ==
  /\ pc = "unusable" /\ pending # <<>> /\ pending' = Tail(pending)
  /\ LET c == Head(pending) IN
     IF c \in CasesOf(done)
       THEN /\ results' = Append(results, ResultFor(done, c))
            /\ UNCHANGED <<log, streak, outage>>
       ELSE Record(Unscoreable(c))
  /\ UNCHANGED <<pc, signature, done, todo, active, exit, processes, paid, lost>>

RecordAborted ==
  /\ pc = "aborted" /\ pending # <<>> /\ pending' = Tail(pending)
  /\ LET r == Unscoreable(Head(pending)) IN
     results' = Append(results, r) /\ log' = Appended(log, r)
  /\ UNCHANGED <<pc, signature, done, todo, active, streak, outage, exit,
                 processes, paid, lost>>

NextGroup ==
  /\ pc \in {"group", "unusable", "aborted"} /\ outage = None
  /\ pending = <<>> /\ active = {}
  /\ pc' = "between" /\ todo' = Tail(todo)
  /\ UNCHANGED <<signature, log, done, pending, active, results, streak, outage,
                 exit, processes, paid, lost>>

StopAfterTheGroup ==
  /\ pc = "group" /\ outage # None /\ active = {} /\ pending = <<>>
  /\ pc' = "off" /\ exit' = IF outage = "retryable" THEN Temporary ELSE UserError
  /\ results' = <<>> /\ Forget
  /\ UNCHANGED <<signature, log, processes, paid, lost>>

\* UpstreamOutage, once the futures in flight have been collected.
StopForOutage ==
  /\ pc = "group" /\ outage # None /\ active = {}
  /\ pc' = "off" /\ exit' = IF outage = "retryable" THEN Temporary ELSE UserError
  /\ results' = <<>> /\ Forget
  /\ UNCHANGED <<signature, log, processes, paid, lost>>

WriteReport ==
  /\ pc = "between" /\ todo = <<>> /\ pc' = "off"
  /\ exit' = IF \A i \in DOMAIN results : results[i].passed /\ results[i].completed
               THEN OK ELSE EvalFailed
  /\ Forget /\ UNCHANGED <<signature, log, results, processes, paid, lost>>

(***************************************************************************)
(* Ctrl-C and kills.                                                       *)
(***************************************************************************)
\* With several workers the batch is drained first; a second Ctrl-C, or one
\* anywhere else, ends the process.
Interrupt ==
  /\ pc # "off"
  /\ IF pc = "group" /\ Concurrency > 1
       THEN /\ pc' = "draining"
            /\ UNCHANGED <<done, todo, pending, active, results, streak, outage,
                           exit, lost>>
       ELSE /\ pc' = "off" /\ exit' = Interrupted /\ results' = <<>> /\ Forget
            /\ lost' = lost \cup (Measured(Finished) \ Recorded(log.lines))
  /\ UNCHANGED <<signature, log, processes, paid>>

\* What was measured is written unless the interrupt came just after it was.
Drained(file, r) ==
  IF r.unmeasured \/ r.case \in CasesOf(Recorded(file.lines)) THEN file
  ELSE Appended(file, r)

Drain ==
  /\ pc = "draining" /\ Broken = {}
  /\ \E a \in Finished \cup Kept : log' = Drained(log, a.result) /\ active' = active \ {a}
  /\ UNCHANGED <<pc, signature, done, todo, pending, results, streak, outage,
                 exit, processes, paid, lost>>

LeaveInterrupted ==
  /\ pc = "draining" /\ active = {} /\ pc' = "off" /\ exit' = Interrupted
  /\ results' = <<>> /\ Forget
  /\ UNCHANGED <<signature, log, processes, paid, lost>>

\* The main thread may be about to write: a measured case, or a failure of a
\* database that could not be used.
Writing ==
  \/ Measured(Finished) # {}
  \/ pc = "unusable" /\ pending # <<>> /\ Head(pending) \notin CasesOf(done)
  \/ pc = "aborted" /\ pending # <<>>

\* At any point, in the middle of a write too.
Kill ==
  /\ pc # "off" /\ pc' = "off" /\ exit' = Killed /\ results' = <<>> /\ Forget
  /\ lost' = lost \cup (Measured(Finished) \ Recorded(log.lines))
  /\ log' \in {log} \cup (IF Writing THEN TornAppends(log) ELSE {})
  /\ UNCHANGED <<signature, processes, paid>>

Work ==
  \/ OpenGroup \/ Unusable \/ Admit \/ Finish \/ WorkerFails \/ Collect \/ Release
  \/ Abort \/ RecordUnusable \/ RecordAborted \/ NextGroup \/ StopForOutage
  \/ WriteReport \/ Drain \/ LeaveInterrupted
Next == Start \/ Refuse \/ Work \/ Interrupt \/ Kill

\* The process goes on, and a run of the agent ends (Ask!EveryQuestionEnds).
Spec == Init /\ [][Next]_vars /\ WF_vars(Work)

(***************************************************************************)
(* Properties.                                                             *)
(***************************************************************************)
\* The state of a process and of its checkpoint.
TypeOK ==
  /\ pc \in {"off", "between", "group", "unusable", "aborted", "draining"}
  /\ signature \in Signatures
  /\ \A l \in ToSet(log.lines) :
       l \in {Torn, Partial} \/ l.type \in {"signature", "result"}
  /\ \A i \in DOMAIN log.lines : log.lines[i] = Partial => i = Len(log.lines)
  /\ Cardinality(active) <= Concurrency
  /\ streak \in 0 .. Len(results) /\ outage \in {None, "retryable", "refused"}
  /\ processes \in 0 .. MaxProcesses

\* A report has every case exactly once, whatever was resumed, unusable or
\* aborted on the way, and the command exits 0 only when each was measured and
\* answered; so no rate is over a suite other than the one that was asked for.
EveryCaseIsReportedOnce ==
  exit \in {OK, EvalFailed} =>
    /\ \A c \in Cases :
         Cardinality({i \in DOMAIN results : results[i].case = c}) = 1
    /\ exit = OK => LET a == Aggregate(results) IN
         a.unmeasured = 0 /\ a.completed_hits = a.result_cases

\* "Each finished case is appended as it completes": a measured result is in
\* the checkpoint, or still in the process's hands, unless a kill or a worker
\* that failed took it.  No outage, Ctrl-C or resume loses one.
PaidResultsSurvive ==
  paid \ (lost \cup IF pc = "off" THEN {} ELSE Results(Finished)) \subseteq Recorded(log.lines)

\* A resumed batch is the same experiment: what it reports was measured under
\* its own signature, and no case with a readable result is asked again.
AResumeContinuesItsRun ==
  /\ \A i \in DOMAIN results : pc # "off" => results[i].by = signature
  /\ {a.case : a \in {b \in active : b.state = "running"}} \cap CasesOf(Recorded(log.lines)) = {}

\* An outage stops the batch: over the whole suite, not one database, at most
\* Limit unmeasured cases in a row and those already in flight.
OutagesStopTheBatch ==
  \A i \in DOMAIN results : \E j \in i .. i + Limit + Concurrency - 1 :
    j \notin DOMAIN results \/ ~results[j].unmeasured

\* A batch that was started ends, in a report or with what stopped it.
EveryBatchEnds == pc # "off" ~> pc = "off"
=============================================================================
