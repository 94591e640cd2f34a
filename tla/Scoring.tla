------------------------------ MODULE Scoring -------------------------------
(***************************************************************************)
(* How one evaluation case is scored and how the scores add up in the      *)
(* report.  A run of the agent is what its event stream folds to; a        *)
(* statement is what the database returns for it when it is run again.     *)
(***************************************************************************)
EXTENDS Failures, Sift, SequencesExt, FiniteSets, TLC

\* A cell: a number in units of 1/100000 as an integer, a boolean or a float
\* column returns it, a text, or NULL.
Rounded(n) ==   \* to four decimals, halves to the even neighbour
  LET low == n \div 10  rest == n % 10 IN
  IF rest > 5 \/ (rest = 5 /\ low % 2 = 1) THEN 10 * (low + 1) ELSE 10 * low
NormalizeValue(cell) ==
  CASE cell.type = "null" -> "NULL"
    [] cell.type = "float" -> ToString(Rounded(cell.value))
    [] cell.type = "bool" -> ToString(100000 * cell.value)
    [] OTHER -> ToString(cell.value)
NormalizeRow(row) == [i \in DOMAIN row |-> NormalizeValue(row[i])]

\* Equal as multisets of normalised rows.
Count(rows, row) == Cardinality({i \in DOMAIN rows : NormalizeRow(rows[i]) = row})
RowsMatch(expected, actual) ==
  /\ Len(expected) = Len(actual)
  /\ \A i \in DOMAIN expected :
       Count(expected, NormalizeRow(expected[i])) = Count(actual, NormalizeRow(expected[i]))

\* A statement reproduces the reference: both return all their rows, the same.
Reproduces(expected, sql) ==
  /\ ~sql.fails /\ ~sql.truncated /\ ~expected.truncated
  /\ RowsMatch(expected.rows, sql.rows)

\* The first statement is run once more for the first-try score; a busy
\* database may answer this time.
Again(sql) == [sql EXCEPT !.fails = sql.failsAgain]

Failed(case) ==
  [case |-> case.id, kind |-> case.kind, passed |-> FALSE, completed |-> FALSE,
   first |-> FALSE, mentioned |-> "n/a", clarified |-> "n/a", unmeasured |-> FALSE,
   retryable |-> FALSE]

\* A case whose database cannot be used: it costs a failure, not the suite.
UnscoreableCase(case) == Failed(case)

Successful(run) == Sifted(run.executed, {s \in ToSet(run.executed) : ~s.wasError})

\* Each text is re-run once, the last one first: agents verify after the
\* answer, so any of them may carry it.
Reruns(run) ==
  LET s == Successful(run) IN
  {i \in DOMAIN s : ~\E j \in DOMAIN s : j > i /\ s[j].text = s[i].text}
Hits(expected, run) == {i \in Reruns(run) : Reproduces(expected, Successful(run)[i])}

\* The first try passes as the text that matched, or by a run of its own.
FirstPasses(expected, run) ==
  LET first == run.executed[1]  hits == Hits(expected, run) IN
  /\ ~first.wasError /\ ~expected.truncated
  /\ \/ hits # {} /\ first.text = Successful(run)[Max(hits)].text
     \/ Reproduces(expected, Again(first))

RunCase(case, run) ==
  LET
    named == case.metrics \subseteq run.names
    asked == run.clarify # "none"
    completed == run.answered /\ ~run.error /\ ~asked
    mentioned == IF case.kind = "metric" /\ case.metrics # {} THEN ToString(named) ELSE "n/a"
    clarified == IF case.kind = "no_clarify" THEN ToString(~asked) ELSE "n/a"
    scored == [Failed(case) EXCEPT !.mentioned = mentioned, !.clarified = clarified]
  IN
  CASE run.raised # "none" ->
         [Failed(case) EXCEPT
            !.unmeasured = BlocksMeasurement(run.raised), !.retryable = IsTransient(run.raised)]
    [] run.raised = "none" /\ case.kind = "clarify" ->
         LET ok == asked /\ case.metrics \subseteq run.clarify IN
         [scored EXCEPT !.passed = ok, !.first = ok, !.completed = ~run.error,
                        !.clarified = ToString(ok)]
    [] run.raised = "none" /\ case.kind # "clarify" /\ Successful(run) = <<>> ->
         scored
    [] run.raised = "none" /\ case.kind # "clarify" /\ Successful(run) # <<>>
         /\ case.expected.fails -> scored
    [] OTHER ->
         [scored EXCEPT
            !.passed = Hits(case.expected, run) # {},
            !.completed = completed,
            !.first = FirstPasses(case.expected, run)]

\* The counters behind the report's rates.
Aggregate(results) ==
  LET
    N(P(_)) == Cardinality({i \in DOMAIN results : P(results[i])})
    Queried(r) == ~r.unmeasured /\ r.kind # "clarify"
  IN
  [total           |-> Len(results),
   unmeasured      |-> N(LAMBDA r : r.unmeasured),
   result_cases    |-> N(Queried),
   first_pass      |-> N(LAMBDA r : Queried(r) /\ r.first),
   final_pass      |-> N(LAMBDA r : Queried(r) /\ r.passed),
   completed_hits  |-> N(LAMBDA r : Queried(r) /\ r.passed /\ r.completed),
   metric_cases    |-> N(LAMBDA r : ~r.unmeasured /\ r.mentioned # "n/a"),
   metric_hits     |-> N(LAMBDA r : ~r.unmeasured /\ r.mentioned = "TRUE"),
   clarify_cases   |-> N(LAMBDA r : ~r.unmeasured /\ r.clarified # "n/a"),
   clarify_correct |-> N(LAMBDA r : ~r.unmeasured /\ r.clarified = "TRUE")]
=============================================================================
