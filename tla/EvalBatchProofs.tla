--------------------------- MODULE EvalBatchProofs ---------------------------
(***************************************************************************)
(* Proofs about EvalBatch, for every suite, every set of runs, any number  *)
(* of workers and processes and any limit of the outage guard.             *)
(***************************************************************************)
EXTENDS EvalBatch, SiftProofs, FiniteSetTheorems

-----------------------------------------------------------------------------
(* The inductive invariant.                                                *)

\* A result of a case, and what a line of the checkpoint may be.
AllResults ==
  {Signed(RunCase(Case[c], run), s) : c \in Cases, run \in Runs, s \in Signatures}
    \cup {Signed(UnscoreableCase(Case[c]), s) : c \in Cases, s \in Signatures}
LogLines ==
  {Torn, Partial} \cup {SignatureLine(s) : s \in Signatures} \cup {Line(r) : r \in AllResults}
Futures ==
  [case : Cases, state : {"running", "raised", "finished", "kept"},
   result : AllResults \cup {NoScore}]

\* The cases reported, those with workers and not collected, those of groups
\* and those with a line in the checkpoint.
CasesAmong(rs) == {rs[i].case : i \in DOMAIN rs}
Reported == CasesAmong(results)
InFlight == active \ Kept
Flying == {a.case : a \in InFlight}
CasesIn(groups) == UNION {ToSet(groups[i]) : i \in DOMAIN groups}
Group == ToSet(Head(todo))
LogCases(lines) == {lines[i].result.case : i \in Readable(lines)}

\* No case twice.
OncePerCase(rs) == \A i, j \in DOMAIN rs : rs[i].case = rs[j].case => i = j

LogOK(file) ==
  /\ file \in [there : BOOLEAN, lines : Seq(LogLines)]
  /\ ~file.there => file.lines = <<>>
  /\ \A i \in DOMAIN file.lines : file.lines[i] = Partial => i = Len(file.lines)
  /\ \A i \in Readable(file.lines) :
       ~file.lines[i].result.unmeasured /\ file.lines[i].result.by = Signature(file.lines)

FuturesOK ==
  /\ active \subseteq Futures /\ IsFiniteSet(active) /\ Cardinality(active) <= Concurrency
  /\ \A a, b \in active : a.case = b.case => a = b
  /\ \A a \in active : a.state \in {"finished", "kept"} =>
       a.result \in AllResults /\ a.result.case = a.case /\ a.result.by = signature

Shape ==
  /\ pc \in {"off", "between", "group", "unusable", "aborted", "draining"}
  /\ signature \in Signatures
  /\ LogOK(log)
  /\ done \subseteq AllResults
  /\ todo \in Seq(Seq(Cases)) /\ AllDistinct(todo)
  /\ pending \in Seq(Cases) /\ IsInjective(pending)
  /\ FuturesOK
  /\ results \in Seq(AllResults)
  /\ streak \in Nat /\ streak <= Len(results)
  /\ outage \in {None, "retryable", "refused"}
  /\ processes \in 0 .. MaxProcesses
  /\ paid \subseteq AllResults /\ \A r \in paid : ~r.unmeasured

\* What a process at each place holds.
Places ==
  /\ pc = "off" => /\ done = {} /\ todo = <<>> /\ pending = <<>> /\ active = {}
                   /\ streak = 0 /\ outage = None
  /\ pc = "between" => pending = <<>>
  /\ pc \in {"between", "unusable", "aborted"} => active = {} /\ outage = None
  /\ pc \in {"group", "unusable", "aborted", "draining"} => todo # <<>>
  /\ pc # "off" => exit = NoExit

\* Everything of the batch was made under its signature.
OneSignature ==
  pc # "off" =>
    /\ Continues(log, signature)
    /\ \A r \in done : r.by = signature /\ ~r.unmeasured
    /\ \A i \in DOMAIN results : results[i].by = signature

\* Every case is reported, in the current group or to come, and in one of them.
Covered ==
  /\ pc # "off" =>
       /\ OncePerCase(results)
       /\ Reported \cup CasesIn(todo) = Cases
       /\ Reported \cap CasesIn(IF pc = "between" THEN todo ELSE Tail(todo)) = {}
  /\ pc \in {"group", "unusable", "aborted"} => Group \ Reported = ToSet(pending) \cup Flying
  /\ pc = "group" => /\ (ToSet(pending) \cup Flying) \cap CasesOf(done) = {}
                     /\ ToSet(pending) \cap Flying = {}
  /\ pc = "draining" => Flying \subseteq Group \ Reported
  /\ pc \in {"group", "draining"} => \A a \in Kept : a.case \in Reported

\* The checkpoint has lines about no other cases than those that were read from
\* it, were reported, were drained, or were left by a worker that failed.
Logged ==
  /\ pc # "off" =>
       LogCases(log.lines) \subseteq CasesOf(done) \cup Reported \cup
         (CASE pc = "draining" -> Group [] pc = "aborted" -> ToSet(pending) [] OTHER -> {})
  /\ pc = "draining" => Flying \cap LogCases(log.lines) = {}

PaidOrLost ==
  /\ PaidResultsSurvive
  /\ pc = "aborted" => \A r \in paid : r.case \in ToSet(pending) => r \in lost

\* The last results that are unmeasured are at most n.
TrailAtMost(rs, n) ==
  \A i \in DOMAIN rs : (\A j \in i .. Len(rs) : rs[j].unmeasured) => Len(rs) - i + 1 <= n

\* No w + 1 results in a row are unmeasured.
Windows(rs, w) ==
  \A i \in DOMAIN rs : \E j \in i .. i + w : j \notin DOMAIN rs \/ ~rs[j].unmeasured

OutageSeen ==
  /\ Windows(results, Limit + Concurrency - 1)
  /\ pc = "aborted" /\ pending = <<>> => TrailAtMost(results, 0)
  /\ pc \notin {"off", "aborted"} /\ outage = None =>
       TrailAtMost(results, streak) /\ TrailAtMost(results, Limit - 1)
  /\ outage # None =>
       TrailAtMost(results, Limit + Concurrency - 1 - Cardinality(InFlight))

Reports ==
  exit \in {OK, EvalFailed} =>
    /\ pc = "off" /\ OncePerCase(results) /\ Reported = Cases
    /\ exit = OK => \A i \in DOMAIN results : results[i].passed /\ results[i].completed

BatchInv ==
  Shape /\ Places /\ OneSignature /\ Covered /\ Logged /\ PaidOrLost /\ OutageSeen /\ Reports

-----------------------------------------------------------------------------
(* Results.                                                                *)

LEMMA RunCaseFacts ==
  ASSUME NEW case, NEW run
  PROVE  /\ RunCase(case, run).case = case.id
         /\ RunCase(case, run).unmeasured \in BOOLEAN
         /\ RunCase(case, run).passed => ~RunCase(case, run).unmeasured
         /\ {"case", "unmeasured", "passed"} \subseteq DOMAIN RunCase(case, run)
         /\ "by" \notin DOMAIN RunCase(case, run)
  BY DEF RunCase, Failed, BlocksMeasurement, IsTransient

LEMMA SignedFacts ==
  ASSUME NEW r, NEW s, "by" \notin DOMAIN r, {"case", "unmeasured", "passed"} \subseteq DOMAIN r
  PROVE  /\ Signed(r, s).by = s
         /\ Signed(r, s).case = r.case
         /\ Signed(r, s).unmeasured = r.unmeasured
         /\ Signed(r, s).passed = r.passed
  BY DEF Signed

LEMMA ResultFacts ==
  ASSUME NEW r \in AllResults
  PROVE  /\ r.case \in Cases /\ r.by \in Signatures
         /\ r.unmeasured \in BOOLEAN /\ (r.passed => ~r.unmeasured)
<1>1. ASSUME NEW c \in Cases PROVE Case[c].id = c
  BY SuiteAssumption DEF Cases, ToSet
<1>2. ASSUME NEW c \in Cases, NEW run \in Runs, NEW s \in Signatures,
             r = Signed(RunCase(Case[c], run), s)
      PROVE  r.case = c /\ r.by = s /\ r.unmeasured \in BOOLEAN /\ (r.passed => ~r.unmeasured)
  <2> DEFINE q == RunCase(Case[c], run)
  <2>1. /\ q.case = Case[c].id /\ q.unmeasured \in BOOLEAN /\ (q.passed => ~q.unmeasured)
        /\ {"case", "unmeasured", "passed"} \subseteq DOMAIN q /\ "by" \notin DOMAIN q
    BY RunCaseFacts
  <2> HIDE DEF q
  <2>2. r = Signed(q, s)
    BY <1>2 DEF q
  <2>3. QED
    BY <1>1, <2>1, <2>2, SignedFacts
<1>3. ASSUME NEW c \in Cases, NEW s \in Signatures, r = Signed(UnscoreableCase(Case[c]), s)
      PROVE  r.case = c /\ r.by = s /\ r.unmeasured = FALSE
  <2> DEFINE q == UnscoreableCase(Case[c])
  <2>1. /\ q.case = Case[c].id /\ q.unmeasured = FALSE
        /\ {"case", "unmeasured", "passed"} \subseteq DOMAIN q /\ "by" \notin DOMAIN q
    BY DEF UnscoreableCase, Failed
  <2> HIDE DEF q
  <2>2. r = Signed(q, s)
    BY <1>3 DEF q
  <2>3. QED
    BY <1>1, <2>1, <2>2, SignedFacts
<1>4. \/ \E c \in Cases, run \in Runs, s \in Signatures : r = Signed(RunCase(Case[c], run), s)
      \/ \E c \in Cases, s \in Signatures : r = Signed(UnscoreableCase(Case[c]), s)
  BY DEF AllResults
<1>5. QED
  BY <1>2, <1>3, <1>4

\* What the workers hand over, and what stands for a case nobody could score.
LEMMA ScoreFacts ==
  ASSUME signature \in Signatures, NEW c \in Cases, NEW run \in Runs
  PROVE  /\ Score(c, run) \in AllResults
         /\ Score(c, run).case = c /\ Score(c, run).by = signature
<1>1. Case[c].id = c
  BY SuiteAssumption DEF Cases, ToSet
<1> DEFINE q == RunCase(Case[c], run)
<1>2. /\ q.case = Case[c].id
      /\ {"case", "unmeasured", "passed"} \subseteq DOMAIN q /\ "by" \notin DOMAIN q
  BY RunCaseFacts
<1>3. Score(c, run) = Signed(q, signature) /\ Score(c, run) \in AllResults
  BY DEF Score, Made, AllResults
<1> HIDE DEF q
<1>4. QED
  BY <1>1, <1>2, <1>3, SignedFacts

LEMMA UnscoreableFacts ==
  ASSUME signature \in Signatures, NEW c \in Cases
  PROVE  /\ Unscoreable(c) \in AllResults /\ Unscoreable(c).case = c
         /\ Unscoreable(c).by = signature /\ ~Unscoreable(c).unmeasured
<1>1. Case[c].id = c
  BY SuiteAssumption DEF Cases, ToSet
<1> DEFINE q == UnscoreableCase(Case[c])
<1>2. /\ q.case = Case[c].id /\ q.unmeasured = FALSE
      /\ {"case", "unmeasured", "passed"} \subseteq DOMAIN q /\ "by" \notin DOMAIN q
  BY DEF UnscoreableCase, Failed
<1>3. Unscoreable(c) = Signed(q, signature) /\ Unscoreable(c) \in AllResults
  BY DEF Unscoreable, Made, AllResults
<1> HIDE DEF q
<1>4. QED
  BY <1>1, <1>2, <1>3, SignedFacts

-----------------------------------------------------------------------------
(* The checkpoint.                                                         *)

LEMMA LineFacts ==
  /\ Torn \in LogLines /\ Partial \in LogLines /\ Torn # Partial
  /\ Torn.type = "torn" /\ Partial.type = "partial"
  /\ \A s : /\ SignatureLine(s).type = "signature" /\ SignatureLine(s).signature = s
            /\ SignatureLine(s) # Partial
  /\ \A s \in Signatures : SignatureLine(s) \in LogLines
  /\ \A r : Line(r).type = "result" /\ Line(r).result = r /\ Line(r) # Partial
  /\ \A r \in AllResults : Line(r) \in LogLines
  /\ \A l \in LogLines : l.type = "result" => l.result \in AllResults
<1>1. Torn.type = "torn" /\ Partial.type = "partial"
  BY DEF Torn, Partial
<1>2. \A s : SignatureLine(s).type = "signature" /\ SignatureLine(s).signature = s
  BY DEF SignatureLine
<1>3. \A r : Line(r).type = "result" /\ Line(r).result = r
  BY DEF Line
<1>4. \A l \in LogLines : \/ l = Torn \/ l = Partial
                          \/ \E s : l = SignatureLine(s)
                          \/ \E r \in AllResults : l = Line(r)
  BY DEF LogLines
<1>5. /\ Torn \in LogLines /\ Partial \in LogLines
      /\ \A s \in Signatures : SignatureLine(s) \in LogLines
      /\ \A r \in AllResults : Line(r) \in LogLines
  BY DEF LogLines
<1>6. QED
  BY <1>1, <1>2, <1>3, <1>4, <1>5

\* Two checkpoints with the same readable lines at the same places record the same.
LEMMA SameResults ==
  ASSUME NEW m, NEW lines, Readable(m) = Readable(lines),
         \A i \in Readable(lines) : m[i].result = lines[i].result
  PROVE  Recorded(m) = Recorded(lines) /\ LogCases(m) = LogCases(lines)
<1>1. LogCases(m) = LogCases(lines)
  BY DEF LogCases
<1>2. Recorded(m) = Recorded(lines)
  <2> DEFINE Latest(l) == {k \in Readable(l) :
               ~\E j \in Readable(l) : j > k /\ l[j].result.case = l[k].result.case}
  <2>1. Latest(m) = Latest(lines)
    OBVIOUS
  <2>2. \A k \in Latest(lines) : m[k].result = lines[k].result
    OBVIOUS
  <2>3. Recorded(m) = {m[i].result : i \in Latest(m)} /\ Recorded(lines) = {lines[i].result : i \in Latest(lines)}
    BY DEF Recorded
  <2> HIDE DEF Latest
  <2>4. QED
    BY <2>1, <2>2, <2>3
<1>3. QED
  BY <1>1, <1>2

LEMMA RecordedFacts ==
  ASSUME NEW lines \in Seq(LogLines)
  PROVE  /\ \A r \in Recorded(lines) : \E i \in Readable(lines) : r = lines[i].result
         /\ Recorded(lines) \subseteq AllResults
         /\ CasesOf(Recorded(lines)) = LogCases(lines)
         /\ \A q, r \in Recorded(lines) : q.case = r.case => q = r
<1>1. \A i \in Readable(lines) : i \in Nat /\ lines[i] \in LogLines /\ lines[i].result \in AllResults
  BY LineFacts DEF Readable
<1>2. \A r \in Recorded(lines) : \E i \in Readable(lines) : r = lines[i].result
  BY DEF Recorded
<1>3. ASSUME NEW i \in Readable(lines)
      PROVE  \E r \in Recorded(lines) : r.case = lines[i].result.case
  <2> DEFINE P == {k \in Readable(lines) : lines[k].result.case = lines[i].result.case}
  <2>1. P \in SUBSET (1..Len(lines)) /\ P # {} /\ Len(lines) \in Nat
    BY DEF Readable
  <2>2. PICK k \in P : \A j \in P : j <= k
    BY <2>1, LastPosition
  <2>3. ~\E j \in Readable(lines) : j > k /\ lines[j].result.case = lines[k].result.case
    BY <1>1, <2>2
  <2>4. lines[k].result \in Recorded(lines)
    BY <2>2, <2>3 DEF Recorded
  <2>5. QED
    BY <2>2, <2>4
<1>4. CasesOf(Recorded(lines)) = LogCases(lines)
  BY <1>2, <1>3 DEF CasesOf, LogCases
<1>5. ASSUME NEW q \in Recorded(lines), NEW r \in Recorded(lines), q.case = r.case
      PROVE  q = r
  <2>1. PICK i \in Readable(lines) : /\ q = lines[i].result
                                     /\ ~\E j \in Readable(lines) : j > i /\ lines[j].result.case = lines[i].result.case
    BY DEF Recorded
  <2>2. PICK k \in Readable(lines) : /\ r = lines[k].result
                                     /\ ~\E j \in Readable(lines) : j > k /\ lines[j].result.case = lines[k].result.case
    BY DEF Recorded
  <2>3. i = k
    BY <1>1, <1>5, <2>1, <2>2
  <2>4. QED
    BY <2>1, <2>2, <2>3
<1>6. QED
  BY <1>1, <1>2, <1>4, <1>5

LEMMA AppendFacts ==
  ASSUME NEW T, NEW q \in Seq(T), NEW x \in T
  PROVE  /\ Append(q, x) \in Seq(T) /\ Len(q) \in Nat /\ Len(Append(q, x)) = Len(q) + 1
         /\ DOMAIN Append(q, x) = 1..(Len(q) + 1) /\ DOMAIN q = 1..Len(q)
         /\ \A i \in DOMAIN q : Append(q, x)[i] = q[i]
         /\ Append(q, x)[Len(q) + 1] = x
         /\ Len(q) + 1 \notin DOMAIN q
         /\ \A i \in DOMAIN Append(q, x) : i \in DOMAIN q \/ i = Len(q) + 1
         /\ \A i \in DOMAIN q : i \in DOMAIN Append(q, x) /\ i < Len(q) + 1 /\ i \in Nat
  OBVIOUS

LEMMA AppendNoResult ==
  ASSUME NEW lines \in Seq(LogLines), NEW l \in LogLines, l.type # "result"
  PROVE  Recorded(Append(lines, l)) = Recorded(lines) /\ LogCases(Append(lines, l)) = LogCases(lines)
         /\ Readable(Append(lines, l)) = Readable(lines)
<1> DEFINE m == Append(lines, l)
<1>1. /\ \A i \in DOMAIN lines : m[i] = lines[i] /\ i \in DOMAIN m
      /\ m[Len(lines) + 1] = l
      /\ \A i \in DOMAIN m : i \in DOMAIN lines \/ i = Len(lines) + 1
  BY AppendFacts
<1> HIDE DEF m
<1>2. Readable(m) = Readable(lines)
  BY <1>1 DEF Readable
<1>3. \A i \in Readable(lines) : m[i].result = lines[i].result
  BY <1>1 DEF Readable
<1>4. Recorded(m) = Recorded(lines) /\ LogCases(m) = LogCases(lines)
  BY <1>2, <1>3, SameResults
<1>5. QED
  BY <1>2, <1>4 DEF m

LEMMA AppendResult ==
  ASSUME NEW lines \in Seq(LogLines), NEW r \in AllResults
  PROVE  /\ Recorded(Append(lines, Line(r))) = {q \in Recorded(lines) : q.case # r.case} \cup {r}
         /\ LogCases(Append(lines, Line(r))) = LogCases(lines) \cup {r.case}
         /\ Readable(Append(lines, Line(r))) = Readable(lines) \cup {Len(lines) + 1}
<1> DEFINE m == Append(lines, Line(r))
           n == Len(lines) + 1
<1>1. /\ n \in Nat
      /\ \A i \in DOMAIN lines : m[i] = lines[i] /\ i \in DOMAIN m /\ i < n /\ i \in Nat
      /\ m[n] = Line(r) /\ n \notin DOMAIN lines /\ n \in DOMAIN m
      /\ \A i \in DOMAIN m : i \in DOMAIN lines \/ i = n
  <2>1. Line(r) \in LogLines
    BY LineFacts
  <2>2. QED
    BY <2>1, AppendFacts
<1> HIDE DEF m, n
<1>2. m[n].type = "result" /\ m[n].result = r
  BY <1>1, LineFacts
<1>3. Readable(m) = Readable(lines) \cup {n} /\ n \notin Readable(lines)
  BY <1>1, <1>2 DEF Readable
<1>4. \A i \in Readable(lines) : m[i] = lines[i] /\ i < n /\ i \in Nat
  BY <1>1 DEF Readable
<1>5. LogCases(m) = LogCases(lines) \cup {r.case}
  <2>1. \A c \in LogCases(m) : c \in LogCases(lines) \cup {r.case}
    BY <1>2, <1>3, <1>4 DEF LogCases
  <2>2. \A c \in LogCases(lines) \cup {r.case} : c \in LogCases(m)
    BY <1>2, <1>3, <1>4 DEF LogCases
  <2>3. QED
    BY <2>1, <2>2
<1> DEFINE Later(l, k) == \E j \in Readable(l) : j > k /\ l[j].result.case = l[k].result.case
<1>6. ~Later(m, n)
  BY <1>1, <1>3, <1>4
<1>7. ASSUME NEW k \in Readable(lines)
      PROVE  Later(m, k) <=> Later(lines, k) \/ m[k].result.case = r.case
  BY <1>1, <1>2, <1>3, <1>4
<1>8. \A l : Recorded(l) = {l[i].result : i \in {k \in Readable(l) : ~Later(l, k)}}
  BY DEF Recorded
<1> HIDE DEF Later
<1>9. ASSUME NEW q \in Recorded(m) PROVE q \in {p \in Recorded(lines) : p.case # r.case} \cup {r}
  <2>1. PICK k \in Readable(m) : q = m[k].result /\ ~Later(m, k)
    BY <1>8
  <2>2. CASE k = n
    BY <1>2, <2>1, <2>2
  <2>3. CASE k \in Readable(lines)
    BY <1>4, <1>7, <1>8, <2>1, <2>3
  <2>4. QED
    BY <1>3, <2>2, <2>3
<1>10. ASSUME NEW q \in Recorded(lines), q.case # r.case PROVE q \in Recorded(m)
  <2>1. PICK k \in Readable(lines) : q = lines[k].result /\ ~Later(lines, k)
    BY <1>8
  <2>2. ~Later(m, k) /\ q = m[k].result /\ k \in Readable(m)
    BY <1>3, <1>4, <1>7, <1>10, <2>1
  <2>3. QED
    BY <1>8, <2>2
<1>11. r \in Recorded(m)
  BY <1>2, <1>3, <1>6, <1>8
<1>12. QED
  BY <1>3, <1>5, <1>9, <1>10, <1>11 DEF m, n

\* A partial tail that has got its newline is a line like the other torn ones.
LEMMA IsolatedFacts ==
  ASSUME NEW lines \in Seq(LogLines),
         \A i \in DOMAIN lines : lines[i] = Partial => i = Len(lines)
  PROVE  /\ Isolated(lines) \in Seq(LogLines) /\ Len(Isolated(lines)) = Len(lines)
         /\ DOMAIN Isolated(lines) = DOMAIN lines
         /\ \A i \in DOMAIN lines :
              Isolated(lines)[i] = IF lines[i] = Partial THEN Torn ELSE lines[i]
<1>1. Len(lines) \in Nat /\ DOMAIN lines = 1..Len(lines)
  OBVIOUS
<1>2. CASE lines # <<>> /\ Last(lines) = Partial
  <2> DEFINE f == Front(lines)
  <2>1. Len(lines) - 1 \in Nat /\ lines[Len(lines)] = Partial /\ Len(lines) \in DOMAIN lines
    BY <1>2 DEF Last
  <2>2. f \in Seq(LogLines) /\ Len(f) = Len(lines) - 1 /\ \A i \in 1..(Len(lines) - 1) : f[i] = lines[i]
    <3>1. f = SubSeq(lines, 1, Len(lines) - 1)
      BY DEF Front
    <3>2. \A i \in 1..(Len(lines) - 1) : i \in 1..Len(lines) /\ lines[i] \in LogLines
      BY <1>1
    <3> HIDE DEF f
    <3>3. QED
      BY <1>1, <2>1, <3>1, <3>2
  <2> HIDE DEF f
  <2>3. Isolated(lines) = Append(f, Torn)
    BY <1>2 DEF Isolated, f
  <2>4. /\ Append(f, Torn) \in Seq(LogLines) /\ Len(Append(f, Torn)) = Len(lines)
        /\ DOMAIN Append(f, Torn) = 1..Len(lines)
        /\ Append(f, Torn)[Len(lines)] = Torn
        /\ \A i \in 1..(Len(lines) - 1) : Append(f, Torn)[i] = lines[i]
    <3>1. Torn \in LogLines
      BY LineFacts
    <3>2. /\ Append(f, Torn) \in Seq(LogLines) /\ Len(Append(f, Torn)) = Len(f) + 1
          /\ DOMAIN Append(f, Torn) = 1..(Len(f) + 1)
          /\ \A i \in DOMAIN f : Append(f, Torn)[i] = f[i]
          /\ Append(f, Torn)[Len(f) + 1] = Torn /\ DOMAIN f = 1..Len(f)
      BY <2>2, <3>1, AppendFacts
    <3>3. Len(f) + 1 = Len(lines)
      BY <1>1, <2>2
    <3>4. QED
      BY <2>2, <3>2, <3>3
  <2>5. \A i \in DOMAIN lines : i = Len(lines) \/ (i \in 1..(Len(lines) - 1) /\ lines[i] # Partial)
    BY <1>1
  <2>6. QED
    BY <1>1, <2>1, <2>3, <2>4, <2>5
<1>3. CASE ~(lines # <<>> /\ Last(lines) = Partial)
  <2>1. Isolated(lines) = lines
    BY <1>3 DEF Isolated
  <2>2. \A i \in DOMAIN lines : lines[i] # Partial
    BY <1>1, <1>3 DEF Last
  <2>3. QED
    BY <2>1, <2>2
<1>4. QED
  BY <1>2, <1>3

LEMMA IsolatedResults ==
  ASSUME NEW lines \in Seq(LogLines),
         \A i \in DOMAIN lines : lines[i] = Partial => i = Len(lines)
  PROVE  /\ Recorded(Isolated(lines)) = Recorded(lines)
         /\ LogCases(Isolated(lines)) = LogCases(lines)
         /\ Readable(Isolated(lines)) = Readable(lines)
         /\ \A i \in Readable(lines) : Isolated(lines)[i] = lines[i]
         /\ \A i \in DOMAIN lines : Isolated(lines)[i] # Partial
         /\ Signature(Isolated(lines)) = Signature(lines)
<1> DEFINE m == Isolated(lines)
<1>1. /\ m \in Seq(LogLines) /\ Len(m) = Len(lines) /\ DOMAIN m = DOMAIN lines
      /\ \A i \in DOMAIN lines : m[i] = IF lines[i] = Partial THEN Torn ELSE lines[i]
  BY IsolatedFacts
<1> HIDE DEF m
<1>2. \A i \in DOMAIN lines : m[i].type = "result" <=> lines[i].type = "result"
  BY <1>1, LineFacts
<1>3. Readable(m) = Readable(lines)
  BY <1>1, <1>2 DEF Readable
<1>4. \A i \in Readable(lines) : m[i] = lines[i]
  BY <1>1, LineFacts DEF Readable
<1>5. Recorded(m) = Recorded(lines) /\ LogCases(m) = LogCases(lines)
  BY <1>3, <1>4, SameResults
<1>6. \A i \in DOMAIN lines : m[i] # Partial
  BY <1>1, LineFacts
<1>7. Signature(m) = Signature(lines)
  <2>1. CASE lines = <<>>
    <3>1. m = <<>>
      BY <1>1, <2>1
    <3>2. QED
      BY <2>1, <3>1
  <2>2. CASE lines # <<>>
    <3>1. m # <<>> /\ 1 \in DOMAIN lines /\ Head(m) = m[1] /\ Head(lines) = lines[1]
      BY <1>1, <2>2
    <3>2. (m[1].type = "signature" <=> lines[1].type = "signature")
          /\ (lines[1].type = "signature" => m[1] = lines[1])
      BY <1>1, <3>1, LineFacts
    <3>3. QED
      BY <2>2, <3>1, <3>2 DEF Signature
  <2>3. QED
    BY <2>1, <2>2
<1>8. QED
  BY <1>3, <1>4, <1>5, <1>6, <1>7 DEF m

\* One more line: what the first is stays, when there is one.
LEMMA SignatureOfAppend ==
  ASSUME NEW lines \in Seq(LogLines), NEW l \in LogLines, lines # <<>>
  PROVE  Signature(Append(lines, l)) = Signature(lines)
<1>1. Append(lines, l) # <<>> /\ Head(Append(lines, l)) = Head(lines)
  OBVIOUS
<1>2. QED
  BY <1>1 DEF Signature

LEMMA HeadIsSigned ==
  ASSUME NEW s \in Signatures
  PROVE  /\ Unsigned # s
         /\ \A l : <<SignatureLine(s)>> \in Seq(LogLines)
                   /\ Signature(<<SignatureLine(s)>>) = s
<1>1. Unsigned # s
  BY DEF Unsigned, Signatures, None
<1>2. SignatureLine(s) \in LogLines /\ SignatureLine(s).type = "signature" /\ SignatureLine(s).signature = s
  BY LineFacts
<1>3. Head(<<SignatureLine(s)>>) = SignatureLine(s) /\ <<SignatureLine(s)>> # <<>>
      /\ <<SignatureLine(s)>> \in Seq(LogLines)
  BY <1>2
<1>4. Signature(<<SignatureLine(s)>>) = s
  BY <1>2, <1>3 DEF Signature
<1>5. QED
  BY <1>1, <1>3, <1>4

\* What a result is appended to: the isolated file, or its signature line.
Base(file) == IF file.there THEN Isolated(file.lines) ELSE <<SignatureLine(signature)>>

LEMMA BaseFacts ==
  ASSUME signature \in Signatures, NEW file, LogOK(file)
  PROVE  /\ Base(file) \in Seq(LogLines)
         /\ \A i \in DOMAIN Base(file) : Base(file)[i] # Partial
         /\ Recorded(Base(file)) = Recorded(file.lines)
         /\ LogCases(Base(file)) = LogCases(file.lines)
         /\ \A i \in Readable(Base(file)) : /\ ~Base(file)[i].result.unmeasured
                                            /\ Base(file)[i].result.by = Signature(Base(file))
         /\ Continues(file, signature) => Base(file) # <<>> /\ Signature(Base(file)) = signature
<1> DEFINE b == Base(file)
<1>1. CASE file.there
  <2>1. b = Isolated(file.lines) /\ file.lines \in Seq(LogLines)
    BY <1>1 DEF Base, LogOK
  <2>2. /\ b \in Seq(LogLines) /\ DOMAIN b = DOMAIN file.lines /\ Len(b) = Len(file.lines)
        /\ Recorded(b) = Recorded(file.lines) /\ LogCases(b) = LogCases(file.lines)
        /\ Readable(b) = Readable(file.lines)
        /\ \A i \in Readable(file.lines) : b[i] = file.lines[i]
        /\ \A i \in DOMAIN file.lines : b[i] # Partial
        /\ Signature(b) = Signature(file.lines)
    BY <2>1, IsolatedFacts, IsolatedResults DEF LogOK
  <2> HIDE DEF b
  <2>3. \A i \in Readable(b) : ~b[i].result.unmeasured /\ b[i].result.by = Signature(b)
    BY <2>2 DEF LogOK
  <2>4. ASSUME Continues(file, signature) PROVE b # <<>> /\ Signature(b) = signature
    <3>1. Signature(b) = signature
      BY <1>1, <2>2, <2>4 DEF Continues
    <3>2. b # <<>>
      BY <3>1, HeadIsSigned DEF Signature
    <3>3. QED
      BY <3>1, <3>2
  <2>5. QED
    BY <2>2, <2>3, <2>4 DEF b
<1>2. CASE ~file.there
  <2>1. b = <<SignatureLine(signature)>> /\ file.lines = <<>>
    BY <1>2 DEF Base, LogOK
  <2>2. b \in Seq(LogLines) /\ Signature(b) = signature /\ b # <<>> /\ DOMAIN b = {1} /\ b[1] = SignatureLine(signature)
    BY <2>1, HeadIsSigned
  <2> HIDE DEF b
  <2>3. \A i \in DOMAIN b : b[i] # Partial /\ b[i].type # "result"
    BY <2>2, LineFacts
  <2>4. Readable(b) = {} /\ Readable(file.lines) = {}
    BY <2>1, <2>3 DEF Readable
  <2>5. Recorded(b) = Recorded(file.lines) /\ LogCases(b) = LogCases(file.lines)
    BY <2>4, SameResults
  <2>6. QED
    BY <2>2, <2>3, <2>4, <2>5 DEF b
<1>3. QED
  BY <1>1, <1>2

LEMMA AppendedFacts ==
  ASSUME signature \in Signatures, NEW file, LogOK(file), Continues(file, signature),
         NEW r \in AllResults, r.by = signature, ~r.unmeasured
  PROVE  /\ LogOK(Appended(file, r)) /\ Continues(Appended(file, r), signature)
         /\ Recorded(Appended(file, r).lines) = {q \in Recorded(file.lines) : q.case # r.case} \cup {r}
         /\ LogCases(Appended(file, r).lines) = LogCases(file.lines) \cup {r.case}
<1> DEFINE b == Base(file)
           m == Append(b, Line(r))
           new == Appended(file, r)
<1>1. /\ b \in Seq(LogLines) /\ b # <<>> /\ Signature(b) = signature
      /\ \A i \in DOMAIN b : b[i] # Partial
      /\ Recorded(b) = Recorded(file.lines) /\ LogCases(b) = LogCases(file.lines)
      /\ \A i \in Readable(b) : ~b[i].result.unmeasured /\ b[i].result.by = Signature(b)
  BY BaseFacts
<1>2. new = [there |-> TRUE, lines |-> m]
  BY DEF Appended, Base
<1> HIDE DEF b, new
<1>3. Line(r) \in LogLines /\ Line(r) # Partial /\ Line(r).type = "result" /\ Line(r).result = r
  BY LineFacts
<1>4. /\ m \in Seq(LogLines) /\ m[Len(b) + 1] = Line(r)
      /\ \A i \in DOMAIN b : m[i] = b[i]
      /\ \A i \in DOMAIN m : i \in DOMAIN b \/ i = Len(b) + 1
  BY <1>1, <1>3, AppendFacts
<1>5. /\ Recorded(m) = {q \in Recorded(b) : q.case # r.case} \cup {r}
      /\ LogCases(m) = LogCases(b) \cup {r.case}
      /\ Readable(m) = Readable(b) \cup {Len(b) + 1}
  BY <1>1, AppendResult
<1>6. Signature(m) = signature
  BY <1>1, <1>3, SignatureOfAppend
<1> HIDE DEF m
<1>7. new.there = TRUE /\ new.lines = m /\ new \in [there : BOOLEAN, lines : Seq(LogLines)]
  BY <1>2, <1>4
<1>8. \A i \in DOMAIN m : m[i] # Partial
  BY <1>1, <1>3, <1>4
<1>9. \A i \in Readable(m) : ~m[i].result.unmeasured /\ m[i].result.by = Signature(m)
  <2>1. \A i \in Readable(b) : m[i] = b[i]
    BY <1>4 DEF Readable
  <2>2. QED
    BY <1>1, <1>3, <1>4, <1>5, <1>6, <2>1
<1>10. LogOK(new)
  BY <1>7, <1>8, <1>9 DEF LogOK
<1>11. Continues(new, signature)
  BY <1>6, <1>7 DEF Continues
<1>12. QED
  BY <1>1, <1>5, <1>7, <1>10, <1>11 DEF new

LEMMA TornFacts ==
  ASSUME signature \in Signatures, NEW file, LogOK(file), NEW new \in TornAppends(file)
  PROVE  LogOK(new) /\ Recorded(new.lines) = Recorded(file.lines)
<1>1. Partial \in LogLines /\ Partial.type = "partial" /\ SignatureLine(signature) \in LogLines
      /\ SignatureLine(signature).type = "signature" /\ SignatureLine(signature) # Partial
  BY LineFacts
<1>2. CASE file.there
  <2> DEFINE b == Isolated(file.lines)
             m == Append(b, Partial)
  <2>1. b = Base(file)
    BY <1>2 DEF Base
  <2>2. /\ b \in Seq(LogLines) /\ \A i \in DOMAIN b : b[i] # Partial
        /\ Recorded(b) = Recorded(file.lines)
        /\ \A i \in Readable(b) : ~b[i].result.unmeasured /\ b[i].result.by = Signature(b)
    BY <2>1, BaseFacts
  <2>3. new = [file EXCEPT !.lines = m] /\ file \in [there : BOOLEAN, lines : Seq(LogLines)]
    BY <1>2 DEF TornAppends, LogOK
  <2> HIDE DEF b
  <2>4. /\ m \in Seq(LogLines) /\ Len(m) = Len(b) + 1
        /\ \A i \in DOMAIN b : m[i] = b[i]
        /\ \A i \in DOMAIN m : i \in DOMAIN b \/ i = Len(b) + 1
    BY <1>1, <2>2, AppendFacts
  <2>5. Recorded(m) = Recorded(b) /\ Readable(m) = Readable(b)
    BY <1>1, <2>2, AppendNoResult
  <2>6. b # <<>> => Signature(m) = Signature(b)
    BY <1>1, <2>2, SignatureOfAppend
  <2>7. \A i \in Readable(b) : i \in DOMAIN b
    BY DEF Readable
  <2>8. b = <<>> => Readable(b) = {}
    BY DEF Readable
  <2> HIDE DEF m
  <2>9. new.there = TRUE /\ new.lines = m /\ new \in [there : BOOLEAN, lines : Seq(LogLines)]
    BY <1>2, <2>3, <2>4
  <2>10. \A i \in DOMAIN m : m[i] = Partial => i = Len(m)
    BY <2>2, <2>4
  <2>11. \A i \in Readable(m) : ~m[i].result.unmeasured /\ m[i].result.by = Signature(m)
    BY <2>2, <2>4, <2>5, <2>6, <2>7, <2>8
  <2>12. QED
    BY <2>2, <2>5, <2>9, <2>10, <2>11 DEF LogOK
<1>3. CASE ~file.there
  <2>1. PICK l \in {<<>>, <<Partial>>, <<SignatureLine(signature), Partial>>} :
          new = [there |-> TRUE, lines |-> l]
    BY <1>3 DEF TornAppends
  <2>2. l \in Seq(LogLines) /\ (\A i \in DOMAIN l : l[i] = Partial => i = Len(l))
        /\ \A i \in DOMAIN l : l[i].type # "result"
    <3>1. CASE l = <<>>
      BY <3>1
    <3>2. CASE l = <<Partial>>
      BY <1>1, <3>2
    <3>3. CASE l = <<SignatureLine(signature), Partial>>
      BY <1>1, <3>3
    <3>4. QED
      BY <2>1, <3>1, <3>2, <3>3
  <2>3. Readable(l) = {} /\ Readable(file.lines) = {}
    BY <1>3, <2>2 DEF Readable, LogOK
  <2>4. Recorded(l) = Recorded(file.lines)
    BY <2>3, SameResults
  <2>5. new.there = TRUE /\ new.lines = l /\ new \in [there : BOOLEAN, lines : Seq(LogLines)]
    BY <2>1, <2>2
  <2>6. QED
    BY <2>2, <2>3, <2>4, <2>5 DEF LogOK
<1>4. QED
  BY <1>2, <1>3

-----------------------------------------------------------------------------
(* Groups of cases and lists of results.                                   *)

LEMMA GroupsFacts ==
  ASSUME NEW mode
  PROVE  /\ Groups(mode) \in Seq(Seq(Cases)) /\ AllDistinct(Groups(mode))
         /\ CasesIn(Groups(mode)) = Cases
<1>1. Suite \in Seq(Seq(Cases)) /\ AllDistinct(Suite) /\ CasesIn(Suite) = Cases
  <2>1. Suite \in Seq(Seq(DOMAIN Case))
    BY SuiteAssumption
  <2>2. \A i \in DOMAIN Suite : Suite[i] \in Seq(Cases)
    <3>1. \A i \in DOMAIN Suite : Suite[i] \in Seq(DOMAIN Case)
      BY <2>1
    <3>2. ASSUME NEW i \in DOMAIN Suite PROVE \A k \in DOMAIN Suite[i] : Suite[i][k] \in Cases
      BY <3>1 DEF Cases, ToSet
    <3>3. QED
      BY <3>1, <3>2
  <2>3. Suite \in Seq(Seq(Cases))
    BY <2>1, <2>2
  <2>4. AllDistinct(Suite)
    BY SuiteAssumption DEF AllDistinct
  <2>5. QED
    BY <2>3, <2>4 DEF CasesIn, Cases
<1>2. CASE mode = "public"
  BY <1>1, <1>2 DEF Groups
<1>3. CASE mode # "public"
  <2> DEFINE all == FlattenSeq(Suite)
  <2>1. all \in Seq(Cases) /\ ToSet(all) = Cases /\ IsInjective(all)
    BY <1>1, FlattenFacts DEF CasesIn
  <2> HIDE DEF all
  <2>2. Groups(mode) = <<all>>
    BY <1>3 DEF Groups, all
  <2>3. <<all>> \in Seq(Seq(Cases)) /\ DOMAIN <<all>> = {1} /\ <<all>>[1] = all
    BY <2>1
  <2>4. AllDistinct(<<all>>)
    BY <2>1, <2>3 DEF AllDistinct, IsInjective
  <2>5. CasesIn(<<all>>) = Cases
    BY <2>1, <2>3 DEF CasesIn
  <2>6. QED
    BY <2>2, <2>3, <2>4, <2>5
<1>4. QED
  BY <1>2, <1>3

LEMMA HeadAndTail ==
  ASSUME NEW T, NEW q \in Seq(T), q # <<>>
  PROVE  /\ Head(q) = q[1] /\ Head(q) \in T /\ Tail(q) \in Seq(T) /\ 1 \in DOMAIN q
         /\ \A i \in DOMAIN Tail(q) : i + 1 \in DOMAIN q /\ Tail(q)[i] = q[i + 1] /\ i \in Nat /\ i + 1 # 1
         /\ \A i \in DOMAIN q : i = 1 \/ (i - 1 \in DOMAIN Tail(q) /\ Tail(q)[i - 1] = q[i])
<1>1. /\ Len(q) \in Nat /\ Len(q) # 0 /\ DOMAIN q = 1..Len(q)
      /\ Head(q) = q[1] /\ Head(q) \in T /\ Tail(q) \in Seq(T) /\ 1 \in DOMAIN q
      /\ DOMAIN Tail(q) = 1..(Len(q) - 1)
      /\ \A i \in 1..(Len(q) - 1) : Tail(q)[i] = q[i + 1]
  OBVIOUS
<1>2. ASSUME NEW i \in DOMAIN Tail(q)
      PROVE i + 1 \in DOMAIN q /\ Tail(q)[i] = q[i + 1] /\ i \in Nat /\ i + 1 # 1
  BY <1>1
<1>3. ASSUME NEW i \in DOMAIN q, i # 1
      PROVE  i - 1 \in DOMAIN Tail(q) /\ Tail(q)[i - 1] = q[i]
  <2>1. i - 1 \in 1..(Len(q) - 1) /\ (i - 1) + 1 = i
    BY <1>1, <1>3
  <2>2. QED
    BY <1>1, <2>1
<1>4. QED
  BY <1>1, <1>2, <1>3

LEMMA FirstGroup ==
  ASSUME NEW groups \in Seq(Seq(Cases)), AllDistinct(groups), groups # <<>>
  PROVE  /\ Head(groups) \in Seq(Cases) /\ IsInjective(Head(groups))
         /\ Tail(groups) \in Seq(Seq(Cases)) /\ AllDistinct(Tail(groups))
         /\ CasesIn(groups) = ToSet(Head(groups)) \cup CasesIn(Tail(groups))
         /\ ToSet(Head(groups)) \cap CasesIn(Tail(groups)) = {}
<1> DEFINE h == Head(groups)
           t == Tail(groups)
<1>1. /\ h = groups[1] /\ h \in Seq(Cases) /\ t \in Seq(Seq(Cases)) /\ 1 \in DOMAIN groups
      /\ \A i \in DOMAIN t : i + 1 \in DOMAIN groups /\ t[i] = groups[i + 1] /\ i \in Nat /\ i + 1 # 1
      /\ \A i \in DOMAIN groups : i = 1 \/ (i - 1 \in DOMAIN t /\ t[i - 1] = groups[i])
  BY HeadAndTail
<1> HIDE DEF h, t
<1>2. IsInjective(h)
  BY <1>1 DEF AllDistinct, IsInjective
<1>3. AllDistinct(t)
  <2>1. ASSUME NEW g \in DOMAIN t, NEW k \in DOMAIN t, NEW i \in DOMAIN t[g], NEW j \in DOMAIN t[k],
               t[g][i] = t[k][j]
        PROVE  g = k /\ i = j
    <3>0. /\ g + 1 \in DOMAIN groups /\ k + 1 \in DOMAIN groups
          /\ i \in DOMAIN groups[g + 1] /\ j \in DOMAIN groups[k + 1]
          /\ groups[g + 1][i] = groups[k + 1][j]
      BY <1>1, <2>1
    <3>1. g + 1 = k + 1 /\ i = j
      BY <3>0 DEF AllDistinct
    <3>2. QED
      BY <1>1, <3>1
  <2>2. QED
    BY <2>1 DEF AllDistinct
<1>4. CasesIn(groups) = ToSet(h) \cup CasesIn(t)
  <2>1. ASSUME NEW i \in DOMAIN groups PROVE ToSet(groups[i]) \subseteq ToSet(h) \cup CasesIn(t)
    <3>1. \A k \in DOMAIN t : ToSet(t[k]) \subseteq CasesIn(t)
      BY DEF CasesIn
    <3>2. CASE i = 1
      BY <1>1, <3>2
    <3>3. CASE i # 1
      <4>1. i - 1 \in DOMAIN t /\ t[i - 1] = groups[i]
        BY <1>1, <3>3
      <4>2. QED
        BY <3>1, <4>1
    <3>4. QED
      BY <3>2, <3>3
  <2>2. ToSet(h) \subseteq CasesIn(groups) /\ \A i \in DOMAIN t : ToSet(t[i]) \subseteq CasesIn(groups)
    BY <1>1 DEF CasesIn
  <2>3. QED
    BY <2>1, <2>2 DEF CasesIn
<1>5. ToSet(h) \cap CasesIn(t) = {}
  <2>1. ASSUME NEW i \in DOMAIN t PROVE ToSet(h) \cap ToSet(t[i]) = {}
    BY <1>1, SMTT(30) DEF AllDistinct, ToSet
  <2>2. QED
    BY <2>1 DEF CasesIn
<1>6. QED
  BY <1>1, <1>2, <1>3, <1>4, <1>5 DEF h, t

LEMMA FirstCase ==
  ASSUME NEW q \in Seq(Cases), IsInjective(q), q # <<>>
  PROVE  /\ Head(q) \in Cases /\ Head(q) \in ToSet(q)
         /\ Tail(q) \in Seq(Cases) /\ IsInjective(Tail(q))
         /\ ToSet(Tail(q)) = ToSet(q) \ {Head(q)}
<1> DEFINE h == Head(q)
           t == Tail(q)
<1>1. /\ h = q[1] /\ h \in Cases /\ t \in Seq(Cases) /\ 1 \in DOMAIN q
      /\ \A i \in DOMAIN t : i + 1 \in DOMAIN q /\ t[i] = q[i + 1] /\ i \in Nat /\ i + 1 # 1
      /\ \A i \in DOMAIN q : i = 1 \/ (i - 1 \in DOMAIN t /\ t[i - 1] = q[i])
  BY HeadAndTail
<1> HIDE DEF h, t
<1>2. IsInjective(t)
  <2>1. ASSUME NEW i \in DOMAIN t, NEW j \in DOMAIN t, t[i] = t[j] PROVE i = j
    <3>1. i + 1 = j + 1
      BY <1>1, <2>1 DEF IsInjective
    <3>2. QED
      BY <1>1, <3>1
  <2>2. QED
    BY <2>1 DEF IsInjective
<1>3. ToSet(t) = ToSet(q) \ {h}
  <2>1. \A i \in DOMAIN t : t[i] \in ToSet(q) \ {h}
    BY <1>1 DEF IsInjective, ToSet
  <2>2. \A e \in ToSet(q) \ {h} : e \in ToSet(t)
    BY <1>1 DEF ToSet
  <2>3. QED
    BY <2>1, <2>2 DEF ToSet
<1>4. h \in ToSet(q)
  BY <1>1 DEF ToSet
<1>5. QED
  BY <1>1, <1>2, <1>3, <1>4 DEF h, t

LEMMA SiftedCases ==
  ASSUME NEW group \in Seq(Cases), IsInjective(group), NEW S
  PROVE  /\ Sifted(group, S) \in Seq(Cases) /\ IsInjective(Sifted(group, S))
         /\ ToSet(Sifted(group, S)) = ToSet(group) \cap S
  BY SiftedFacts

LEMMA CasesOfSeq ==
  ASSUME NEW group \in Seq(Cases)
  PROVE  ToSet(group) \subseteq Cases /\ (ToSet(group) = {} => group = <<>>)
<1>1. DOMAIN group = 1..Len(group) /\ Len(group) \in Nat
  OBVIOUS
<1>2. ToSet(group) \subseteq Cases
  BY DEF ToSet
<1>3. ASSUME group # <<>> PROVE ToSet(group) # {}
  <2>1. 1 \in DOMAIN group
    BY <1>1, <1>3
  <2>2. QED
    BY <2>1 DEF ToSet
<1>4. QED
  BY <1>2, <1>3

\* The result of a case that was read is one of those that were read.
LEMMA ResultForFacts ==
  ASSUME NEW rs, NEW c \in CasesOf(rs)
  PROVE  ResultFor(rs, c) \in rs /\ ResultFor(rs, c).case = c
<1>1. \E r \in rs : r.case = c
  BY DEF CasesOf
<1>2. QED
  BY <1>1 DEF ResultFor

LEMMA EarlierFacts ==
  ASSUME NEW group \in Seq(Cases), IsInjective(group), done \subseteq AllResults
  PROVE  /\ Earlier(group) \in Seq(AllResults)
         /\ \A i \in DOMAIN Earlier(group) : Earlier(group)[i] \in done
         /\ OncePerCase(Earlier(group))
         /\ CasesAmong(Earlier(group)) = ToSet(group) \cap CasesOf(done)
<1> DEFINE old == Sifted(group, CasesOf(done))
           e == Earlier(group)
<1>1. /\ old \in Seq(Cases) /\ IsInjective(old) /\ ToSet(old) = ToSet(group) \cap CasesOf(done)
      /\ DOMAIN old = 1..Len(old) /\ Len(old) \in Nat
  BY SiftedCases
<1>2. e = [i \in DOMAIN old |-> ResultFor(done, old[i])]
  BY DEF Earlier
<1> HIDE DEF old, e
<1>3. ASSUME NEW i \in DOMAIN old
      PROVE  e[i] \in done /\ e[i].case = old[i]
  <2>1. old[i] \in CasesOf(done)
    BY <1>1 DEF ToSet
  <2>2. QED
    BY <1>2, <2>1, ResultForFacts
<1>4. DOMAIN e = DOMAIN old
  BY <1>2
<1>5. e \in Seq(AllResults)
  <2>1. e = [i \in 1..Len(old) |-> e[i]]
    BY <1>1, <1>2
  <2>2. \A i \in 1..Len(old) : e[i] \in AllResults
    BY <1>1, <1>3
  <2>3. QED
    BY <1>1, <2>1, <2>2
<1>6. OncePerCase(e)
  BY <1>1, <1>3, <1>4 DEF OncePerCase, IsInjective
<1>7. CasesAmong(e) = ToSet(old)
  BY <1>3, <1>4 DEF CasesAmong, ToSet
<1>8. QED
  BY <1>1, <1>3, <1>4, <1>5, <1>6, <1>7 DEF e

LEMMA AppendedResults ==
  ASSUME NEW rs \in Seq(AllResults), NEW r \in AllResults
  PROVE  /\ Append(rs, r) \in Seq(AllResults)
         /\ CasesAmong(Append(rs, r)) = CasesAmong(rs) \cup {r.case}
         /\ OncePerCase(rs) /\ r.case \notin CasesAmong(rs) => OncePerCase(Append(rs, r))
<1> DEFINE m == Append(rs, r)
           n == Len(rs) + 1
<1>1. /\ m \in Seq(AllResults) /\ n \in DOMAIN m /\ m[n] = r /\ n \notin DOMAIN rs
      /\ \A i \in DOMAIN rs : m[i] = rs[i] /\ i \in DOMAIN m
      /\ \A i \in DOMAIN m : i \in DOMAIN rs \/ i = n
  BY AppendFacts
<1> HIDE DEF m, n
<1>2. CasesAmong(m) = CasesAmong(rs) \cup {r.case}
  <2>1. \A c \in CasesAmong(m) : c \in CasesAmong(rs) \cup {r.case}
    BY <1>1 DEF CasesAmong
  <2>2. \A c \in CasesAmong(rs) \cup {r.case} : c \in CasesAmong(m)
    BY <1>1 DEF CasesAmong
  <2>3. QED
    BY <2>1, <2>2
<1>3. ASSUME OncePerCase(rs), r.case \notin CasesAmong(rs) PROVE OncePerCase(m)
  BY <1>1, <1>3 DEF OncePerCase, CasesAmong
<1>4. QED
  BY <1>1, <1>2, <1>3 DEF m

LEMMA ConcatFacts ==
  ASSUME NEW T, NEW p \in Seq(T), NEW q \in Seq(T)
  PROVE  /\ p \o q \in Seq(T) /\ Len(p \o q) = Len(p) + Len(q)
         /\ Len(p) \in Nat /\ Len(q) \in Nat
         /\ DOMAIN p = 1..Len(p) /\ DOMAIN (p \o q) = 1..(Len(p) + Len(q))
         /\ \A i \in DOMAIN p : i \in DOMAIN (p \o q) /\ (p \o q)[i] = p[i]
         /\ \A i \in DOMAIN (p \o q) : i \in DOMAIN p \/
              (i > Len(p) /\ i - Len(p) \in DOMAIN q /\ (p \o q)[i] = q[i - Len(p)])
         /\ \A i \in DOMAIN q : i + Len(p) \in DOMAIN (p \o q) /\ (p \o q)[i + Len(p)] = q[i]
<1> DEFINE r == p \o q
<1>1. /\ r \in Seq(T) /\ Len(p) \in Nat /\ Len(q) \in Nat /\ Len(r) = Len(p) + Len(q)
      /\ DOMAIN p = 1..Len(p) /\ DOMAIN q = 1..Len(q) /\ DOMAIN r = 1..(Len(p) + Len(q))
      /\ \A i \in 1..Len(p) : r[i] = p[i]
      /\ \A i \in 1..(Len(p) + Len(q)) : i > Len(p) => r[i] = q[i - Len(p)]
  OBVIOUS
<1> HIDE DEF r
<1>2. \A i \in DOMAIN r : \/ i \in DOMAIN p
                          \/ i > Len(p) /\ i - Len(p) \in DOMAIN q /\ r[i] = q[i - Len(p)]
  BY <1>1
<1>3. \A i \in DOMAIN p : i \in DOMAIN r /\ r[i] = p[i]
  BY <1>1
<1>4. \A i \in DOMAIN q : i + Len(p) \in DOMAIN r /\ r[i + Len(p)] = q[i]
  <2>1. ASSUME NEW i \in DOMAIN q
        PROVE  i + Len(p) \in 1..(Len(p) + Len(q)) /\ i + Len(p) > Len(p) /\ (i + Len(p)) - Len(p) = i
    BY <1>1
  <2>2. QED
    BY <1>1, <2>1
<1>5. QED
  BY <1>1, <1>2, <1>3, <1>4 DEF r

LEMMA ConcatResults ==
  ASSUME NEW p \in Seq(AllResults), NEW q \in Seq(AllResults)
  PROVE  /\ p \o q \in Seq(AllResults)
         /\ CasesAmong(p \o q) = CasesAmong(p) \cup CasesAmong(q)
         /\ OncePerCase(p) /\ OncePerCase(q) /\ CasesAmong(p) \cap CasesAmong(q) = {}
              => OncePerCase(p \o q)
<1> DEFINE r == p \o q
<1>1. /\ r \in Seq(AllResults)
      /\ Len(p) \in Nat /\ DOMAIN r = 1..(Len(p) + Len(q)) /\ Len(q) \in Nat
      /\ \A i \in DOMAIN p : i \in DOMAIN r /\ r[i] = p[i]
      /\ \A i \in DOMAIN r : i \in DOMAIN p \/
           (i > Len(p) /\ i - Len(p) \in DOMAIN q /\ r[i] = q[i - Len(p)])
      /\ \A i \in DOMAIN q : i + Len(p) \in DOMAIN r /\ r[i + Len(p)] = q[i]
  BY ConcatFacts
<1> HIDE DEF r
<1>2. CasesAmong(r) = CasesAmong(p) \cup CasesAmong(q)
  <2>1. \A i \in DOMAIN r : r[i].case \in CasesAmong(p) \cup CasesAmong(q)
    BY <1>1 DEF CasesAmong
  <2>2. \A i \in DOMAIN p : p[i].case \in CasesAmong(r)
    BY <1>1 DEF CasesAmong
  <2>3. \A i \in DOMAIN q : q[i].case \in CasesAmong(r)
    BY <1>1 DEF CasesAmong
  <2>4. QED
    BY <2>1, <2>2, <2>3 DEF CasesAmong
<1>3. ASSUME OncePerCase(p), OncePerCase(q), CasesAmong(p) \cap CasesAmong(q) = {}
      PROVE  OncePerCase(r)
  <2>1. \A i \in DOMAIN p, j \in DOMAIN q : p[i].case # q[j].case
    BY <1>3 DEF CasesAmong
  <2>2. ASSUME NEW i \in DOMAIN r, NEW j \in DOMAIN r, r[i].case = r[j].case PROVE i = j
    <3>1. i \in Int /\ j \in Int
      BY <1>1
    <3>2. CASE i \in DOMAIN p /\ j \in DOMAIN p
      BY <1>1, <1>3, <2>2, <3>2 DEF OncePerCase
    <3>3. CASE /\ i > Len(p) /\ i - Len(p) \in DOMAIN q /\ r[i] = q[i - Len(p)]
               /\ j > Len(p) /\ j - Len(p) \in DOMAIN q /\ r[j] = q[j - Len(p)]
      <4>1. i - Len(p) = j - Len(p)
        BY <1>3, <2>2, <3>3 DEF OncePerCase
      <4>2. QED
        BY <1>1, <3>1, <4>1
    <3>4. QED
      BY <1>1, <2>1, <2>2, <3>2, <3>3
  <2>3. QED
    BY <2>2 DEF OncePerCase
<1>4. QED
  BY <1>1, <1>2, <1>3 DEF r

-----------------------------------------------------------------------------
(* Unmeasured results in a row.                                            *)

LEMMA TrailGrows ==
  ASSUME NEW rs, NEW m \in Int, NEW n \in Int, m <= n, rs \in Seq(AllResults), TrailAtMost(rs, m)
  PROVE  TrailAtMost(rs, n)
<1>1. Len(rs) \in Nat /\ DOMAIN rs = 1..Len(rs)
  OBVIOUS
<1>2. QED
  BY <1>1 DEF TrailAtMost

LEMMA EmptyTrail ==
  ASSUME NEW n
  PROVE  TrailAtMost(<<>>, n) /\ Windows(<<>>, n)
  BY DEF TrailAtMost, Windows

LEMMA TrailOfAppend ==
  ASSUME NEW rs \in Seq(AllResults), NEW r \in AllResults, NEW n \in Int
  PROVE  /\ ~r.unmeasured /\ 0 <= n => TrailAtMost(Append(rs, r), n)
         /\ 0 <= n /\ TrailAtMost(rs, n) => TrailAtMost(Append(rs, r), n + 1)
<1> DEFINE m == Append(rs, r)
           k == Len(rs) + 1
<1>1. /\ m \in Seq(AllResults) /\ Len(m) = k /\ m[k] = r /\ k \in Nat /\ Len(rs) = k - 1
      /\ DOMAIN m = 1..k /\ DOMAIN rs = 1..(k - 1)
      /\ \A i \in 1..(k - 1) : m[i] = rs[i]
  BY AppendFacts
<1> HIDE DEF m, k
<1>2. ASSUME ~r.unmeasured, 0 <= n PROVE TrailAtMost(m, n)
  <2>1. \A i \in DOMAIN m : k \in i..Len(m)
    BY <1>1
  <2>2. QED
    BY <1>1, <1>2, <2>1 DEF TrailAtMost
<1>3. ASSUME 0 <= n, TrailAtMost(rs, n) PROVE TrailAtMost(m, n + 1)
  <2>1. SUFFICES ASSUME NEW i \in 1..k, \A j \in i..k : m[j].unmeasured
                 PROVE  k - i + 1 <= n + 1
    BY <1>1 DEF TrailAtMost
  <2>2. CASE i = k
    BY <1>1, <1>3, <2>2
  <2>3. CASE i # k
    <3>1. i \in 1..(k - 1) /\ \A j \in i..(k - 1) : j \in i..k /\ j \in 1..(k - 1)
      BY <1>1, <2>3
    <3>2. \A j \in i..(k - 1) : rs[j].unmeasured
      BY <1>1, <2>1, <3>1
    <3>3. (k - 1) - i + 1 <= n
      BY <1>1, <1>3, <3>1, <3>2 DEF TrailAtMost
    <3>4. QED
      BY <1>1, <3>3
  <2>4. QED
    BY <2>2, <2>3
<1>4. QED
  BY <1>2, <1>3 DEF m

LEMMA WindowsOfAppend ==
  ASSUME NEW rs \in Seq(AllResults), NEW r \in AllResults, NEW w \in Nat,
         Windows(rs, w), TrailAtMost(Append(rs, r), w)
  PROVE  Windows(Append(rs, r), w)
<1> DEFINE m == Append(rs, r)
           k == Len(rs) + 1
<1>1. /\ m \in Seq(AllResults) /\ Len(m) = k /\ m[k] = r /\ k \in Nat /\ Len(rs) = k - 1
      /\ DOMAIN m = 1..k /\ DOMAIN rs = 1..(k - 1)
      /\ \A i \in 1..(k - 1) : m[i] = rs[i]
  BY AppendFacts
<1>2. TrailAtMost(m, w)
  OBVIOUS
<1> HIDE DEF m, k
<1>3. SUFFICES ASSUME NEW i \in 1..k
               PROVE  \E j \in i..(i + w) : j \notin 1..k \/ ~m[j].unmeasured
  BY <1>1 DEF Windows, m
<1>4. CASE i + w > k
  <2>1. i + w \in i..(i + w) /\ i + w \notin 1..k
    BY <1>1, <1>4
  <2>2. QED
    BY <2>1
<1>5. CASE i + w = k
  <2>1. k - i + 1 > w
    BY <1>1, <1>5
  <2>2. (\A j \in i..k : m[j].unmeasured) => k - i + 1 <= w
    BY <1>1, <1>2 DEF TrailAtMost
  <2>3. \E j \in i..k : ~m[j].unmeasured
    BY <1>1, <2>1, <2>2
  <2>4. QED
    BY <1>5, <2>3
<1>6. CASE i + w < k
  <2>1. i \in 1..(k - 1) /\ \A j \in i..(i + w) : j \in 1..(k - 1)
    BY <1>1, <1>6
  <2>2. PICK j \in i..(i + w) : j \notin 1..(k - 1) \/ ~rs[j].unmeasured
    BY <1>1, <2>1 DEF Windows
  <2>3. QED
    BY <1>1, <2>1, <2>2
<1>7. QED
  BY <1>1, <1>4, <1>5, <1>6

\* Results that were measured before do not lengthen it.
LEMMA TrailOfConcat ==
  ASSUME NEW p \in Seq(AllResults), NEW q \in Seq(AllResults),
         \A i \in DOMAIN q : ~q[i].unmeasured
  PROVE  /\ \A n \in Nat : TrailAtMost(p, n) => TrailAtMost(p \o q, n)
         /\ \A w \in Nat : Windows(p, w) => Windows(p \o q, w)
<1> DEFINE m == p \o q
           k == Len(p)
           l == k + Len(q)
<1>1. /\ m \in Seq(AllResults) /\ Len(m) = l /\ k \in Nat /\ l \in Nat /\ k <= l
      /\ DOMAIN m = 1..l /\ DOMAIN p = 1..k
      /\ \A i \in 1..k : m[i] = p[i]
      /\ \A i \in 1..l : i \in 1..k \/ (i > k /\ ~m[i].unmeasured)
  <2>1. /\ m \in Seq(AllResults) /\ Len(m) = Len(p) + Len(q) /\ Len(p) \in Nat /\ Len(q) \in Nat
        /\ DOMAIN p = 1..Len(p) /\ DOMAIN m = 1..(Len(p) + Len(q))
        /\ \A i \in DOMAIN p : i \in DOMAIN m /\ m[i] = p[i]
        /\ \A i \in DOMAIN m : i \in DOMAIN p \/
             (i > Len(p) /\ i - Len(p) \in DOMAIN q /\ m[i] = q[i - Len(p)])
    BY ConcatFacts
  <2> HIDE DEF m
  <2>2. ASSUME NEW i \in 1..l PROVE i \in 1..k \/ (i > k /\ ~m[i].unmeasured)
    BY <2>1
  <2>3. \A i \in 1..k : m[i] = p[i]
    BY <2>1
  <2>4. k \in Nat /\ l \in Nat /\ k <= l /\ DOMAIN m = 1..l /\ DOMAIN p = 1..k /\ Len(m) = l
    BY <2>1
  <2>5. QED
    BY <2>1, <2>2, <2>3, <2>4
<1> HIDE DEF m, k, l
<1>2. ASSUME NEW n \in Nat, TrailAtMost(p, n) PROVE TrailAtMost(m, n)
  <2>1. SUFFICES ASSUME NEW i \in 1..l, \A j \in i..l : m[j].unmeasured PROVE l - i + 1 <= n
    BY <1>1 DEF TrailAtMost
  <2>2. l \in i..l /\ l \in 1..l
    BY <1>1
  <2>3. l = k
    BY <1>1, <2>1, <2>2
  <2>4. \A j \in i..k : p[j].unmeasured
    <3>1. \A j \in i..k : j \in 1..k /\ j \in i..l
      BY <1>1, <2>3
    <3>2. QED
      BY <1>1, <2>1, <3>1
  <2>5. QED
    BY <1>1, <1>2, <2>3, <2>4 DEF TrailAtMost, k
<1>3. ASSUME NEW w \in Nat, Windows(p, w) PROVE Windows(m, w)
  <2>1. SUFFICES ASSUME NEW i \in 1..l
                 PROVE  \E j \in i..(i + w) : j \notin 1..l \/ ~m[j].unmeasured
    BY <1>1 DEF Windows
  <2>2. CASE i \in 1..k
    <3>1. PICK j \in i..(i + w) : j \notin 1..k \/ ~p[j].unmeasured
      BY <1>1, <1>3, <2>2 DEF Windows
    <3>2. CASE j \in 1..k
      BY <1>1, <3>1, <3>2
    <3>3. CASE j \notin 1..k
      BY <1>1, <3>1, <3>3
    <3>4. QED
      BY <3>2, <3>3
  <2>3. CASE i \notin 1..k
    <3>1. i \in i..(i + w) /\ ~m[i].unmeasured
      BY <1>1, <2>3
    <3>2. QED
      BY <3>1
  <2>4. QED
    BY <2>2, <2>3
<1>4. QED
  BY <1>2, <1>3 DEF m

-----------------------------------------------------------------------------
(* The futures.                                                            *)

LEMMA FutureFacts ==
  ASSUME NEW c, NEW state, NEW r
  PROVE  /\ Future(c, state, r).case = c /\ Future(c, state, r).state = state
         /\ Future(c, state, r).result = r
         /\ c \in Cases /\ state \in {"running", "raised", "finished", "kept"}
              /\ r \in AllResults \cup {NoScore} => Future(c, state, r) \in Futures
  BY DEF Future, Futures

LEMMA InFlightFacts ==
  ASSUME FuturesOK
  PROVE  /\ IsFiniteSet(InFlight) /\ Cardinality(InFlight) \in Nat /\ Cardinality(active) \in Nat
         /\ Cardinality(InFlight) <= Cardinality(active) /\ Cardinality(InFlight) <= Concurrency
         /\ Concurrency \in Nat /\ Limit \in Nat /\ Concurrency >= 1 /\ Limit >= 1
<1>1. IsFiniteSet(active) /\ Cardinality(active) <= Concurrency /\ InFlight \in SUBSET active
  BY DEF FuturesOK, InFlight
<1>2. /\ IsFiniteSet(InFlight) /\ Cardinality(InFlight) \in Nat /\ Cardinality(active) \in Nat
      /\ Cardinality(InFlight) <= Cardinality(active)
  BY <1>1, FS_Subset, FS_CardinalityType
<1>3. Concurrency \in Nat /\ Limit \in Nat /\ Concurrency >= 1 /\ Limit >= 1
  BY BatchAssumption
<1>4. QED
  BY <1>1, <1>2, <1>3

\* A worker hands over, or raises.
LEMMA ReplacedFuture ==
  ASSUME FuturesOK, signature' = signature, NEW a \in active, a.state = "running",
         NEW b \in Futures, b.case = a.case, b.state \in {"finished", "raised"},
         b.state = "finished" =>
           b.result \in AllResults /\ b.result.case = b.case /\ b.result.by = signature,
         active' = (active \ {a}) \cup {b}
  PROVE  /\ FuturesOK' /\ Kept' = Kept /\ Flying' = Flying
         /\ Finished' = Finished \cup (IF b.state = "finished" THEN {b} ELSE {})
         /\ Cardinality(InFlight') <= Cardinality(InFlight) /\ Cardinality(InFlight') \in Nat
<1>1. /\ active \subseteq Futures /\ IsFiniteSet(active) /\ Cardinality(active) <= Concurrency
      /\ \A x, y \in active : x.case = y.case => x = y
      /\ \A x \in active : x.state \in {"finished", "kept"} =>
           x.result \in AllResults /\ x.result.case = x.case /\ x.result.by = signature
  BY DEF FuturesOK
<1>2. Kept' = Kept /\ Finished' = Finished \cup (IF b.state = "finished" THEN {b} ELSE {})
  BY DEF Kept, Finished
<1>3. a \in InFlight /\ InFlight' = (InFlight \ {a}) \cup {b}
  BY <1>2 DEF InFlight, Kept
<1>4. Flying' = Flying
  BY <1>3 DEF Flying
<1>5. \A S : IsFiniteSet(S) /\ a \in S =>
        /\ IsFiniteSet((S \ {a}) \cup {b})
        /\ Cardinality((S \ {a}) \cup {b}) <= Cardinality(S)
        /\ Cardinality((S \ {a}) \cup {b}) \in Nat
  <2>1. SUFFICES ASSUME NEW S, IsFiniteSet(S), a \in S
                 PROVE  /\ IsFiniteSet((S \ {a}) \cup {b})
                        /\ Cardinality((S \ {a}) \cup {b}) <= Cardinality(S)
                        /\ Cardinality((S \ {a}) \cup {b}) \in Nat
    OBVIOUS
  <2>2. /\ Cardinality(S) \in Nat /\ IsFiniteSet(S \ {a})
        /\ Cardinality(S \ {a}) = Cardinality(S) - 1 /\ Cardinality(S \ {a}) \in Nat
    BY <2>1, FS_RemoveElement, FS_CardinalityType
  <2>3. /\ IsFiniteSet((S \ {a}) \cup {b})
        /\ Cardinality((S \ {a}) \cup {b}) \in {Cardinality(S \ {a}), Cardinality(S \ {a}) + 1}
    BY <2>2, FS_AddElement
  <2>4. QED
    BY <2>2, <2>3
<1>6. IsFiniteSet(InFlight) /\ Cardinality(active) \in Nat /\ Concurrency \in Nat
  BY InFlightFacts
<1>7. /\ IsFiniteSet(active') /\ Cardinality(active') <= Concurrency
      /\ Cardinality(InFlight') <= Cardinality(InFlight) /\ Cardinality(InFlight') \in Nat
  <2>1. /\ IsFiniteSet(active') /\ Cardinality(active') <= Cardinality(active)
        /\ Cardinality(active') \in Nat
    BY <1>1, <1>5
  <2>2. Cardinality(InFlight') <= Cardinality(InFlight) /\ Cardinality(InFlight') \in Nat
    BY <1>3, <1>5, <1>6
  <2>3. QED
    BY <1>1, <1>6, <2>1, <2>2
<1>8. FuturesOK'
  BY <1>1, <1>7 DEF FuturesOK
<1>9. QED
  BY <1>2, <1>4, <1>7, <1>8

\* The main thread has one's result and has not released it yet.
LEMMA KeptFuture ==
  ASSUME FuturesOK, signature' = signature, NEW a \in Finished, Kept = {},
         active' = (active \ {a}) \cup {Future(a.case, "kept", a.result)}
  PROVE  /\ FuturesOK' /\ Flying' = Flying \ {a.case} /\ a.case \in Flying
         /\ \A k \in Kept' : k.case = a.case
         /\ Finished' = Finished \ {a}
         /\ Cardinality(InFlight') = Cardinality(InFlight) - 1 /\ Cardinality(InFlight') \in Nat
<1> DEFINE b == Future(a.case, "kept", a.result)
<1>1. /\ active \subseteq Futures /\ IsFiniteSet(active) /\ Cardinality(active) <= Concurrency
      /\ \A x, y \in active : x.case = y.case => x = y
      /\ \A x \in active : x.state \in {"finished", "kept"} =>
           x.result \in AllResults /\ x.result.case = x.case /\ x.result.by = signature
  BY DEF FuturesOK
<1>2. a \in active /\ a.state = "finished" /\ a \in Futures /\ a.case \in Cases
      /\ a.result \in AllResults /\ a.result.case = a.case /\ a.result.by = signature
  BY <1>1 DEF Finished, Futures
<1>3. b \in Futures /\ b.case = a.case /\ b.state = "kept" /\ b.result = a.result
  BY <1>2, FutureFacts
<1>4. active' = (active \ {a}) \cup {b}
  OBVIOUS
<1> HIDE DEF b
<1>5. Kept' = {b} /\ Finished' = Finished \ {a}
  BY <1>2, <1>3, <1>4 DEF Kept, Finished
<1>6. InFlight = active /\ b \notin active \ {a} /\ InFlight' = InFlight \ {a}
  <2>1. b \notin active
    BY <1>3 DEF Kept
  <2>2. QED
    BY <1>4, <1>5, <2>1 DEF InFlight
<1>7. Flying' = Flying \ {a.case} /\ a.case \in Flying
  BY <1>1, <1>2, <1>6 DEF Flying
<1>8. Cardinality(InFlight') = Cardinality(InFlight) - 1 /\ Cardinality(InFlight') \in Nat
      /\ IsFiniteSet(InFlight')
  BY <1>1, <1>2, <1>6, FS_RemoveElement, FS_CardinalityType
<1>9. IsFiniteSet(active') /\ Cardinality(active') <= Concurrency
  <2>1. active' = InFlight' \cup {b}
    BY <1>4, <1>6
  <2>2. /\ IsFiniteSet(active')
        /\ Cardinality(active') \in {Cardinality(InFlight'), Cardinality(InFlight') + 1}
    <3>1. /\ IsFiniteSet(InFlight' \cup {b})
          /\ Cardinality(InFlight' \cup {b}) =
               IF b \in InFlight' THEN Cardinality(InFlight') ELSE Cardinality(InFlight') + 1
      BY <1>8, FS_AddElement
    <3>2. QED
      BY <2>1, <3>1
  <2>3. Cardinality(active) \in Nat /\ Concurrency \in Nat /\ Cardinality(InFlight) = Cardinality(active)
    BY <1>6, InFlightFacts
  <2>4. QED
    BY <1>1, <1>8, <2>2, <2>3
<1>10. FuturesOK'
  BY <1>1, <1>2, <1>3, <1>4, <1>9 DEF FuturesOK
<1>11. QED
  BY <1>3, <1>5, <1>7, <1>8, <1>10

\* Some of them are released or drained.
LEMMA FewerFutures ==
  ASSUME FuturesOK, signature' = signature, NEW D, active' = active \ D
  PROVE  /\ FuturesOK' /\ Flying' = {a.case : a \in InFlight \ D}
         /\ Kept' = Kept \ D /\ Finished' = Finished \ D
         /\ Cardinality(InFlight') <= Cardinality(InFlight) /\ Cardinality(InFlight') \in Nat
<1>1. /\ IsFiniteSet(active) /\ Cardinality(active) <= Concurrency /\ active' \in SUBSET active
  BY DEF FuturesOK
<1>2. IsFiniteSet(InFlight) /\ Cardinality(active) \in Nat /\ Concurrency \in Nat /\ Cardinality(InFlight) \in Nat
  BY InFlightFacts
<1>3. Kept' = Kept \ D /\ Finished' = Finished \ D
  BY DEF Kept, Finished
<1>4. InFlight' = InFlight \ D
  BY <1>3 DEF InFlight
<1>5. Flying' = {a.case : a \in InFlight \ D}
  BY <1>4 DEF Flying
<1>6. /\ IsFiniteSet(active') /\ Cardinality(active') <= Cardinality(active)
      /\ Cardinality(active') \in Nat
  BY <1>1, FS_Subset, FS_CardinalityType
<1>7. Cardinality(InFlight') <= Cardinality(InFlight) /\ Cardinality(InFlight') \in Nat
  <2>1. InFlight' \in SUBSET InFlight
    BY <1>4
  <2>2. QED
    BY <1>2, <2>1, FS_Subset, FS_CardinalityType
<1>8. Cardinality(active') <= Concurrency
  BY <1>1, <1>2, <1>6
<1>9. FuturesOK'
  BY <1>1, <1>6, <1>8 DEF FuturesOK
<1>10. QED
  BY <1>3, <1>5, <1>7, <1>9

\* None of them.
NoFutures ==
  active = {} => /\ FuturesOK /\ Kept = {} /\ Finished = {} /\ Flying = {} /\ InFlight = {}
                 /\ Cardinality(InFlight) = 0

LEMMA NoFuturesFacts == NoFutures
<1>1. IsFiniteSet({}) /\ Cardinality({}) = 0
  BY FS_EmptySet
<1>2. Concurrency \in Nat
  BY BatchAssumption
<1>3. QED
  BY <1>1, <1>2 DEF NoFutures, FuturesOK, Kept, Finished, Flying, InFlight

LEMMA NoFuturesNext == NoFutures'
  BY NoFuturesFacts, PTL

-----------------------------------------------------------------------------
(* The invariant, action by action.                                        *)

LEMMA StutterKeeps ==
  ASSUME BatchInv, UNCHANGED vars
  PROVE  BatchInv'
<1>1. /\ pc' = pc /\ signature' = signature /\ log' = log /\ done' = done /\ todo' = todo
      /\ pending' = pending /\ active' = active /\ results' = results /\ streak' = streak
      /\ outage' = outage /\ exit' = exit /\ processes' = processes /\ paid' = paid /\ lost' = lost
  BY DEF vars
<1>2. Shape' /\ Places' /\ OneSignature' /\ Reports'
  BY <1>1 DEF BatchInv, Shape, Places, OneSignature, Reports, FuturesOK, Reported
<1>3. Kept' = Kept /\ Finished' = Finished
  BY <1>1 DEF Kept, Finished
<1>4. Flying' = Flying /\ InFlight' = InFlight /\ Reported' = Reported /\ Group' = Group
  BY <1>1, <1>3 DEF Flying, InFlight, Reported, Group
<1>5. Covered' /\ Logged' /\ OutageSeen'
  BY <1>1, <1>3, <1>4 DEF BatchInv, Covered, Logged, OutageSeen
<1>6. PaidOrLost'
  BY <1>1, <1>3 DEF BatchInv, PaidOrLost, PaidResultsSurvive
<1>7. QED
  BY <1>2, <1>5, <1>6 DEF BatchInv

LEMMA OpenGroupKeeps ==
  ASSUME BatchInv, OpenGroup
  PROVE  BatchInv'
<1> DEFINE g == Head(todo)
           e == Earlier(g)
<1>1. /\ pc = "between" /\ todo # <<>> /\ pc' = "group" /\ pending' = Unfinished(g)
      /\ results' = results \o e
      /\ signature' = signature /\ log' = log /\ done' = done /\ todo' = todo
      /\ active' = active /\ streak' = streak /\ outage' = outage /\ exit' = exit
      /\ processes' = processes /\ paid' = paid /\ lost' = lost
  BY DEF OpenGroup
<1>2. Shape /\ Places /\ OneSignature /\ Covered /\ Logged /\ PaidOrLost /\ OutageSeen /\ Reports
  BY DEF BatchInv
<1>3. /\ g \in Seq(Cases) /\ IsInjective(g) /\ CasesIn(todo) = ToSet(g) \cup CasesIn(Tail(todo))
      /\ ToSet(g) \cap CasesIn(Tail(todo)) = {}
  BY <1>1, <1>2, FirstGroup DEF Shape
<1>4. /\ pending' \in Seq(Cases) /\ IsInjective(pending')
      /\ ToSet(pending') = ToSet(g) \cap (Cases \ CasesOf(done))
  <2>1. pending' = Sifted(g, Cases \ CasesOf(done))
    BY <1>1 DEF Unfinished
  <2> HIDE DEF g
  <2>2. QED
    BY <1>3, <2>1, SiftedCases
<1>5. ToSet(g) \subseteq Cases
  BY <1>3, CasesOfSeq
<1>6. /\ e \in Seq(AllResults) /\ (\A i \in DOMAIN e : e[i] \in done)
      /\ OncePerCase(e) /\ CasesAmong(e) = ToSet(g) \cap CasesOf(done)
  <2>1. done \subseteq AllResults
    BY <1>2 DEF Shape
  <2> HIDE DEF g
  <2>2. QED
    BY <1>3, <2>1, EarlierFacts
<1> HIDE DEF g, e
<1>7. \A i \in DOMAIN e : e[i].by = signature /\ ~e[i].unmeasured
  BY <1>1, <1>2, <1>6 DEF OneSignature
<1>8. /\ results \in Seq(AllResults)
      /\ results' \in Seq(AllResults)
      /\ CasesAmong(results') = CasesAmong(results) \cup CasesAmong(e)
      /\ OncePerCase(results) /\ CasesAmong(results) \cap CasesAmong(e) = {} => OncePerCase(results')
  <2>1. results \in Seq(AllResults)
    BY <1>2 DEF Shape
  <2>2. QED
    BY <1>1, <1>6, <2>1, ConcatResults
<1>9. Reported' = Reported \cup (ToSet(g) \cap CasesOf(done)) /\ Group = ToSet(g) /\ Group' = ToSet(g)
  BY <1>1, <1>6, <1>8 DEF Reported, Group, g
<1>10. active = {} /\ active' = {} /\ FuturesOK' /\ Kept' = {} /\ Finished' = {} /\ Finished = {}
       /\ Flying' = {} /\ Flying = {} /\ InFlight' = InFlight
  BY <1>1, <1>2, NoFuturesFacts, NoFuturesNext DEF Places, NoFutures
<1>11. Shape'
  <2>1. Len(results) \in Nat /\ Len(e) \in Nat /\ Len(results') = Len(results) + Len(e)
    BY <1>1, <1>6, <1>8, ConcatFacts
  <2>2. streak \in Nat /\ streak <= Len(results')
    BY <1>2, <2>1 DEF Shape
  <2>3. QED
    BY <1>1, <1>2, <1>4, <1>8, <1>10, <2>2 DEF Shape
<1>12. Places'
  BY <1>1, <1>2 DEF Places
<1>13. OneSignature'
  <2>1. \A i \in DOMAIN results' : results'[i].by = signature
    <3>1. /\ \A i \in DOMAIN results : (results \o e)[i] = results[i]
          /\ \A i \in DOMAIN (results \o e) : i \in DOMAIN results \/
               (i > Len(results) /\ i - Len(results) \in DOMAIN e /\ (results \o e)[i] = e[i - Len(results)])
      BY <1>6, <1>8, ConcatFacts
    <3>2. \A i \in DOMAIN results : results[i].by = signature
      BY <1>1, <1>2 DEF OneSignature
    <3>3. QED
      BY <1>1, <1>7, <3>1, <3>2
  <2>2. QED
    BY <1>1, <1>2, <2>1 DEF OneSignature
<1>14. Covered'
  <2>1. /\ OncePerCase(results) /\ Reported \cup CasesIn(todo) = Cases
        /\ Reported \cap CasesIn(todo) = {}
    BY <1>1, <1>2 DEF Covered
  <2>2. OncePerCase(results')
    BY <1>3, <1>6, <1>8, <2>1 DEF Reported
  <2>3. Reported' \cup CasesIn(todo) = Cases /\ Reported' \cap CasesIn(Tail(todo)) = {}
    BY <1>3, <1>9, <2>1
  <2>4. Group' \ Reported' = ToSet(pending')
    BY <1>3, <1>4, <1>5, <1>9, <2>1
  <2>5. ToSet(pending') \cap CasesOf(done) = {}
    BY <1>4
  <2>6. QED
    BY <1>1, <1>10, <2>2, <2>3, <2>4, <2>5 DEF Covered
<1>15. Logged'
  <2>1. LogCases(log.lines) \subseteq CasesOf(done) \cup Reported
    BY <1>1, <1>2 DEF Logged
  <2>2. QED
    BY <1>1, <1>9, <2>1 DEF Logged
<1>16. PaidOrLost'
  BY <1>1, <1>2, <1>10 DEF PaidOrLost, PaidResultsSurvive
<1>17. OutageSeen'
  <2>1. Limit - 1 \in Nat /\ Limit + Concurrency - 1 \in Nat
    BY BatchAssumption
  <2>2. /\ Windows(results, Limit + Concurrency - 1) /\ outage = None
        /\ TrailAtMost(results, streak) /\ TrailAtMost(results, Limit - 1) /\ streak \in Nat
    BY <1>1, <1>2 DEF OutageSeen, Places, Shape
  <2>3. /\ Windows(results', Limit + Concurrency - 1)
        /\ TrailAtMost(results', streak) /\ TrailAtMost(results', Limit - 1)
    BY <1>1, <1>6, <1>7, <1>8, <2>1, <2>2, TrailOfConcat
  <2>4. QED
    BY <1>1, <2>2, <2>3 DEF OutageSeen
<1>18. Reports'
  BY <1>1, <1>2 DEF Reports, Places, NoExit, OK, EvalFailed
<1>19. QED
  BY <1>11, <1>12, <1>13, <1>14, <1>15, <1>16, <1>17, <1>18 DEF BatchInv

LEMMA UnusableKeeps ==
  ASSUME BatchInv, Unusable
  PROVE  BatchInv'
<1> DEFINE g == Head(todo)
<1>1. /\ pc = "between" /\ todo # <<>> /\ pc' = "unusable" /\ pending' = g
      /\ signature' = signature /\ log' = log /\ done' = done /\ todo' = todo
      /\ active' = active /\ results' = results /\ streak' = streak /\ outage' = outage
      /\ exit' = exit /\ processes' = processes /\ paid' = paid /\ lost' = lost
  BY DEF Unusable
<1>2. Shape /\ Places /\ OneSignature /\ Covered /\ Logged /\ PaidOrLost /\ OutageSeen /\ Reports
  BY DEF BatchInv
<1>3. /\ g \in Seq(Cases) /\ IsInjective(g) /\ CasesIn(todo) = ToSet(g) \cup CasesIn(Tail(todo))
      /\ ToSet(g) \cap CasesIn(Tail(todo)) = {}
  BY <1>1, <1>2, FirstGroup DEF Shape
<1>4. Group' = ToSet(g) /\ Reported' = Reported
  BY <1>1 DEF Reported, Group
<1>5. active = {} /\ active' = {} /\ FuturesOK' /\ Finished' = Finished
      /\ Flying' = {} /\ InFlight' = InFlight /\ outage = None /\ exit = NoExit
  BY <1>1, <1>2, NoFuturesFacts, NoFuturesNext DEF Places, NoFutures
<1> HIDE DEF g
<1>6. Shape'
  BY <1>1, <1>2, <1>3, <1>5 DEF Shape
<1>7. Places' /\ OneSignature'
  BY <1>1, <1>2, <1>5 DEF Places, OneSignature
<1>8. Covered'
  <2>1. /\ OncePerCase(results) /\ Reported \cup CasesIn(todo) = Cases
        /\ Reported \cap CasesIn(todo) = {}
    BY <1>1, <1>2 DEF Covered
  <2>2. Group' \ Reported' = ToSet(pending') /\ Reported \cap CasesIn(Tail(todo)) = {}
    BY <1>1, <1>3, <1>4, <2>1
  <2>3. QED
    BY <1>1, <1>4, <1>5, <2>1, <2>2 DEF Covered
<1>9. Logged' /\ OutageSeen'
  BY <1>1, <1>2, <1>4, <1>5 DEF Logged, OutageSeen
<1>10. PaidOrLost'
  BY <1>1, <1>2, <1>5 DEF PaidOrLost, PaidResultsSurvive
<1>11. Reports'
  BY <1>1, <1>5 DEF Reports, NoExit, OK, EvalFailed
<1>12. QED
  BY <1>6, <1>7, <1>8, <1>9, <1>10, <1>11 DEF BatchInv

LEMMA NextGroupKeeps ==
  ASSUME BatchInv, NextGroup
  PROVE  BatchInv'
<1> DEFINE g == Head(todo)
<1>1. /\ pc \in {"group", "unusable", "aborted"} /\ outage = None /\ pending = <<>> /\ active = {}
      /\ pc' = "between" /\ todo' = Tail(todo) /\ pending' = pending
      /\ signature' = signature /\ log' = log /\ done' = done
      /\ active' = active /\ results' = results /\ streak' = streak /\ outage' = outage
      /\ exit' = exit /\ processes' = processes /\ paid' = paid /\ lost' = lost
  BY DEF NextGroup
<1>2. Shape /\ Places /\ OneSignature /\ Covered /\ Logged /\ PaidOrLost /\ OutageSeen /\ Reports
  BY DEF BatchInv
<1>3. /\ Tail(todo) \in Seq(Seq(Cases)) /\ AllDistinct(Tail(todo))
      /\ CasesIn(todo) = ToSet(g) \cup CasesIn(Tail(todo))
  <2>1. todo # <<>>
    BY <1>1, <1>2 DEF Places
  <2>2. QED
    BY <1>2, <2>1, FirstGroup DEF Shape
<1>4. Reported' = Reported /\ Group = ToSet(g) /\ ToSet(pending) = {}
  BY <1>1 DEF Reported, Group, ToSet
<1>5. FuturesOK' /\ Finished' = Finished /\ Flying = {}
      /\ Flying' = {} /\ InFlight' = InFlight /\ exit = NoExit
  BY <1>1, <1>2, NoFuturesFacts, NoFuturesNext DEF Places, NoFutures
<1> HIDE DEF g
<1>6. Shape'
  BY <1>1, <1>2, <1>3, <1>5 DEF Shape
<1>7. Places' /\ OneSignature'
  BY <1>1, <1>2, <1>5 DEF Places, OneSignature
<1>8. Covered'
  <2>1. /\ OncePerCase(results) /\ Reported \cup CasesIn(todo) = Cases
        /\ Reported \cap CasesIn(Tail(todo)) = {} /\ Group \ Reported = {}
    BY <1>1, <1>2, <1>4, <1>5 DEF Covered
  <2>2. Reported \cup CasesIn(Tail(todo)) = Cases
    BY <1>3, <1>4, <2>1
  <2>3. QED
    BY <1>1, <1>4, <2>1, <2>2 DEF Covered
<1>9. Logged'
  <2>1. LogCases(log.lines) \subseteq CasesOf(done) \cup Reported
    BY <1>1, <1>2, <1>4 DEF Logged
  <2>2. QED
    BY <1>1, <1>4, <2>1 DEF Logged
<1>10. OutageSeen'
  <2>1. Limit - 1 \in Nat /\ streak \in Nat /\ results \in Seq(AllResults)
    BY <1>2, BatchAssumption DEF Shape
  <2>2. TrailAtMost(results, streak) /\ TrailAtMost(results, Limit - 1)
    <3>1. CASE pc = "aborted"
      BY <1>1, <1>2, <2>1, <3>1, TrailGrows DEF OutageSeen
    <3>2. CASE pc # "aborted"
      BY <1>1, <1>2, <3>2 DEF OutageSeen
    <3>3. QED
      BY <3>1, <3>2
  <2>3. QED
    BY <1>1, <1>2, <2>2 DEF OutageSeen
<1>11. PaidOrLost'
  BY <1>1, <1>2, <1>5 DEF PaidOrLost, PaidResultsSurvive
<1>12. Reports'
  BY <1>1, <1>5 DEF Reports, NoExit, OK, EvalFailed
<1>13. QED
  BY <1>6, <1>7, <1>8, <1>9, <1>10, <1>11, <1>12 DEF BatchInv

LEMMA AdmitKeeps ==
  ASSUME BatchInv, Admit
  PROVE  BatchInv'
<1> DEFINE c == Head(pending)
           b == Future(c, "running", NoScore)
<1>1. /\ pc = "group" /\ outage = None /\ pending # <<>> /\ Cardinality(active) < Concurrency
      /\ active' = active \cup {b} /\ pending' = Tail(pending)
      /\ pc' = pc /\ signature' = signature /\ log' = log /\ done' = done /\ todo' = todo
      /\ results' = results /\ streak' = streak /\ outage' = outage
      /\ exit' = exit /\ processes' = processes /\ paid' = paid /\ lost' = lost
  BY DEF Admit
<1>2. Shape /\ Places /\ OneSignature /\ Covered /\ Logged /\ PaidOrLost /\ OutageSeen /\ Reports
  BY DEF BatchInv
<1>3. /\ c \in Cases /\ c \in ToSet(pending)
      /\ pending' \in Seq(Cases) /\ IsInjective(pending')
      /\ ToSet(pending') = ToSet(pending) \ {c}
  BY <1>1, <1>2, FirstCase DEF Shape
<1>4. b \in Futures /\ b.case = c /\ b.state = "running"
  BY <1>3, FutureFacts
<1> HIDE DEF c, b
<1>5. /\ Group \ Reported = ToSet(pending) \cup Flying
      /\ (ToSet(pending) \cup Flying) \cap CasesOf(done) = {}
      /\ ToSet(pending) \cap Flying = {}
      /\ \A a \in Kept : a.case \in Reported
  BY <1>1, <1>2 DEF Covered
<1>6. Kept' = Kept /\ Finished' = Finished
  BY <1>1, <1>4 DEF Kept, Finished
<1>7. Flying' = Flying \cup {c} /\ Reported' = Reported /\ Group' = Group
  <2>1. InFlight' = InFlight \cup {b}
    BY <1>1, <1>4, <1>6 DEF InFlight, Kept
  <2>2. QED
    BY <1>1, <1>4, <2>1 DEF Flying, Reported, Group
<1>8. \A a \in active : a.case # c
  <2>1. \A a \in active : a.case \in Flying \/ a \in Kept
    BY DEF Flying, InFlight
  <2>2. QED
    BY <1>3, <1>5, <2>1
<1>9. FuturesOK'
  <2>1. /\ active \subseteq Futures /\ IsFiniteSet(active)
        /\ \A x, y \in active : x.case = y.case => x = y
        /\ \A x \in active : x.state \in {"finished", "kept"} =>
             x.result \in AllResults /\ x.result.case = x.case /\ x.result.by = signature
    BY <1>2 DEF Shape, FuturesOK
  <2>2. IsFiniteSet(active') /\ Cardinality(active') <= Concurrency
    <3>1. /\ IsFiniteSet(active \cup {b})
          /\ Cardinality(active \cup {b}) = IF b \in active THEN Cardinality(active) ELSE Cardinality(active) + 1
      BY <2>1, FS_AddElement
    <3>2. Cardinality(active) \in Nat /\ Concurrency \in Nat
      BY <1>2, InFlightFacts DEF Shape
    <3>3. QED
      BY <1>1, <3>1, <3>2
  <2>3. QED
    BY <1>1, <1>4, <1>8, <2>1, <2>2 DEF FuturesOK
<1>10. Shape'
  BY <1>1, <1>2, <1>3, <1>9 DEF Shape
<1>11. Places' /\ OneSignature'
  BY <1>1, <1>2 DEF Places, OneSignature
<1>12. Covered'
  <2>1. /\ OncePerCase(results) /\ Reported \cup CasesIn(todo) = Cases
        /\ Reported \cap CasesIn(Tail(todo)) = {}
    BY <1>1, <1>2 DEF Covered
  <2>2. /\ ToSet(pending') \cup Flying' = ToSet(pending) \cup Flying
        /\ ToSet(pending') \cap Flying' = {}
    BY <1>3, <1>5, <1>7
  <2>3. QED
    BY <1>1, <1>5, <1>6, <1>7, <2>1, <2>2 DEF Covered
<1>13. Logged'
  BY <1>1, <1>2, <1>7 DEF Logged
<1>14. OutageSeen'
  BY <1>1, <1>2 DEF OutageSeen
<1>15. PaidOrLost'
  BY <1>1, <1>2, <1>6 DEF PaidOrLost, PaidResultsSurvive
<1>16. Reports'
  BY <1>1, <1>2 DEF Reports, Places, NoExit, OK, EvalFailed
<1>17. QED
  BY <1>10, <1>11, <1>12, <1>13, <1>14, <1>15, <1>16 DEF BatchInv

\* Finish and WorkerFails alike: only the futures change, and what is paid.
LEMMA WorkerEndsKeeps ==
  ASSUME BatchInv, pc \in {"group", "draining"}, NEW a \in active, a.state = "running",
         NEW b \in Futures, b.case = a.case, b.state \in {"finished", "raised"},
         b.state = "finished" =>
           b.result \in AllResults /\ b.result.case = b.case /\ b.result.by = signature,
         active' = (active \ {a}) \cup {b},
         \/ paid' = paid
         \/ b.state = "finished" /\ ~b.result.unmeasured /\ paid' = paid \cup {b.result},
         UNCHANGED <<pc, signature, log, done, todo, pending, results, streak, outage,
                     exit, processes, lost>>
  PROVE  BatchInv'
<1>1. /\ pc' = pc /\ signature' = signature /\ log' = log /\ done' = done /\ todo' = todo
      /\ pending' = pending /\ results' = results /\ streak' = streak /\ outage' = outage
      /\ exit' = exit /\ processes' = processes /\ lost' = lost
  OBVIOUS
<1>2. Shape /\ Places /\ OneSignature /\ Covered /\ Logged /\ PaidOrLost /\ OutageSeen /\ Reports
  BY DEF BatchInv
<1>3. /\ FuturesOK' /\ Kept' = Kept /\ Flying' = Flying
      /\ Finished' = Finished \cup (IF b.state = "finished" THEN {b} ELSE {})
      /\ Cardinality(InFlight') <= Cardinality(InFlight) /\ Cardinality(InFlight') \in Nat
  BY <1>1, <1>2, ReplacedFuture DEF Shape
<1>4. Reported' = Reported /\ Group' = Group
  BY <1>1 DEF Reported, Group
<1>5. Shape'
  BY <1>1, <1>2, <1>3 DEF Shape
<1>6. Places' /\ OneSignature'
  BY <1>1, <1>2 DEF Places, OneSignature
<1>7. Covered' /\ Logged'
  BY <1>1, <1>2, <1>3, <1>4 DEF Covered, Logged
<1>8. OutageSeen'
  <2>1. ASSUME outage # None
        PROVE  TrailAtMost(results, Limit + Concurrency - 1 - Cardinality(InFlight'))
    <3>1. TrailAtMost(results, Limit + Concurrency - 1 - Cardinality(InFlight))
      BY <1>2, <2>1 DEF OutageSeen
    <3>2. Cardinality(InFlight) \in Nat /\ Concurrency \in Nat /\ Limit \in Nat
      BY <1>2, InFlightFacts DEF Shape
    <3>3. /\ Limit + Concurrency - 1 - Cardinality(InFlight) \in Int
          /\ Limit + Concurrency - 1 - Cardinality(InFlight') \in Int
          /\ Limit + Concurrency - 1 - Cardinality(InFlight) <= Limit + Concurrency - 1 - Cardinality(InFlight')
      BY <1>3, <3>2
    <3>4. QED
      BY <1>2, <3>1, <3>3, TrailGrows DEF Shape
  <2>2. QED
    BY <1>1, <1>2, <2>1 DEF OutageSeen
<1>9. PaidOrLost'
  <2>1. paid' \ (lost \cup Results(Finished')) \subseteq Recorded(log.lines)
    <3>1. paid \ (lost \cup Results(Finished)) \subseteq Recorded(log.lines)
      BY <1>2 DEF PaidOrLost, PaidResultsSurvive
    <3>2. Results(Finished) \subseteq Results(Finished')
      BY <1>3 DEF Results
    <3>3. b.state = "finished" => b.result \in Results(Finished')
      BY <1>3 DEF Results
    <3>4. QED
      BY <3>1, <3>2, <3>3
  <2>2. QED
    BY <1>1, <2>1 DEF PaidOrLost, PaidResultsSurvive
<1>10. Reports'
  BY <1>1, <1>2 DEF Reports, Places, NoExit, OK, EvalFailed
<1>11. QED
  BY <1>5, <1>6, <1>7, <1>8, <1>9, <1>10 DEF BatchInv

LEMMA FinishKeeps ==
  ASSUME BatchInv, Finish
  PROVE  BatchInv'
<1>1. PICK a \in active, run \in Runs :
        /\ a.state = "running"
        /\ active' = (active \ {a}) \cup {Future(a.case, "finished", Score(a.case, run))}
        /\ paid' = IF Score(a.case, run).unmeasured THEN paid ELSE paid \cup {Score(a.case, run)}
  BY DEF Finish
<1> DEFINE r == Score(a.case, run)
           b == Future(a.case, "finished", r)
<1>2. a.case \in Cases /\ signature \in Signatures
  BY DEF BatchInv, Shape, FuturesOK, Futures
<1>3. r \in AllResults /\ r.case = a.case /\ r.by = signature
  BY <1>2, ScoreFacts
<1> HIDE DEF r
<1>4. b \in Futures /\ b.case = a.case /\ b.state = "finished" /\ b.result = r
  BY <1>2, <1>3, FutureFacts
<1>5. active' = (active \ {a}) \cup {b} /\ paid' = IF r.unmeasured THEN paid ELSE paid \cup {r}
  BY <1>1 DEF r
<1> HIDE DEF b
<1>6. /\ pc \in {"group", "draining"}
      /\ UNCHANGED <<pc, signature, log, done, todo, pending, results, streak, outage,
                     exit, processes, lost>>
  BY DEF Finish
<1>7. QED
  BY <1>1, <1>3, <1>4, <1>5, <1>6, WorkerEndsKeeps

LEMMA WorkerFailsKeeps ==
  ASSUME BatchInv, WorkerFails
  PROVE  BatchInv'
<1>1. PICK a \in active :
        a.state = "running" /\ active' = (active \ {a}) \cup {Future(a.case, "raised", NoScore)}
  BY DEF WorkerFails
<1> DEFINE b == Future(a.case, "raised", NoScore)
<1>2. a.case \in Cases
  BY DEF BatchInv, Shape, FuturesOK, Futures
<1>3. b \in Futures /\ b.case = a.case /\ b.state = "raised"
  BY <1>2, FutureFacts
<1>4. active' = (active \ {a}) \cup {b}
  BY <1>1
<1> HIDE DEF b
<1>5. /\ pc \in {"group", "draining"} /\ paid' = paid
      /\ UNCHANGED <<pc, signature, log, done, todo, pending, results, streak, outage,
                     exit, processes, lost>>
  BY DEF WorkerFails
<1>6. QED
  BY <1>1, <1>3, <1>4, <1>5, WorkerEndsKeeps

LEMMA ReleaseKeeps ==
  ASSUME BatchInv, Release
  PROVE  BatchInv'
<1>1. /\ pc = "group" /\ active' = active \ Kept
      /\ pc' = pc /\ signature' = signature /\ log' = log /\ done' = done /\ todo' = todo
      /\ pending' = pending /\ results' = results /\ streak' = streak /\ outage' = outage
      /\ exit' = exit /\ processes' = processes /\ paid' = paid /\ lost' = lost
  BY DEF Release
<1>2. Shape /\ Places /\ OneSignature /\ Covered /\ Logged /\ PaidOrLost /\ OutageSeen /\ Reports
  BY DEF BatchInv
<1>3. FuturesOK' /\ Kept' = {} /\ Finished' = Finished \ Kept
  BY <1>1, <1>2, FewerFutures DEF Shape
<1>4. Finished' = Finished
  BY <1>3 DEF Finished, Kept
<1>5. InFlight' = InFlight /\ Flying' = Flying
  BY <1>1, <1>3 DEF InFlight, Flying
<1>6. Reported' = Reported /\ Group' = Group
  BY <1>1 DEF Reported, Group
<1>7. Shape'
  BY <1>1, <1>2, <1>3 DEF Shape
<1>8. Places' /\ OneSignature'
  BY <1>1, <1>2 DEF Places, OneSignature
<1>9. Covered' /\ Logged' /\ OutageSeen'
  BY <1>1, <1>2, <1>3, <1>5, <1>6 DEF Covered, Logged, OutageSeen
<1>10. PaidOrLost'
  BY <1>1, <1>2, <1>4 DEF PaidOrLost, PaidResultsSurvive
<1>11. Reports'
  BY <1>1, <1>2 DEF Reports, Places, NoExit, OK, EvalFailed
<1>12. QED
  BY <1>7, <1>8, <1>9, <1>10, <1>11 DEF BatchInv

\* A result of a case with no line yet adds one.
LEMMA AddedLine ==
  ASSUME signature \in Signatures, NEW file, LogOK(file), Continues(file, signature),
         NEW r \in AllResults, r.by = signature, ~r.unmeasured, r.case \notin LogCases(file.lines)
  PROVE  Recorded(Appended(file, r).lines) = Recorded(file.lines) \cup {r}
<1>1. Recorded(Appended(file, r).lines) = {q \in Recorded(file.lines) : q.case # r.case} \cup {r}
  BY AppendedFacts
<1>2. CasesOf(Recorded(file.lines)) = LogCases(file.lines)
  BY RecordedFacts DEF LogOK
<1>3. \A q \in Recorded(file.lines) : q.case # r.case
  BY <1>2 DEF CasesOf
<1>4. QED
  BY <1>1, <1>3

\* What one more result does to the guard that has not stopped the batch.
LEMMA GuardFacts ==
  ASSUME NEW rs \in Seq(AllResults), NEW r \in AllResults, NEW n \in Nat,
         TrailAtMost(rs, n), TrailAtMost(rs, Limit - 1)
  PROVE  /\ Streak(n, r) \in Nat /\ Streak(n, r) <= n + 1
         /\ TrailAtMost(Append(rs, r), Streak(n, r))
         /\ TrailAtMost(Append(rs, r), Limit)
         /\ Streak(n, r) < Limit => TrailAtMost(Append(rs, r), Limit - 1)
<1>1. Limit \in Nat /\ Limit >= 1 /\ Limit - 1 \in Nat /\ (Limit - 1) + 1 = Limit
  BY BatchAssumption
<1>2. Append(rs, r) \in Seq(AllResults)
  BY AppendFacts
<1>3. CASE r.unmeasured
  <2>1. Streak(n, r) = n + 1
    BY <1>3 DEF Streak
  <2>2. TrailAtMost(Append(rs, r), n + 1) /\ TrailAtMost(Append(rs, r), (Limit - 1) + 1)
    BY <1>1, TrailOfAppend
  <2>3. ASSUME n + 1 < Limit PROVE TrailAtMost(Append(rs, r), Limit - 1)
    <3>1. n + 1 \in Int /\ Limit - 1 \in Int /\ n + 1 <= Limit - 1
      BY <1>1, <2>3
    <3>2. QED
      BY <1>2, <2>2, <3>1, TrailGrows
  <2>4. QED
    BY <1>1, <2>1, <2>2, <2>3
<1>4. CASE ~r.unmeasured
  <2>1. Streak(n, r) = 0
    BY <1>4 DEF Streak
  <2>2. \A k \in Nat : TrailAtMost(Append(rs, r), k)
    BY <1>4, TrailOfAppend
  <2>3. QED
    BY <1>1, <2>1, <2>2
<1>5. QED
  BY <1>3, <1>4

LEMMA CollectKeeps ==
  ASSUME BatchInv, Collect
  PROVE  BatchInv'
<1>1. PICK a \in Finished :
        /\ Record(a.result)
        /\ active' = (active \ {a}) \cup {Future(a.case, "kept", a.result)}
  BY DEF Collect
<1> DEFINE r == a.result
           c == a.case
<1>2. /\ pc = "group" /\ Kept = {}
      /\ pc' = pc /\ signature' = signature /\ done' = done /\ todo' = todo
      /\ pending' = pending /\ exit' = exit /\ processes' = processes
      /\ paid' = paid /\ lost' = lost
  BY DEF Collect
<1>3. Shape /\ Places /\ OneSignature /\ Covered /\ Logged /\ PaidOrLost /\ OutageSeen /\ Reports
  BY DEF BatchInv
<1>4. /\ FuturesOK' /\ Flying' = Flying \ {c} /\ c \in Flying
      /\ \A k \in Kept' : k.case = c
      /\ Finished' = Finished \ {a}
      /\ Cardinality(InFlight') = Cardinality(InFlight) - 1 /\ Cardinality(InFlight') \in Nat
  BY <1>1, <1>2, <1>3, KeptFuture DEF Shape
<1>5. /\ r \in AllResults /\ r.case = c /\ r.by = signature /\ signature \in Signatures
      /\ results \in Seq(AllResults) /\ LogOK(log) /\ streak \in Nat
  BY <1>1, <1>3 DEF Shape, FuturesOK, Finished
<1>6. r.unmeasured \in BOOLEAN
  BY <1>5, ResultFacts
<1>7. /\ results' = Append(results, r)
      /\ log' = IF r.unmeasured THEN log ELSE Appended(log, r)
      /\ \/ outage # None /\ streak' = streak /\ outage' = outage
         \/ /\ outage = None /\ streak' = Streak(streak, r)
            /\ streak' < Limit => outage' = None
            /\ outage' \in {None, "retryable", "refused"}
            /\ outage' = None => streak' < Limit
  BY <1>1 DEF Record, None
<1> HIDE DEF r, c
<1>8. /\ Group \ Reported = ToSet(pending) \cup Flying
      /\ (ToSet(pending) \cup Flying) \cap CasesOf(done) = {}
      /\ ToSet(pending) \cap Flying = {}
      /\ OncePerCase(results) /\ Reported \cup CasesIn(todo) = Cases
      /\ Reported \cap CasesIn(Tail(todo)) = {}
  BY <1>2, <1>3 DEF Covered
<1>9. /\ results' \in Seq(AllResults) /\ Reported' = Reported \cup {c} /\ OncePerCase(results')
  <2>1. /\ Append(results, r) \in Seq(AllResults)
        /\ CasesAmong(Append(results, r)) = CasesAmong(results) \cup {c}
        /\ OncePerCase(results) /\ c \notin CasesAmong(results) => OncePerCase(Append(results, r))
    BY <1>5, AppendedResults
  <2>2. c \notin CasesAmong(results)
    BY <1>4, <1>8 DEF Reported
  <2>3. QED
    BY <1>7, <1>8, <2>1, <2>2 DEF Reported
<1>10. Group' = Group
  BY <1>2 DEF Group
<1>11. c \in Group /\ todo # <<>> /\ CasesIn(todo) = Group \cup CasesIn(Tail(todo))
       /\ Group \cap CasesIn(Tail(todo)) = {}
  <2>1. todo # <<>>
    BY <1>2, <1>3 DEF Places
  <2>2. QED
    BY <1>3, <1>4, <1>8, <2>1, FirstGroup DEF Shape, Group
<1>12. c \notin LogCases(log.lines)
  BY <1>2, <1>3, <1>4, <1>8 DEF Logged
<1>13. Continues(log, signature)
  BY <1>2, <1>3 DEF OneSignature
<1>14. /\ LogOK(log') /\ Continues(log', signature)
       /\ LogCases(log'.lines) \subseteq LogCases(log.lines) \cup {c}
       /\ Recorded(log'.lines) = Recorded(log.lines) \cup (IF r.unmeasured THEN {} ELSE {r})
  <2>1. CASE r.unmeasured
    BY <1>5, <1>7, <1>13, <2>1
  <2>2. CASE ~r.unmeasured
    <3>1. log' = Appended(log, r)
      BY <1>7, <2>2
    <3>2. /\ LogOK(Appended(log, r)) /\ Continues(Appended(log, r), signature)
          /\ LogCases(Appended(log, r).lines) = LogCases(log.lines) \cup {c}
      BY <1>5, <1>13, <2>2, AppendedFacts
    <3>3. Recorded(Appended(log, r).lines) = Recorded(log.lines) \cup {r}
      BY <1>5, <1>12, <1>13, <2>2, AddedLine
    <3>4. QED
      BY <2>2, <3>1, <3>2, <3>3
  <2>3. QED
    BY <1>6, <2>1, <2>2
<1>15. /\ Limit \in Nat /\ Limit >= 1 /\ Concurrency \in Nat /\ Concurrency >= 1
       /\ Cardinality(InFlight) \in Nat /\ Cardinality(InFlight) <= Concurrency
  BY <1>3, InFlightFacts DEF Shape
<1>16. OutageSeen' /\ streak' \in Nat /\ streak' <= Len(results')
  <2>1. Len(results') = Len(results) + 1 /\ Len(results) \in Nat /\ streak <= Len(results)
    BY <1>3, <1>5, <1>7, AppendFacts DEF Shape
  <2>2. Windows(results, Limit + Concurrency - 1) /\ Limit + Concurrency - 1 \in Nat
    BY <1>3, <1>15 DEF OutageSeen
  <2>3. CASE outage # None
    <3>1. TrailAtMost(results, Limit + Concurrency - 1 - Cardinality(InFlight))
      BY <1>3, <2>3 DEF OutageSeen
    <3>2. /\ Limit + Concurrency - 1 - Cardinality(InFlight) \in Nat
          /\ (Limit + Concurrency - 1 - Cardinality(InFlight)) + 1
               = Limit + Concurrency - 1 - Cardinality(InFlight')
          /\ Limit + Concurrency - 1 - Cardinality(InFlight') \in Int
          /\ Limit + Concurrency - 1 - Cardinality(InFlight') <= Limit + Concurrency - 1
      BY <1>4, <1>15
    <3>3. TrailAtMost(results', Limit + Concurrency - 1 - Cardinality(InFlight'))
      <4>1. TrailAtMost(Append(results, r), (Limit + Concurrency - 1 - Cardinality(InFlight)) + 1)
        BY <1>5, <3>1, <3>2, TrailOfAppend
      <4>2. QED
        BY <1>7, <3>2, <4>1
    <3>4. TrailAtMost(results', Limit + Concurrency - 1)
      BY <1>9, <2>2, <3>2, <3>3, TrailGrows
    <3>5. Windows(results', Limit + Concurrency - 1)
      BY <1>5, <1>7, <2>2, <3>4, WindowsOfAppend
    <3>6. outage' # None /\ streak' = streak
      BY <1>7, <2>3
    <3>7. QED
      BY <1>2, <1>5, <2>1, <3>3, <3>5, <3>6 DEF OutageSeen
  <2>4. CASE outage = None
    <3>1. TrailAtMost(results, streak) /\ TrailAtMost(results, Limit - 1)
      BY <1>2, <1>3, <2>4 DEF OutageSeen
    <3>2. /\ Streak(streak, r) \in Nat /\ Streak(streak, r) <= streak + 1
          /\ TrailAtMost(Append(results, r), Streak(streak, r))
          /\ TrailAtMost(Append(results, r), Limit)
          /\ Streak(streak, r) < Limit => TrailAtMost(Append(results, r), Limit - 1)
      BY <1>5, <3>1, GuardFacts
    <3>3. /\ streak' = Streak(streak, r)
          /\ outage' = None => streak' < Limit
      BY <1>7, <2>4
    <3>4. /\ Limit <= Limit + Concurrency - 1
          /\ Limit <= Limit + Concurrency - 1 - Cardinality(InFlight')
          /\ Limit + Concurrency - 1 - Cardinality(InFlight') \in Int
      BY <1>4, <1>15
    <3>5. /\ TrailAtMost(results', Limit + Concurrency - 1)
          /\ TrailAtMost(results', Limit + Concurrency - 1 - Cardinality(InFlight'))
      <4>1. TrailAtMost(results', Limit)
        BY <1>7, <3>2
      <4> DEFINE w == Limit + Concurrency - 1
                 v == Limit + Concurrency - 1 - Cardinality(InFlight')
      <4>2. Limit \in Int /\ w \in Int /\ v \in Int /\ Limit <= w /\ Limit <= v
        BY <1>15, <2>2, <3>4
      <4> HIDE DEF w, v
      <4>3. TrailAtMost(results', w) /\ TrailAtMost(results', v)
        BY <1>9, <4>1, <4>2, TrailGrows
      <4>4. QED
        BY <4>3 DEF w, v
    <3>6. Windows(results', Limit + Concurrency - 1)
      BY <1>5, <1>7, <2>2, <3>5, WindowsOfAppend
    <3>7. streak' \in Nat /\ streak' <= Len(results')
      BY <1>5, <2>1, <3>2, <3>3
    <3>8. QED
      BY <1>2, <1>7, <3>2, <3>3, <3>5, <3>6, <3>7 DEF OutageSeen
  <2>5. QED
    BY <2>3, <2>4
<1>17. outage' \in {None, "retryable", "refused"}
  BY <1>3, <1>7 DEF Shape
<1>18. Shape'
  BY <1>2, <1>3, <1>4, <1>9, <1>14, <1>16, <1>17 DEF Shape
<1>19. Places'
  BY <1>2, <1>3 DEF Places
<1>20. OneSignature'
  <2>1. \A i \in DOMAIN results' : results'[i].by = signature
    <3>1. \A i \in DOMAIN results : results[i].by = signature
      BY <1>2, <1>3 DEF OneSignature
    <3>2. QED
      BY <1>5, <1>7, <3>1, AppendFacts
  <2>2. QED
    BY <1>2, <1>3, <1>14, <2>1 DEF OneSignature
<1>21. Covered'
  <2>1. Reported' \cup CasesIn(todo) = Cases /\ Reported' \cap CasesIn(Tail(todo)) = {}
    BY <1>8, <1>9, <1>11
  <2>2. Group \ Reported' = ToSet(pending) \cup Flying'
    BY <1>4, <1>8, <1>9
  <2>3. (ToSet(pending) \cup Flying') \cap CasesOf(done) = {} /\ ToSet(pending) \cap Flying' = {}
    BY <1>4, <1>8
  <2>4. \A k \in Kept' : k.case \in Reported'
    BY <1>4, <1>9
  <2>5. QED
    BY <1>2, <1>9, <1>10, <2>1, <2>2, <2>3, <2>4 DEF Covered
<1>22. Logged'
  <2>1. LogCases(log.lines) \subseteq CasesOf(done) \cup Reported
    BY <1>2, <1>3 DEF Logged
  <2>2. QED
    BY <1>2, <1>9, <1>14, <2>1 DEF Logged
<1>23. PaidOrLost'
  <2>1. paid \ (lost \cup Results(Finished)) \subseteq Recorded(log.lines) /\ \A p \in paid : ~p.unmeasured
    BY <1>2, <1>3 DEF PaidOrLost, PaidResultsSurvive, Shape
  <2>2. Results(Finished) \subseteq Results(Finished') \cup {r}
    BY <1>4 DEF Results, r
  <2>3. paid \ (lost \cup Results(Finished')) \subseteq Recorded(log'.lines)
    BY <1>14, <2>1, <2>2
  <2>4. QED
    BY <1>2, <2>3 DEF PaidOrLost, PaidResultsSurvive
<1>24. Reports'
  BY <1>2, <1>3 DEF Reports, Places, NoExit, OK, EvalFailed
<1>25. QED
  BY <1>16, <1>18, <1>19, <1>20, <1>21, <1>22, <1>23, <1>24 DEF BatchInv

\* RecordUnusable and RecordAborted alike: one more of the group's cases has a
\* result that is not unmeasured, and a line of its own or the one it had.
LEMMA StandInKeeps ==
  ASSUME BatchInv, pc \in {"unusable", "aborted"}, pending # <<>>,
         NEW r \in AllResults, ~r.unmeasured, r.by = signature, r.case = Head(pending),
         pending' = Tail(pending), results' = Append(results, r),
         LogOK(log'), Continues(log', signature),
         LogCases(log'.lines) \subseteq LogCases(log.lines) \cup {r.case},
         \A p \in paid : p \in Recorded(log.lines) /\ p \notin Recorded(log'.lines) => p \in lost,
         streak' \in {streak, 0}, outage' = outage,
         UNCHANGED <<pc, signature, done, todo, active, exit, processes, paid, lost>>
  PROVE  BatchInv'
<1> DEFINE c == r.case
<1>1. /\ pc' = pc /\ signature' = signature /\ done' = done /\ todo' = todo
      /\ active' = active /\ exit' = exit /\ processes' = processes /\ paid' = paid /\ lost' = lost
  OBVIOUS
<1>2. Shape /\ Places /\ OneSignature /\ Covered /\ Logged /\ PaidOrLost /\ OutageSeen /\ Reports
  BY DEF BatchInv
<1>3. /\ c \in Cases /\ c \in ToSet(pending)
      /\ pending' \in Seq(Cases) /\ IsInjective(pending')
      /\ ToSet(pending') = ToSet(pending) \ {c}
  BY <1>2, FirstCase DEF Shape
<1> HIDE DEF c
<1>4. /\ active = {} /\ outage = None /\ exit = NoExit /\ todo # <<>>
  BY <1>2 DEF Places
<1>5. /\ FuturesOK' /\ Flying = {} /\ Flying' = {} /\ Finished = {} /\ Finished' = {} /\ InFlight' = InFlight
  BY <1>1, <1>4, NoFuturesFacts, NoFuturesNext DEF NoFutures
<1>6. /\ Group \ Reported = ToSet(pending)
      /\ OncePerCase(results) /\ Reported \cup CasesIn(todo) = Cases
      /\ Reported \cap CasesIn(Tail(todo)) = {}
  BY <1>2, <1>5 DEF Covered
<1>7. /\ CasesIn(todo) = Group \cup CasesIn(Tail(todo)) /\ Group \cap CasesIn(Tail(todo)) = {}
  BY <1>2, <1>4, FirstGroup DEF Shape, Group
<1>8. results \in Seq(AllResults) /\ streak \in Nat /\ streak <= Len(results)
  BY <1>2 DEF Shape
<1>9. /\ results' \in Seq(AllResults) /\ Reported' = Reported \cup {c} /\ OncePerCase(results')
  <2>1. /\ Append(results, r) \in Seq(AllResults)
        /\ CasesAmong(Append(results, r)) = CasesAmong(results) \cup {c}
        /\ OncePerCase(results) /\ c \notin CasesAmong(results) => OncePerCase(Append(results, r))
    BY <1>8, AppendedResults DEF c
  <2>2. c \notin CasesAmong(results)
    BY <1>3, <1>6 DEF Reported
  <2>3. QED
    BY <1>6, <2>1, <2>2 DEF Reported
<1>10. Group' = Group
  BY <1>1 DEF Group
<1>11. Len(results') = Len(results) + 1 /\ Len(results) \in Nat
  BY <1>8, AppendFacts
<1>12. streak' \in Nat /\ streak' <= Len(results')
  BY <1>8, <1>11
<1>13. Shape'
  BY <1>1, <1>2, <1>3, <1>4, <1>5, <1>9, <1>12 DEF Shape
<1>14. Places'
  BY <1>1, <1>2, <1>4 DEF Places
<1>15. OneSignature'
  <2>1. \A i \in DOMAIN results' : results'[i].by = signature
    <3>1. \A i \in DOMAIN results : results[i].by = signature
      BY <1>2 DEF OneSignature
    <3>2. QED
      BY <1>8, <3>1, AppendFacts
  <2>2. QED
    BY <1>1, <1>2, <2>1 DEF OneSignature
<1>16. Covered'
  <2>1. Reported' \cup CasesIn(todo) = Cases /\ Reported' \cap CasesIn(Tail(todo)) = {}
    BY <1>3, <1>6, <1>7, <1>9
  <2>2. Group \ Reported' = ToSet(pending')
    BY <1>3, <1>6, <1>9
  <2>3. QED
    BY <1>1, <1>5, <1>9, <1>10, <2>1, <2>2 DEF Covered
<1>17. Logged'
  <2>1. CASE pc = "unusable"
    <3>1. LogCases(log.lines) \subseteq CasesOf(done) \cup Reported
      BY <1>2, <2>1 DEF Logged
    <3>2. LogCases(log'.lines) \subseteq CasesOf(done) \cup Reported'
      BY <1>9, <3>1 DEF c
    <3>3. QED
      BY <1>1, <2>1, <3>2 DEF Logged
  <2>2. CASE pc = "aborted"
    <3>1. LogCases(log.lines) \subseteq CasesOf(done) \cup Reported \cup ToSet(pending)
      BY <1>2, <2>2 DEF Logged
    <3>2. LogCases(log'.lines) \subseteq CasesOf(done) \cup Reported' \cup ToSet(pending')
      BY <1>3, <1>9, <3>1 DEF c
    <3>3. QED
      BY <1>1, <2>2, <3>2 DEF Logged
  <2>3. QED
    BY <2>1, <2>2
<1>18. PaidOrLost'
  <2>1. paid \ lost \subseteq Recorded(log.lines)
    BY <1>2, <1>5 DEF PaidOrLost, PaidResultsSurvive, Results
  <2>2. paid \ lost \subseteq Recorded(log'.lines)
    BY <2>1
  <2>3. PaidResultsSurvive'
    BY <1>1, <2>2 DEF PaidResultsSurvive
  <2>4. QED
    BY <1>1, <1>2, <1>3, <2>3 DEF PaidOrLost
<1>19. OutageSeen'
  <2>1. Limit - 1 \in Nat /\ Limit + Concurrency - 1 \in Nat
    BY BatchAssumption
  <2>2. \A n \in Nat : TrailAtMost(results', n)
    BY <1>8, TrailOfAppend
  <2>3. Windows(results', Limit + Concurrency - 1)
    <3>1. Windows(results, Limit + Concurrency - 1)
      BY <1>2 DEF OutageSeen
    <3>2. QED
      BY <1>8, <2>1, <2>2, <3>1, WindowsOfAppend
  <2>4. QED
    BY <1>1, <1>4, <1>12, <2>1, <2>2, <2>3 DEF OutageSeen
<1>20. Reports'
  BY <1>1, <1>4 DEF Reports, NoExit, OK, EvalFailed
<1>21. QED
  BY <1>13, <1>14, <1>15, <1>16, <1>17, <1>18, <1>19, <1>20 DEF BatchInv

LEMMA RecordUnusableKeeps ==
  ASSUME BatchInv, RecordUnusable
  PROVE  BatchInv'
<1> DEFINE c == Head(pending)
<1>1. /\ pc = "unusable" /\ pending # <<>> /\ pending' = Tail(pending)
      /\ UNCHANGED <<pc, signature, done, todo, active, exit, processes, paid, lost>>
  BY DEF RecordUnusable
<1>2. Shape /\ Places /\ OneSignature /\ Covered /\ Logged
  BY DEF BatchInv
<1>3. c \in Cases /\ c \in ToSet(pending) /\ outage = None /\ active = {}
  BY <1>1, <1>2, FirstCase DEF Shape, Places
<1>4. LogOK(log) /\ Continues(log, signature) /\ signature \in Signatures
  BY <1>1, <1>2 DEF Shape, OneSignature
<1>5. CASE c \in CasesOf(done)
  <2>1. results' = Append(results, ResultFor(done, c)) /\ UNCHANGED <<log, streak, outage>>
    BY <1>5 DEF RecordUnusable
  <2>2. ResultFor(done, c) \in done /\ ResultFor(done, c).case = c
    BY <1>5, ResultForFacts
  <2>3. ResultFor(done, c) \in AllResults /\ ResultFor(done, c).by = signature /\ ~ResultFor(done, c).unmeasured
    BY <1>1, <1>2, <2>2 DEF Shape, OneSignature
  <2>4. QED
    BY <1>1, <1>4, <2>1, <2>2, <2>3, StandInKeeps
<1>6. CASE c \notin CasesOf(done)
  <2> DEFINE r == Unscoreable(c)
  <2>1. Record(r)
    BY <1>6 DEF RecordUnusable
  <2>2. r \in AllResults /\ r.case = c /\ r.by = signature /\ ~r.unmeasured
    BY <1>3, <1>4, UnscoreableFacts
  <2> HIDE DEF r
  <2>3. results' = Append(results, r) /\ log' = Appended(log, r) /\ streak' = 0 /\ outage' = outage
    <3>1. Limit >= 1 /\ Limit \in Nat
      BY BatchAssumption
    <3>2. QED
      BY <1>3, <2>1, <2>2, <3>1 DEF Record, Streak
  <2>4. c \notin LogCases(log.lines)
    <3>1. LogCases(log.lines) \subseteq CasesOf(done) \cup Reported
      BY <1>1, <1>2 DEF Logged
    <3>2. c \notin Reported
      BY <1>1, <1>2, <1>3 DEF Covered
    <3>3. QED
      BY <1>6, <3>1, <3>2
  <2>5. /\ LogOK(log') /\ Continues(log', signature)
        /\ LogCases(log'.lines) = LogCases(log.lines) \cup {r.case}
    BY <1>4, <2>2, <2>3, AppendedFacts
  <2>6. Recorded(log'.lines) = Recorded(log.lines) \cup {r}
    BY <1>4, <2>2, <2>3, <2>4, AddedLine
  <2>7. QED
    BY <1>1, <2>2, <2>3, <2>5, <2>6, StandInKeeps
<1>7. QED
  BY <1>5, <1>6

LEMMA RecordAbortedKeeps ==
  ASSUME BatchInv, RecordAborted
  PROVE  BatchInv'
<1> DEFINE c == Head(pending)
           r == Unscoreable(c)
<1>1. /\ pc = "aborted" /\ pending # <<>> /\ pending' = Tail(pending)
      /\ results' = Append(results, r) /\ log' = Appended(log, r)
      /\ streak' = streak /\ outage' = outage
      /\ UNCHANGED <<pc, signature, done, todo, active, exit, processes, paid, lost>>
  BY DEF RecordAborted
<1>2. Shape /\ OneSignature /\ PaidOrLost
  BY DEF BatchInv
<1>3. c \in Cases /\ c \in ToSet(pending)
  BY <1>1, <1>2, FirstCase DEF Shape
<1>4. LogOK(log) /\ Continues(log, signature) /\ signature \in Signatures
  BY <1>1, <1>2 DEF Shape, OneSignature
<1>5. r \in AllResults /\ r.case = c /\ r.by = signature /\ ~r.unmeasured
  BY <1>3, <1>4, UnscoreableFacts
<1> HIDE DEF r
<1>6. /\ LogOK(log') /\ Continues(log', signature)
      /\ LogCases(log'.lines) = LogCases(log.lines) \cup {r.case}
      /\ Recorded(log'.lines) = {q \in Recorded(log.lines) : q.case # r.case} \cup {r}
  BY <1>1, <1>4, <1>5, AppendedFacts
<1>7. ASSUME NEW p \in paid, p \in Recorded(log.lines), p \notin Recorded(log'.lines)
      PROVE  p \in lost
  <2>1. p.case = c
    BY <1>5, <1>6, <1>7
  <2>2. QED
    BY <1>1, <1>2, <1>3, <2>1 DEF PaidOrLost
<1>8. QED
  BY <1>1, <1>5, <1>6, <1>7, StandInKeeps

LEMMA DrainKeeps ==
  ASSUME BatchInv, Drain
  PROVE  BatchInv'
<1>1. PICK a \in Finished \cup Kept : log' = Drained(log, a.result) /\ active' = active \ {a}
  BY DEF Drain
<1> DEFINE r == a.result
           c == a.case
<1>2. /\ pc = "draining"
      /\ pc' = pc /\ signature' = signature /\ done' = done /\ todo' = todo
      /\ pending' = pending /\ results' = results /\ streak' = streak /\ outage' = outage
      /\ exit' = exit /\ processes' = processes /\ paid' = paid /\ lost' = lost
  BY DEF Drain
<1>3. Shape /\ Places /\ OneSignature /\ Covered /\ Logged /\ PaidOrLost /\ OutageSeen /\ Reports
  BY DEF BatchInv
<1>4. /\ FuturesOK' /\ Flying' = {x.case : x \in InFlight \ {a}}
      /\ Finished' = Finished \ {a}
      /\ Cardinality(InFlight') <= Cardinality(InFlight) /\ Cardinality(InFlight') \in Nat
  BY <1>1, <1>2, <1>3, FewerFutures DEF Shape
<1>5. /\ a \in active /\ r \in AllResults /\ r.case = c /\ r.by = signature
      /\ signature \in Signatures /\ LogOK(log) /\ Continues(log, signature)
      /\ \A x, y \in active : x.case = y.case => x = y
  BY <1>1, <1>2, <1>3 DEF Shape, FuturesOK, Finished, Kept, OneSignature
<1>6. r.unmeasured \in BOOLEAN
  BY <1>5, ResultFacts
<1>7. Flying' \subseteq Flying /\ c \notin Flying'
  <2>1. InFlight \subseteq active
    BY DEF InFlight
  <2>2. QED
    BY <1>4, <1>5, <2>1 DEF Flying
<1>8. Flying \cap LogCases(log.lines) = {} /\ Flying \subseteq Group \ Reported
      /\ LogCases(log.lines) \subseteq CasesOf(done) \cup Reported \cup Group
  BY <1>2, <1>3 DEF Logged, Covered
<1>9. a \in Finished => c \in Flying
  BY <1>5 DEF Finished, Kept, InFlight, Flying
<1>10. CasesOf(Recorded(log.lines)) = LogCases(log.lines)
  BY <1>5, RecordedFacts DEF LogOK
<1>11. log' = IF r.unmeasured \/ c \in LogCases(log.lines) THEN log ELSE Appended(log, r)
  BY <1>1, <1>5, <1>10 DEF Drained
<1> HIDE DEF r, c
<1>12. /\ LogOK(log') /\ Continues(log', signature)
       /\ LogCases(log'.lines) \subseteq LogCases(log.lines) \cup {c}
       /\ Recorded(log.lines) \subseteq Recorded(log'.lines)
       /\ a \in Finished /\ ~r.unmeasured => r \in Recorded(log'.lines)
  <2>1. CASE r.unmeasured \/ c \in LogCases(log.lines)
    <3>1. log' = log
      BY <1>11, <2>1
    <3>2. QED
      BY <1>5, <1>8, <1>9, <2>1, <3>1
  <2>2. CASE ~r.unmeasured /\ c \notin LogCases(log.lines)
    <3>1. log' = Appended(log, r)
      BY <1>11, <2>2
    <3>2. /\ LogOK(Appended(log, r)) /\ Continues(Appended(log, r), signature)
          /\ LogCases(Appended(log, r).lines) = LogCases(log.lines) \cup {c}
      BY <1>5, <2>2, AppendedFacts
    <3>3. Recorded(Appended(log, r).lines) = Recorded(log.lines) \cup {r}
      BY <1>5, <2>2, AddedLine
    <3>4. QED
      BY <3>1, <3>2, <3>3
  <2>3. QED
    BY <1>6, <2>1, <2>2
<1>13. Reported' = Reported /\ Group' = Group
  BY <1>2 DEF Reported, Group
<1>14. Shape'
  BY <1>2, <1>3, <1>4, <1>12 DEF Shape
<1>15. Places'
  BY <1>2, <1>3 DEF Places
<1>16. OneSignature'
  BY <1>2, <1>3, <1>12 DEF OneSignature
<1>17. Covered'
  <2>1. Kept' \subseteq Kept
    BY <1>1 DEF Kept
  <2>2. QED
    BY <1>2, <1>3, <1>7, <1>13, <2>1 DEF Covered
<1>18. Logged'
  <2>1. c \in Group \cup Reported
    <3>1. CASE a \in Finished
      BY <1>8, <1>9, <3>1
    <3>2. CASE a \in Kept
      BY <1>2, <1>3, <3>2 DEF Covered, c
    <3>3. QED
      BY <1>1, <3>1, <3>2
  <2>2. LogCases(log'.lines) \subseteq CasesOf(done) \cup Reported \cup Group
    BY <1>8, <1>12, <2>1
  <2>3. Flying' \cap LogCases(log'.lines) = {}
    BY <1>7, <1>8, <1>12
  <2>4. QED
    BY <1>2, <1>13, <2>2, <2>3 DEF Logged
<1>19. PaidOrLost'
  <2>1. paid \ (lost \cup Results(Finished)) \subseteq Recorded(log.lines) /\ \A p \in paid : ~p.unmeasured
    BY <1>2, <1>3 DEF PaidOrLost, PaidResultsSurvive, Shape
  <2>2. \A p \in Results(Finished) : p \in Results(Finished') \/ (a \in Finished /\ p = r)
    BY <1>4 DEF Results, r
  <2>3. paid \ (lost \cup Results(Finished')) \subseteq Recorded(log'.lines)
    BY <1>12, <2>1, <2>2
  <2>4. QED
    BY <1>2, <2>3 DEF PaidOrLost, PaidResultsSurvive
<1>20. OutageSeen'
  <2>1. ASSUME outage # None
        PROVE  TrailAtMost(results, Limit + Concurrency - 1 - Cardinality(InFlight'))
    <3>1. TrailAtMost(results, Limit + Concurrency - 1 - Cardinality(InFlight))
      BY <1>3, <2>1 DEF OutageSeen
    <3>2. Cardinality(InFlight) \in Nat /\ Concurrency \in Nat /\ Limit \in Nat
      BY <1>3, InFlightFacts DEF Shape
    <3>3. /\ Limit + Concurrency - 1 - Cardinality(InFlight) \in Int
          /\ Limit + Concurrency - 1 - Cardinality(InFlight') \in Int
          /\ Limit + Concurrency - 1 - Cardinality(InFlight) <= Limit + Concurrency - 1 - Cardinality(InFlight')
      BY <1>4, <3>2
    <3>4. QED
      BY <1>3, <3>1, <3>3, TrailGrows DEF Shape
  <2>2. QED
    BY <1>2, <1>3, <2>1 DEF OutageSeen
<1>21. Reports'
  BY <1>2, <1>3 DEF Reports, Places, NoExit, OK, EvalFailed
<1>22. QED
  BY <1>14, <1>15, <1>16, <1>17, <1>18, <1>19, <1>20, <1>21 DEF BatchInv

\* The end of a process, other than in a report.
LEMMA EndKeeps ==
  ASSUME BatchInv, pc' = "off", Forget, results' = <<>>, exit' \notin {OK, EvalFailed},
         LogOK(log'), signature' \in Signatures, processes' \in 0 .. MaxProcesses,
         paid' = paid, paid \ lost' \subseteq Recorded(log'.lines)
  PROVE  BatchInv'
<1>1. /\ done' = {} /\ todo' = <<>> /\ pending' = <<>> /\ active' = {} /\ streak' = 0 /\ outage' = None
  BY DEF Forget
<1>2. FuturesOK'
  BY <1>1, NoFuturesNext DEF NoFutures
<1>3. todo' \in Seq(Seq(Cases)) /\ AllDistinct(todo') /\ pending' \in Seq(Cases) /\ IsInjective(pending')
      /\ results' \in Seq(AllResults) /\ streak' <= Len(results')
  BY <1>1 DEF AllDistinct, IsInjective
<1>4. Shape'
  BY <1>1, <1>2, <1>3 DEF BatchInv, Shape
<1>5. Places' /\ OneSignature' /\ Covered' /\ Logged' /\ Reports'
  BY <1>1 DEF Places, OneSignature, Covered, Logged, Reports
<1>6. PaidOrLost'
  BY DEF PaidOrLost, PaidResultsSurvive
<1>7. OutageSeen'
  BY <1>1, EmptyTrail DEF OutageSeen
<1>8. QED
  BY <1>4, <1>5, <1>6, <1>7 DEF BatchInv

\* What an end takes along that was measured and has no line.
LEMMA NothingInHand ==
  ASSUME BatchInv, active = {}
  PROVE  paid \ lost \subseteq Recorded(log.lines)
<1>1. Finished = {}
  BY NoFuturesFacts DEF NoFutures
<1>2. QED
  BY <1>1 DEF BatchInv, PaidOrLost, PaidResultsSurvive, Results

LEMMA StopForOutageKeeps ==
  ASSUME BatchInv, StopForOutage
  PROVE  BatchInv'
<1>1. /\ active = {} /\ pc' = "off" /\ results' = <<>> /\ Forget
      /\ exit' = IF outage = "retryable" THEN Temporary ELSE UserError
      /\ signature' = signature /\ log' = log /\ processes' = processes /\ paid' = paid /\ lost' = lost
  BY DEF StopForOutage
<1>2. exit' \notin {OK, EvalFailed}
  BY <1>1 DEF Temporary, UserError, OK, EvalFailed
<1>3. paid \ lost' \subseteq Recorded(log'.lines)
  BY <1>1, NothingInHand
<1>4. LogOK(log') /\ signature' \in Signatures /\ processes' \in 0 .. MaxProcesses
  BY <1>1 DEF BatchInv, Shape
<1>5. QED
  BY <1>1, <1>2, <1>3, <1>4, EndKeeps

LEMMA LeaveInterruptedKeeps ==
  ASSUME BatchInv, LeaveInterrupted
  PROVE  BatchInv'
<1>1. /\ active = {} /\ pc' = "off" /\ results' = <<>> /\ Forget /\ exit' = Interrupted
      /\ signature' = signature /\ log' = log /\ processes' = processes /\ paid' = paid /\ lost' = lost
  BY DEF LeaveInterrupted
<1>2. exit' \notin {OK, EvalFailed}
  BY <1>1 DEF Interrupted, OK, EvalFailed
<1>3. paid \ lost' \subseteq Recorded(log'.lines)
  BY <1>1, NothingInHand
<1>4. LogOK(log') /\ signature' \in Signatures /\ processes' \in 0 .. MaxProcesses
  BY <1>1 DEF BatchInv, Shape
<1>5. QED
  BY <1>1, <1>2, <1>3, <1>4, EndKeeps

\* A kill, and a Ctrl-C that ends the process, take what was not written.
LEMMA TakenAlong ==
  ASSUME BatchInv, lost' = lost \cup (Measured(Finished) \ Recorded(log.lines))
  PROVE  paid \ lost' \subseteq Recorded(log.lines)
<1>1. \A p \in paid : ~p.unmeasured
  BY DEF BatchInv, Shape
<1>2. paid \ (lost \cup Results(Finished)) \subseteq Recorded(log.lines)
  BY DEF BatchInv, PaidOrLost, PaidResultsSurvive
<1>3. QED
  BY <1>1, <1>2 DEF Measured

LEMMA KillKeeps ==
  ASSUME BatchInv, Kill
  PROVE  BatchInv'
<1>1. /\ pc' = "off" /\ results' = <<>> /\ Forget /\ exit' = Killed
      /\ lost' = lost \cup (Measured(Finished) \ Recorded(log.lines))
      /\ log' = log \/ log' \in TornAppends(log)
      /\ signature' = signature /\ processes' = processes /\ paid' = paid
  BY DEF Kill
<1>2. exit' \notin {OK, EvalFailed}
  BY <1>1 DEF Killed, OK, EvalFailed
<1>3. LogOK(log) /\ signature' \in Signatures /\ processes' \in 0 .. MaxProcesses /\ signature \in Signatures
  BY <1>1 DEF BatchInv, Shape
<1>4. LogOK(log') /\ Recorded(log'.lines) = Recorded(log.lines)
  BY <1>1, <1>3, TornFacts
<1>5. paid \ lost' \subseteq Recorded(log'.lines)
  BY <1>1, <1>4, TakenAlong
<1>6. QED
  BY <1>1, <1>2, <1>3, <1>4, <1>5, EndKeeps

LEMMA InterruptKeeps ==
  ASSUME BatchInv, Interrupt
  PROVE  BatchInv'
<1>1. signature' = signature /\ log' = log /\ processes' = processes /\ paid' = paid
  BY DEF Interrupt
<1>2. CASE pc = "group" /\ Concurrency > 1
  <2>1. /\ pc' = "draining"
        /\ done' = done /\ todo' = todo /\ pending' = pending /\ active' = active
        /\ results' = results /\ streak' = streak /\ outage' = outage
        /\ exit' = exit /\ lost' = lost
    BY <1>2 DEF Interrupt
  <2>2. Shape /\ Places /\ OneSignature /\ Covered /\ Logged /\ PaidOrLost /\ OutageSeen /\ Reports
    BY DEF BatchInv
  <2>3. Kept' = Kept /\ Finished' = Finished
    BY <2>1 DEF Kept, Finished
  <2>4. Flying' = Flying /\ InFlight' = InFlight /\ Reported' = Reported /\ Group' = Group
    BY <2>1, <2>3 DEF Flying, InFlight, Reported, Group
  <2>5. Shape'
    BY <1>1, <2>1, <2>2 DEF Shape, FuturesOK
  <2>6. Places' /\ OneSignature' /\ Reports'
    BY <1>1, <1>2, <2>1, <2>2 DEF Places, OneSignature, Reports, NoExit, OK, EvalFailed
  <2>7. Covered' /\ Logged'
    BY <1>1, <1>2, <2>1, <2>2, <2>3, <2>4 DEF Covered, Logged
  <2>8. PaidOrLost'
    BY <1>1, <1>2, <2>1, <2>2, <2>3 DEF PaidOrLost, PaidResultsSurvive
  <2>9. OutageSeen'
    BY <1>1, <1>2, <2>1, <2>2, <2>4 DEF OutageSeen
  <2>10. QED
    BY <2>5, <2>6, <2>7, <2>8, <2>9 DEF BatchInv
<1>3. CASE ~(pc = "group" /\ Concurrency > 1)
  <2>1. /\ pc' = "off" /\ exit' = Interrupted /\ results' = <<>> /\ Forget
        /\ lost' = lost \cup (Measured(Finished) \ Recorded(log.lines))
    BY <1>3 DEF Interrupt
  <2>2. exit' \notin {OK, EvalFailed}
    BY <2>1 DEF Interrupted, OK, EvalFailed
  <2>3. LogOK(log') /\ signature' \in Signatures /\ processes' \in 0 .. MaxProcesses
    BY <1>1 DEF BatchInv, Shape
  <2>4. paid \ lost' \subseteq Recorded(log'.lines)
    BY <1>1, <2>1, TakenAlong
  <2>5. QED
    BY <1>1, <2>1, <2>2, <2>3, <2>4, EndKeeps
<1>4. QED
  BY <1>2, <1>3

LEMMA AbortKeeps ==
  ASSUME BatchInv, Abort
  PROVE  BatchInv'
<1>1. /\ pc \in {"group", "draining"} /\ Broken # {}
      /\ lost' = lost \cup {p \in paid : p.case \in ToSet(Uncollected)}
      /\ signature' = signature /\ log' = log /\ processes' = processes /\ paid' = paid
  BY DEF Abort
<1>2. Shape /\ Places /\ OneSignature /\ Covered /\ Logged /\ PaidOrLost /\ OutageSeen /\ Reports
  BY DEF BatchInv
<1>3. todo # <<>> /\ exit = NoExit
  BY <1>1, <1>2 DEF Places
<1>4. Head(todo) \in Seq(Cases) /\ IsInjective(Head(todo))
  BY <1>2, <1>3, FirstGroup DEF Shape
<1>5. /\ Uncollected \in Seq(Cases) /\ IsInjective(Uncollected)
      /\ ToSet(Uncollected) = Group \ Reported
  <2>1. Uncollected = Sifted(Head(todo), Cases \ Reported)
    BY DEF Uncollected, Reported, CasesAmong
  <2>2. Group \subseteq Cases
    BY <1>4, CasesOfSeq DEF Group
  <2>3. QED
    BY <1>4, <2>1, <2>2, SiftedCases DEF Group
<1>6. Flying \subseteq ToSet(Uncollected)
  BY <1>1, <1>2, <1>5 DEF Covered
<1>7. \A a \in Finished \cup Broken : a \in active /\ a.case \in Flying
  BY DEF Finished, Broken, Kept, InFlight, Flying
<1>8. paid \ lost' \subseteq Recorded(log'.lines)
  <2>1. paid \ (lost \cup Results(Finished)) \subseteq Recorded(log.lines)
    BY <1>1, <1>2 DEF PaidOrLost, PaidResultsSurvive
  <2>2. \A a \in Finished : a.result.case = a.case
    BY <1>2 DEF Shape, FuturesOK, Finished
  <2>3. \A p \in Results(Finished) : p.case \in ToSet(Uncollected)
    BY <1>6, <1>7, <2>2 DEF Results
  <2>4. QED
    BY <1>1, <2>1, <2>3
<1>9. CASE signature.mode = "public"
  <2>1. /\ pc' = "aborted" /\ pending' = Uncollected /\ active' = {} /\ outage' = None
        /\ done' = done /\ todo' = todo /\ results' = results /\ streak' = streak /\ exit' = exit
    BY <1>9 DEF Abort
  <2>2. /\ FuturesOK' /\ Kept' = {} /\ Finished' = {} /\ Flying' = {}
    BY <2>1, NoFuturesNext DEF NoFutures
  <2>3. Reported' = Reported /\ Group' = Group
    BY <2>1 DEF Reported, Group
  <2>4. pending' # <<>>
    <3>1. ToSet(Uncollected) # {}
      BY <1>1, <1>6, <1>7
    <3>2. QED
      BY <2>1, <3>1 DEF ToSet
  <2>5. Shape'
    BY <1>1, <1>2, <1>5, <2>1, <2>2 DEF Shape
  <2>6. Places' /\ OneSignature' /\ Reports'
    BY <1>1, <1>2, <1>3, <2>1 DEF Places, OneSignature, Reports, NoExit, OK, EvalFailed
  <2>7. Covered'
    <3>1. /\ OncePerCase(results) /\ Reported \cup CasesIn(todo) = Cases
          /\ Reported \cap CasesIn(Tail(todo)) = {}
      BY <1>1, <1>2 DEF Covered
    <3>2. QED
      BY <1>5, <2>1, <2>2, <2>3, <3>1 DEF Covered
  <2>8. Logged'
    <3>1. LogCases(log.lines) \subseteq CasesOf(done) \cup Reported \cup Group
      BY <1>1, <1>2 DEF Logged
    <3>2. QED
      BY <1>1, <1>5, <2>1, <2>3, <3>1 DEF Logged
  <2>9. PaidOrLost'
    BY <1>1, <1>8, <2>1 DEF PaidOrLost, PaidResultsSurvive
  <2>10. OutageSeen'
    BY <1>2, <2>1, <2>4 DEF OutageSeen
  <2>11. QED
    BY <2>5, <2>6, <2>7, <2>8, <2>9, <2>10 DEF BatchInv
<1>10. CASE signature.mode # "public"
  <2>1. pc' = "off" /\ exit' = ExitCode("connector") /\ results' = <<>> /\ Forget
    BY <1>10 DEF Abort
  <2>2. exit' \notin {OK, EvalFailed}
    BY <2>1 DEF ExitCode, IsTransient, UserError, Temporary, Defect, OK, EvalFailed
  <2>3. LogOK(log') /\ signature' \in Signatures /\ processes' \in 0 .. MaxProcesses
    BY <1>1, <1>2 DEF Shape
  <2>4. QED
    BY <1>1, <1>8, <2>1, <2>2, <2>3, EndKeeps
<1>11. QED
  BY <1>9, <1>10

LEMMA WriteReportKeeps ==
  ASSUME BatchInv, WriteReport
  PROVE  BatchInv'
<1>1. /\ pc = "between" /\ todo = <<>> /\ pc' = "off" /\ Forget
      /\ exit' = IF \A i \in DOMAIN results : results[i].passed /\ results[i].completed
                   THEN OK ELSE EvalFailed
      /\ signature' = signature /\ log' = log /\ results' = results
      /\ processes' = processes /\ paid' = paid /\ lost' = lost
  BY DEF WriteReport
<1>2. Shape /\ Places /\ Covered /\ OutageSeen
  BY DEF BatchInv
<1>3. /\ done' = {} /\ todo' = <<>> /\ pending' = <<>> /\ active' = {} /\ streak' = 0 /\ outage' = None
  BY <1>1 DEF Forget
<1>4. FuturesOK' /\ active = {}
  BY <1>1, <1>2, <1>3, NoFuturesNext DEF NoFutures, Places
<1>5. todo' \in Seq(Seq(Cases)) /\ AllDistinct(todo') /\ pending' \in Seq(Cases) /\ IsInjective(pending')
  BY <1>3 DEF AllDistinct, IsInjective
<1>6. Shape'
  <2>1. Len(results) \in Nat /\ 0 <= Len(results)
    BY <1>2 DEF Shape
  <2>2. QED
    BY <1>1, <1>2, <1>3, <1>4, <1>5, <2>1 DEF Shape
<1>7. Places' /\ OneSignature' /\ Covered' /\ Logged'
  BY <1>1, <1>3 DEF Places, OneSignature, Covered, Logged
<1>8. PaidOrLost'
  BY <1>1, <1>4, NothingInHand DEF PaidOrLost, PaidResultsSurvive
<1>9. OutageSeen'
  BY <1>1, <1>2, <1>3 DEF OutageSeen
<1>10. Reports'
  <2>1. OncePerCase(results) /\ Reported \cup CasesIn(todo) = Cases
    BY <1>1, <1>2 DEF Covered
  <2>2. CasesIn(todo) = {} /\ Reported' = Reported
    BY <1>1 DEF CasesIn, Reported
  <2>3. OK # EvalFailed
    BY DEF OK, EvalFailed
  <2>4. QED
    BY <1>1, <2>1, <2>2, <2>3 DEF Reports
<1>11. QED
  BY <1>6, <1>7, <1>8, <1>9, <1>10 DEF BatchInv

LEMMA RefuseKeeps ==
  ASSUME BatchInv, Refuse
  PROVE  BatchInv'
<1>1. /\ pc = "off" /\ processes < MaxProcesses /\ processes' = processes + 1
      /\ signature' \in Signatures /\ exit' = UserError /\ results' = <<>>
      /\ pc' = pc /\ log' = log /\ done' = done /\ todo' = todo /\ pending' = pending
      /\ active' = active /\ streak' = streak /\ outage' = outage /\ paid' = paid /\ lost' = lost
  BY DEF Refuse
<1>2. Forget
  BY <1>1 DEF BatchInv, Places, Forget
<1>3. exit' \notin {OK, EvalFailed}
  BY <1>1 DEF UserError, OK, EvalFailed
<1>4. LogOK(log')
  BY <1>1 DEF BatchInv, Shape
<1>5. processes' \in 0 .. MaxProcesses
  <2>1. processes \in 0 .. MaxProcesses /\ MaxProcesses \in Nat
    BY BatchAssumption DEF BatchInv, Shape
  <2>2. QED
    BY <1>1, <2>1
<1>6. active = {}
  BY <1>1 DEF BatchInv, Places
<1>7. paid \ lost' \subseteq Recorded(log'.lines)
  BY <1>1, <1>6, NothingInHand
<1>8. QED
  BY <1>1, <1>2, <1>3, <1>4, <1>5, <1>7, EndKeeps

\* No line, nothing read.
LEMMA EmptyLog ==
  /\ Readable(<<>>) = {} /\ Recorded(<<>>) = {} /\ LogCases(<<>>) = {}
  /\ LogOK(NoFile) /\ \A s : Continues(NoFile, s)
<1>1. Readable(<<>>) = {}
  BY DEF Readable
<1>2. Recorded(<<>>) = {} /\ LogCases(<<>>) = {}
  BY <1>1 DEF Recorded, LogCases
<1>3. LogOK(NoFile) /\ \A s : Continues(NoFile, s)
  BY <1>1 DEF LogOK, NoFile, Continues
<1>4. QED
  BY <1>1, <1>2, <1>3

LEMMA StartKeeps ==
  ASSUME BatchInv, Start
  PROVE  BatchInv'
<1>1. PICK resume \in BOOLEAN : (resume => Continues(log, signature')) /\ Begin(resume)
  BY DEF Start
<1>2. /\ pc = "off" /\ processes < MaxProcesses /\ processes' = processes + 1
      /\ signature' \in Signatures
      /\ pc' = "between" /\ todo' = Groups(signature'.mode) /\ results' = <<>> /\ exit' = NoExit
      /\ pending' = pending /\ active' = active /\ streak' = streak /\ outage' = outage
      /\ log' = IF resume THEN log ELSE NoFile
      /\ done' = IF resume THEN Recorded(log.lines) ELSE {}
      /\ paid' = IF resume THEN paid ELSE {}
      /\ lost' = IF resume THEN lost ELSE {}
  BY <1>1 DEF Start, Begin
<1>3. Shape /\ Places /\ PaidOrLost
  BY DEF BatchInv
<1>4. /\ active = {} /\ active' = {} /\ pending' = <<>> /\ streak' = 0 /\ outage' = None
  BY <1>2, <1>3 DEF Places
<1>5. FuturesOK' /\ Kept' = {} /\ Finished = {} /\ Flying' = {}
  BY <1>4, NoFuturesFacts, NoFuturesNext DEF NoFutures
<1>6. todo' \in Seq(Seq(Cases)) /\ AllDistinct(todo') /\ CasesIn(todo') = Cases
  BY <1>2, GroupsFacts
<1>7. /\ LogOK(log') /\ Continues(log', signature')
      /\ done' \subseteq AllResults /\ \A r \in done' : r.by = signature' /\ ~r.unmeasured
      /\ LogCases(log'.lines) \subseteq CasesOf(done')
  <2>1. LogOK(log)
    BY <1>3 DEF Shape
  <2>2. CASE resume
    <3>1. log' = log /\ done' = Recorded(log.lines) /\ Continues(log, signature')
      BY <1>1, <1>2, <2>2
    <3>2. /\ \A r \in done' : \E i \in Readable(log.lines) : r = log.lines[i].result
          /\ done' \subseteq AllResults /\ CasesOf(done') = LogCases(log.lines)
      BY <2>1, <3>1, RecordedFacts DEF LogOK
    <3>3. \A r \in done' : ~r.unmeasured /\ r.by = Signature(log.lines)
      BY <2>1, <3>2 DEF LogOK
    <3>4. ASSUME NEW r \in done' PROVE r.by = signature'
      <4>1. CASE log.there
        BY <3>1, <3>3, <4>1 DEF Continues
      <4>2. CASE ~log.there
        BY <2>1, <3>1, <4>2, EmptyLog DEF LogOK
      <4>3. QED
        BY <4>1, <4>2
    <3>5. QED
      BY <2>1, <3>1, <3>2, <3>3, <3>4
  <2>3. CASE ~resume
    <3>1. log' = NoFile /\ done' = {} /\ NoFile.lines = <<>>
      BY <1>2, <2>3 DEF NoFile
    <3>2. QED
      BY <3>1, EmptyLog
  <2>4. QED
    BY <2>2, <2>3
<1>8. processes' \in 0 .. MaxProcesses
  <2>1. processes \in 0 .. MaxProcesses /\ MaxProcesses \in Nat
    BY <1>3, BatchAssumption DEF Shape
  <2>2. QED
    BY <1>2, <2>1
<1>9. pending' \in Seq(Cases) /\ IsInjective(pending')
      /\ results' \in Seq(AllResults) /\ streak' <= Len(results')
  BY <1>2, <1>4 DEF IsInjective
<1>10. Shape'
  <2>1. paid' \subseteq AllResults /\ \A r \in paid' : ~r.unmeasured
    BY <1>2, <1>3 DEF Shape
  <2>2. QED
    BY <1>2, <1>4, <1>5, <1>6, <1>7, <1>8, <1>9, <2>1 DEF Shape
<1>11. Places'
  BY <1>2, <1>4 DEF Places
<1>12. Reported' = {} /\ OncePerCase(results')
  BY <1>2 DEF Reported, CasesAmong, OncePerCase
<1>13. OneSignature'
  BY <1>2, <1>7 DEF OneSignature
<1>14. Covered' /\ Logged'
  BY <1>2, <1>6, <1>7, <1>12 DEF Covered, Logged
<1>15. PaidOrLost'
  <2>1. paid' \ lost' \subseteq Recorded(log'.lines)
    <3>1. CASE resume
      BY <1>2, <1>3, <3>1 DEF PaidOrLost, PaidResultsSurvive
    <3>2. CASE ~resume
      BY <1>2, <3>2
    <3>3. QED
      BY <3>1, <3>2
  <2>2. QED
    BY <1>2, <2>1 DEF PaidOrLost, PaidResultsSurvive
<1>16. OutageSeen'
  BY <1>2, <1>4, EmptyTrail DEF OutageSeen
<1>17. Reports'
  BY <1>2 DEF Reports, NoExit, OK, EvalFailed
<1>18. QED
  BY <1>10, <1>11, <1>13, <1>14, <1>15, <1>16, <1>17 DEF BatchInv

LEMMA InitKeeps ==
  ASSUME Init
  PROVE  BatchInv
<1>1. /\ pc = "off" /\ signature \in Signatures /\ log = NoFile /\ done = {}
      /\ todo = <<>> /\ pending = <<>> /\ active = {} /\ results = <<>>
      /\ streak = 0 /\ outage = None /\ exit = NoExit /\ processes = 0
      /\ paid = {} /\ lost = {}
  BY DEF Init
<1>2. FuturesOK
  BY <1>1, NoFuturesFacts DEF NoFutures
<1>3. todo \in Seq(Seq(Cases)) /\ AllDistinct(todo) /\ pending \in Seq(Cases) /\ IsInjective(pending)
      /\ results \in Seq(AllResults) /\ streak <= Len(results)
  BY <1>1 DEF AllDistinct, IsInjective
<1>4. Shape
  <2>1. MaxProcesses \in Nat
    BY BatchAssumption
  <2>2. QED
    BY <1>1, <1>2, <1>3, <2>1, EmptyLog DEF Shape
<1>5. Places /\ OneSignature /\ Covered /\ Logged
  BY <1>1 DEF Places, OneSignature, Covered, Logged
<1>6. PaidOrLost /\ Reports
  BY <1>1 DEF PaidOrLost, PaidResultsSurvive, Reports, NoExit, OK, EvalFailed
<1>7. OutageSeen
  BY <1>1, EmptyTrail DEF OutageSeen
<1>8. QED
  BY <1>4, <1>5, <1>6, <1>7 DEF BatchInv

-----------------------------------------------------------------------------
(* The theorems.                                                           *)

LEMMA NextKeeps ==
  ASSUME BatchInv, [Next]_vars
  PROVE  BatchInv'
<1>1. CASE Start
  BY <1>1, StartKeeps
<1>2. CASE Refuse
  BY <1>2, RefuseKeeps
<1>3. CASE Work
  <2>1. \/ OpenGroup \/ Unusable \/ Admit \/ Finish \/ WorkerFails \/ Collect \/ Release
        \/ Abort \/ RecordUnusable \/ RecordAborted \/ NextGroup \/ StopForOutage
        \/ WriteReport \/ Drain \/ LeaveInterrupted
    BY <1>3 DEF Work
  <2>2. QED
    BY <2>1, OpenGroupKeeps, UnusableKeeps, AdmitKeeps, FinishKeeps, WorkerFailsKeeps,
       CollectKeeps, ReleaseKeeps, AbortKeeps, RecordUnusableKeeps, RecordAbortedKeeps,
       NextGroupKeeps, StopForOutageKeeps, WriteReportKeeps, DrainKeeps, LeaveInterruptedKeeps
<1>4. CASE Interrupt
  BY <1>4, InterruptKeeps
<1>5. CASE Kill
  BY <1>5, KillKeeps
<1>6. CASE UNCHANGED vars
  BY <1>6, StutterKeeps
<1>7. QED
  BY <1>1, <1>2, <1>3, <1>4, <1>5, <1>6 DEF Next

\* Every reachable state satisfies the inductive invariant.
THEOREM BatchInvHolds == Spec => []BatchInv
<1>1. Init => BatchInv
  BY InitKeeps
<1>2. BatchInv /\ [Next]_vars => BatchInv'
  BY NextKeeps
<1>3. QED
  BY <1>1, <1>2, PTL DEF Spec

\* Whatever is killed, interrupted, resumed or unusable, the checkpoint holds
\* lines of the kinds its reader knows, a partial one only at its end; no more
\* futures are in flight than there are workers; and the guard's count is over
\* results that were collected.
THEOREM TypesHold == Spec => []TypeOK
<1>1. BatchInv => TypeOK
  <2> SUFFICES ASSUME BatchInv PROVE TypeOK
    OBVIOUS
  <2>1. Shape
    BY DEF BatchInv
  <2>2. log.lines \in Seq(LogLines)
        /\ \A i \in DOMAIN log.lines : log.lines[i] = Partial => i = Len(log.lines)
    BY <2>1 DEF Shape, LogOK
  <2>3. \A l \in LogLines : l \in {Torn, Partial} \/ l.type \in {"signature", "result"}
    <3>1. ASSUME NEW l \in LogLines
          PROVE  l \in {Torn, Partial} \/ l.type \in {"signature", "result"}
      <4>1. \/ l = Torn \/ l = Partial
            \/ \E s : l = SignatureLine(s)
            \/ \E r \in AllResults : l = Line(r)
        BY DEF LogLines
      <4>2. QED
        BY <4>1, LineFacts
    <3>2. QED
      BY <3>1
  <2>4. ToSet(log.lines) \subseteq LogLines
    BY <2>2 DEF ToSet
  <2>5. streak \in 0 .. Len(results)
    <3>1. Len(results) \in Nat /\ streak \in Nat /\ streak <= Len(results)
      BY <2>1 DEF Shape
    <3>2. QED
      BY <3>1
  <2>6. /\ pc \in {"off", "between", "group", "unusable", "aborted", "draining"}
        /\ signature \in Signatures /\ Cardinality(active) <= Concurrency
        /\ outage \in {None, "retryable", "refused"} /\ processes \in 0 .. MaxProcesses
    BY <2>1 DEF Shape, FuturesOK
  <2>7. \A l \in ToSet(log.lines) :
          l \in {Torn, Partial} \/ l.type \in {"signature", "result"}
    BY <2>3, <2>4
  <2>8. QED
    BY <2>2, <2>5, <2>6, <2>7 DEF TypeOK
<1>2. QED
  BY <1>1, BatchInvHolds, PTL

\* A measured result is in the checkpoint or still with a worker, unless a kill
\* or a worker that failed took it, in whatever order these and resumes come.
THEOREM PaidResultsSurviveAlways == Spec => []PaidResultsSurvive
<1>1. BatchInv => PaidResultsSurvive
  BY DEF BatchInv, PaidOrLost
<1>2. QED
  BY <1>1, BatchInvHolds, PTL

\* What a batch reports was measured under its own signature, and no case with
\* a result in the checkpoint is with a worker.
THEOREM ResumesContinueTheirRun == Spec => []AResumeContinuesItsRun
<1>1. BatchInv => AResumeContinuesItsRun
  <2> SUFFICES ASSUME BatchInv PROVE AResumeContinuesItsRun
    OBVIOUS
  <2>1. Shape /\ Places /\ OneSignature /\ Covered /\ Logged
    BY DEF BatchInv
  <2>2. \A i \in DOMAIN results : pc # "off" => results[i].by = signature
    BY <2>1 DEF OneSignature
  <2> DEFINE Asked == {a.case : a \in {b \in active : b.state = "running"}}
  <2>3. CasesOf(Recorded(log.lines)) = LogCases(log.lines)
    <3>1. log.lines \in Seq(LogLines)
      BY <2>1 DEF Shape, LogOK
    <3>2. QED
      BY <3>1, RecordedFacts
  <2>4. Asked \subseteq Flying
    BY DEF Flying, InFlight, Kept
  <2>5. pc \in {"off", "between", "unusable", "aborted"} => Asked = {}
    BY <2>1 DEF Places
  <2>6. pc = "draining" => Flying \cap LogCases(log.lines) = {}
    BY <2>1 DEF Logged
  <2>7. pc = "group" => Flying \cap LogCases(log.lines) = {}
    <3>1. ASSUME pc = "group" PROVE Flying \cap LogCases(log.lines) = {}
      <4>1. LogCases(log.lines) \subseteq CasesOf(done) \cup Reported
        BY <2>1, <3>1 DEF Logged
      <4>2. Group \ Reported = ToSet(pending) \cup Flying
        BY <2>1, <3>1 DEF Covered
      <4>3. (ToSet(pending) \cup Flying) \cap CasesOf(done) = {}
        BY <2>1, <3>1 DEF Covered
      <4>4. QED
        BY <4>1, <4>2, <4>3
    <3>2. QED
      BY <3>1
  <2>8. Asked \cap LogCases(log.lines) = {}
    <3>1. pc \in {"off", "between", "group", "unusable", "aborted", "draining"}
      BY <2>1 DEF Shape
    <3> HIDE DEF Asked
    <3>2. QED
      BY <2>4, <2>5, <2>6, <2>7, <3>1
  <2>9. QED
    BY <2>2, <2>3, <2>8 DEF AResumeContinuesItsRun
<1>2. QED
  BY <1>1, BatchInvHolds, PTL

\* Never Limit + Concurrency unmeasured cases in a row, over all databases,
\* with any number of workers and any order of their answers.
THEOREM OutagesAlwaysStopTheBatch == Spec => []OutagesStopTheBatch
<1>1. BatchInv => OutagesStopTheBatch
  <2> SUFFICES ASSUME BatchInv PROVE OutagesStopTheBatch
    OBVIOUS
  <2>1. Windows(results, Limit + Concurrency - 1) /\ results \in Seq(AllResults)
    BY DEF BatchInv, OutageSeen, Shape
  <2>2. Limit \in Nat /\ Concurrency \in Nat
    BY BatchAssumption
  <2>3. ASSUME NEW i \in DOMAIN results
        PROVE  i + (Limit + Concurrency - 1) = i + Limit + Concurrency - 1
    <3>1. i \in Nat
      BY <2>1
    <3>2. QED
      BY <2>2, <3>1
  <2>4. QED
    BY <2>1, <2>3 DEF Windows, OutagesStopTheBatch
<1>2. QED
  BY <1>1, BatchInvHolds, PTL

LEMMA OnePlace ==
  ASSUME NEW rs, OncePerCase(rs), NEW c \in CasesAmong(rs)
  PROVE  Cardinality({i \in DOMAIN rs : rs[i].case = c}) = 1
<1>1. PICK k \in DOMAIN rs : rs[k].case = c
  BY DEF CasesAmong
<1>2. {i \in DOMAIN rs : rs[i].case = c} = {k}
  BY <1>1 DEF OncePerCase
<1>3. QED
  BY <1>2, FS_Singleton

\* A report has every case of the suite exactly once, and an exit code of 0
\* says that each of them was measured and answered.
THEOREM CasesAreReportedOnce == Spec => []EveryCaseIsReportedOnce
<1>1. BatchInv => EveryCaseIsReportedOnce
  <2> SUFFICES ASSUME BatchInv, exit \in {OK, EvalFailed}
               PROVE  /\ \A c \in Cases :
                           Cardinality({i \in DOMAIN results : results[i].case = c}) = 1
                      /\ exit = OK =>
                           /\ Aggregate(results).unmeasured = 0
                           /\ Aggregate(results).completed_hits = Aggregate(results).result_cases
    BY DEF EveryCaseIsReportedOnce
  <2>1. /\ OncePerCase(results) /\ Reported = Cases
        /\ exit = OK => \A i \in DOMAIN results : results[i].passed /\ results[i].completed
    BY DEF BatchInv, Reports
  <2>2. ASSUME NEW c \in Cases
        PROVE  Cardinality({i \in DOMAIN results : results[i].case = c}) = 1
    BY <2>1, OnePlace DEF Reported
  <2>3. ASSUME exit = OK
        PROVE  /\ Aggregate(results).unmeasured = 0
               /\ Aggregate(results).completed_hits = Aggregate(results).result_cases
    <3>1. results \in Seq(AllResults)
      BY DEF BatchInv, Shape
    <3>2. ASSUME NEW i \in DOMAIN results
          PROVE  ~results[i].unmeasured /\ results[i].passed /\ results[i].completed
      <4>1. results[i] \in AllResults
        BY <3>1
      <4>2. QED
        BY <2>1, <2>3, <4>1, ResultFacts
    <3>3. Aggregate(results).unmeasured = Cardinality({i \in DOMAIN results : results[i].unmeasured})
      BY DEF Aggregate
    <3>4. Aggregate(results).result_cases =
            Cardinality({i \in DOMAIN results : ~results[i].unmeasured /\ results[i].kind # "clarify"})
      BY DEF Aggregate
    <3>5. Aggregate(results).completed_hits =
            Cardinality({i \in DOMAIN results :
              (~results[i].unmeasured /\ results[i].kind # "clarify")
                /\ results[i].passed /\ results[i].completed})
      BY DEF Aggregate
    <3>6. {i \in DOMAIN results : results[i].unmeasured} = {}
      BY <3>2
    <3>7. {i \in DOMAIN results :
              (~results[i].unmeasured /\ results[i].kind # "clarify")
                /\ results[i].passed /\ results[i].completed}
            = {i \in DOMAIN results : ~results[i].unmeasured /\ results[i].kind # "clarify"}
      BY <3>2
    <3>8. QED
      BY <3>3, <3>4, <3>5, <3>6, <3>7, FS_EmptySet
  <2>4. QED
    BY <2>2, <2>3
<1>2. QED
  BY <1>1, BatchInvHolds, PTL
=============================================================================
