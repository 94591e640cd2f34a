------------------------------- MODULE Budget -------------------------------
(***************************************************************************)
(* Totals across statements: SqliteBudgetLedger and the two ways it is     *)
(* used, by processes that share one state file.                           *)
(*                                                                         *)
(*   Runners   a confirmed run (QueryWorkflow.execute): one lease for the  *)
(*             query and, with it, the probe that dates the data; and the  *)
(*             probe before a confirmation, a lease for one statement      *)
(*   Askers    `queryagent ask` and `chat` (BudgetedConnector): one lease  *)
(*             for each statement the model runs within a question         *)
(*                                                                         *)
(* A lease is a row with an expiry, taken in the transaction that reserves *)
(* the statements; its expiry counts from a clock read before that         *)
(* transaction waited for the file's write lock.  Time passes in whole     *)
(* units while statements run, while the connector connects and moves rows *)
(* and while a process waits for the file; everything else is instant.     *)
(***************************************************************************)
EXTENDS Integers, FiniteSets

CONSTANTS
  Subjects,           \* people; an allowance belongs to one of them
  Runners, Askers,    \* the processes
  SubjectOf,          \* the person each process acts for
  MaxQueriesPerRequest, MaxQueriesPerDay,   \* the limits of the budget section;
  MaxSecondsPerDay, MaxConcurrent,          \* 0 where the file sets none
  Timeout,            \* the longest a statement runs (safety.timeout_s)
  Connecting,         \* the longest a statement takes to connect and move rows
  Waiting,            \* the longest one request waits for the file's lock
  Margin,             \* LEASE_MARGIN_S
  DayLength,          \* time units in a business day
  MaxTime, MaxCrashes   \* bounds

Clients == Runners \cup Askers

ASSUME BudgetAssumption ==
  /\ Runners \cap Askers = {}
  /\ IsFiniteSet(Clients)
  /\ SubjectOf \in [Clients -> Subjects]
  /\ MaxQueriesPerRequest \in Nat /\ MaxQueriesPerDay \in Nat
  /\ MaxSecondsPerDay \in Nat /\ MaxConcurrent \in Nat
  /\ Timeout \in Nat \ {0} /\ Connecting \in Nat /\ Waiting \in Nat
  /\ Margin \in Nat /\ DayLength \in Nat \ {0}
  /\ MaxTime \in Nat /\ MaxCrashes \in Nat

\* An item the file leaves out limits nothing.
Allows(limit, n) == limit = 0 \/ n <= limit

DayOf(t) == t \div DayLength
Days == {DayOf(t) : t \in 0..MaxTime}

\* What a lease grants one statement, and what one statement may take.
LeaseSeconds == Timeout + Margin
StatementSeconds == Timeout + Connecting

Steps == {"idle", "reserve", "claim", "ready", "running", "refund", "release",
          "orphan"}

\* A row of budget_leases.  Its uuid is the process it was given to: one that
\* is killed leaves its row behind, so the crashes so far tell its rows apart.
Lease == [holder : Clients, nth : 0..MaxCrashes, expires : Nat]

\* readAt: the clock admit read.  asks: the statements it asks for.  Then, as
\* in the _LedgerLease: the row held and when it expires, the day charged, and
\* the statements reserved and not begun, as numbers within that day's
\* reservations.  elapsed: the time of the statement under way.  waited: the
\* time spent waiting for the file.
Local == [readAt : 0..MaxTime, asks : 0..2, nth : 0..MaxCrashes, expires : Nat,
          day : Days, slots : SUBSET Nat, elapsed : 0..StatementSeconds,
          waited : 0..Waiting]

\* The local state of an admission under way, and of one that was granted.
Asking(t, n) ==
  [readAt |-> t, asks |-> n, nth |-> 0, expires |-> 0, day |-> DayOf(0),
   slots |-> {}, elapsed |-> 0, waited |-> 0]
Granted(row, day, slots, waited) ==
  [readAt |-> 0, asks |-> 0, nth |-> row.nth, expires |-> row.expires, day |-> day,
   slots |-> slots, elapsed |-> 0, waited |-> waited]
Blank == Asking(0, 0)

VARIABLES
  now,
  leases,       \* table budget_leases
  queries,      \* table budget_ledger, by subject and day
  millis,
  pc, loc,
  count,        \* statements of each asker's question so far
  reserved,     \* history, by subject and day: the statements reserved and not
                \* given back, numbered
  sent,         \* history: those of them the database was sent
  crashes

ledger == <<leases, queries, millis>>
history == <<reserved, sent>>
vars == <<now, ledger, pc, loc, count, history, crashes>>

PerDay(x) == [s \in Subjects |-> [d \in Days |-> x]]

Init ==
  /\ now = 0
  /\ leases = {}
  /\ queries = PerDay(0) /\ millis = PerDay(0)
  /\ pc = [c \in Clients |-> "idle"]
  /\ loc = [c \in Clients |-> Blank]
  /\ count = [c \in Askers |-> 0]
  /\ reserved = PerDay({}) /\ sent = PerDay({})
  /\ crashes = 0

-----------------------------------------------------------------------------

Goto(c, step) == pc' = [pc EXCEPT ![c] = step]
Return(c) == Goto(c, "idle") /\ loc' = [loc EXCEPT ![c] = Blank]

\* What this question has run already; a run is a request of its own.
Already(c) == IF c \in Askers THEN count[c] ELSE 0

\* The next question starts its count over.
StartRequest(c) ==
  /\ c \in Askers
  /\ pc[c] = "idle" /\ count[c] > 0
  /\ count' = [count EXCEPT ![c] = 0]
  /\ UNCHANGED <<now, ledger, pc, loc, history, crashes>>

\* admit up to BEGIN IMMEDIATE: the per-request limit, then the clock.
Begin(c, n) ==
  /\ pc[c] = "idle"
  /\ c \in Askers => n = 1
  /\ Allows(MaxQueriesPerRequest, Already(c) + n)
  /\ Goto(c, "reserve")
  /\ loc' = [loc EXCEPT ![c] = Asking(now, n)]
  /\ UNCHANGED <<now, ledger, count, history, crashes>>

\* The leases that still hold a slot at the time read.
Held(t) == {l \in leases : l.expires > t}

\* _check, against the ledger as the transaction sees it.
SlotFreeAtTheLimit(c) == Allows(MaxConcurrent, Cardinality(Held(loc[c].readAt)))
SlotFree(c) == Allows(MaxConcurrent, Cardinality(Held(loc[c].readAt)) + 1)

WithinAsIfForOne(c) ==
  LET s == SubjectOf[c]
      d == DayOf(loc[c].readAt)
  IN /\ SlotFree(c)
     /\ Allows(MaxQueriesPerDay, queries[s][d] + 1)
     /\ Allows(MaxSecondsPerDay, millis[s][d] + 1)
WithinWhateverTheTime(c) ==
  LET s == SubjectOf[c]
      d == DayOf(loc[c].readAt)
  IN /\ SlotFree(c)
     /\ Allows(MaxQueriesPerDay, queries[s][d] + loc[c].asks)
Within(c) ==
  LET s == SubjectOf[c]
      d == DayOf(loc[c].readAt)
  IN /\ SlotFree(c)
     /\ Allows(MaxQueriesPerDay, queries[s][d] + loc[c].asks)
     /\ Allows(MaxSecondsPerDay, millis[s][d] + 1)

ExpiryOfOne(c) == loc[c].readAt + LeaseSeconds
Expiry(c) == loc[c].readAt + LeaseSeconds * loc[c].asks

\* n numbers none of which is in use.
Unused(used, n) ==
  CHOOSE S \in SUBSET (1..(Cardinality(used) + n)) :
    S \cap used = {} /\ Cardinality(S) = n

\* The transaction: expired leases go, the checks, the lease, the statements.
\* A refusal rolls all of it back.  A run claims its key next; an asker counts
\* the statement and runs it.
Reserve(c) ==
  LET s == SubjectOf[c]
      d == DayOf(loc[c].readAt)
      slots == Unused(reserved[s][d], loc[c].asks)
      row == [holder |-> c, nth |-> crashes, expires |-> Expiry(c)]
  IN /\ pc[c] = "reserve"
     /\ IF Within(c)
        THEN /\ leases' = Held(loc[c].readAt) \cup {row}
             /\ queries' = [queries EXCEPT ![s][d] = @ + loc[c].asks]
             /\ reserved' = [reserved EXCEPT ![s][d] = @ \cup slots]
             /\ loc' = [loc EXCEPT ![c] = Granted(row, d, slots, loc[c].waited)]
             /\ Goto(c, IF c \in Askers THEN "ready" ELSE "claim")
             /\ count' = IF c \in Askers THEN [count EXCEPT ![c] = @ + 1] ELSE count
        ELSE Return(c) /\ UNCHANGED <<leases, queries, reserved, count>>
     /\ UNCHANGED <<now, millis, sent, crashes>>

\* The file stays locked past sqlite's own timeout, or the wait is interrupted.
GiveUp(c) ==
  /\ pc[c] = "reserve"
  /\ Return(c)
  /\ UNCHANGED <<now, ledger, count, history, crashes>>

\* claim_run: the key is this run's, or it is held already (or the claim
\* fails) and nothing of the reservation will run.
Claim(c) ==
  /\ pc[c] = "claim"
  /\ Goto(c, "ready") \/ Goto(c, "refund")
  /\ UNCHANGED <<now, ledger, loc, count, history, crashes>>

RefundBoth(c) ==
  /\ pc[c] = "refund"
  /\ queries' = [queries EXCEPT ![SubjectOf[c]][loc[c].day] = @ - 2]
  /\ Goto(c, "release")
  /\ UNCHANGED <<now, leases, millis, loc, count, history, crashes>>
RefundToday(c) ==
  /\ pc[c] = "refund"
  /\ queries' = [queries EXCEPT ![SubjectOf[c]][DayOf(now)] =
                   @ - Cardinality(loc[c].slots)]
  /\ Goto(c, "release")
  /\ UNCHANGED <<now, leases, millis, loc, count, history, crashes>>
Refund(c) ==
  LET s == SubjectOf[c]
      d == loc[c].day
  IN /\ pc[c] = "refund"
     /\ queries' = [queries EXCEPT ![s][d] = @ - Cardinality(loc[c].slots)]
     /\ reserved' = [reserved EXCEPT ![s][d] = @ \ loc[c].slots]
     /\ loc' = [loc EXCEPT ![c].slots = {}]
     /\ Goto(c, "release")
     /\ UNCHANGED <<now, leases, millis, count, sent, crashes>>

\* metered: the connector connects and sends the next statement reserved.
Start(c) ==
  LET slot == CHOOSE n \in loc[c].slots : TRUE IN
  /\ pc[c] = "ready"
  /\ loc' = [loc EXCEPT ![c].slots = @ \ {slot}]
  /\ sent' = [sent EXCEPT ![SubjectOf[c]][loc[c].day] = @ \cup {slot}]
  /\ Goto(c, "running")
  /\ UNCHANGED <<now, ledger, count, reserved, crashes>>

\* The statement ends, in success or failure, and is charged to the day the
\* lease was admitted on.  A probe that fails does not stop its query; an
\* interrupt stops everything.
Record(c) ==
  /\ pc[c] = "running"
  /\ millis' = [millis EXCEPT ![SubjectOf[c]][loc[c].day] = @ + loc[c].elapsed]
  /\ loc' = [loc EXCEPT ![c].elapsed = 0]
  /\ \/ loc[c].slots # {} /\ Goto(c, "ready")
     \/ Goto(c, "release")
  /\ UNCHANGED <<now, leases, queries, count, history, crashes>>

Release(c) ==
  /\ pc[c] = "release"
  /\ leases' = {l \in leases : l.holder # c \/ l.nth # loc[c].nth}
  /\ Return(c)
  /\ UNCHANGED <<now, queries, millis, count, history, crashes>>

\* A process is killed.  Its lease stays in the table, and so does its
\* statement in the database, until its own bound.
Crash(c) ==
  /\ crashes < MaxCrashes
  /\ pc[c] \notin {"idle", "orphan"}
  /\ crashes' = crashes + 1
  /\ IF pc[c] = "running" THEN Goto(c, "orphan") /\ UNCHANGED loc ELSE Return(c)
  /\ count' = IF c \in Askers THEN [count EXCEPT ![c] = 0] ELSE count
  /\ UNCHANGED <<now, ledger, history>>

OrphanEnds(c) ==
  /\ pc[c] = "orphan"
  /\ Return(c)
  /\ UNCHANGED <<now, ledger, count, history, crashes>>

-----------------------------------------------------------------------------

\* One unit of time passes for everyone: only while no statement is past its
\* timeout and no request has waited for the file as long as one may.
InDatabase(c) == pc[c] \in {"running", "orphan"}

MayLast(c) ==
  \/ pc[c] = "idle"
  \/ InDatabase(c) /\ loc[c].elapsed < StatementSeconds
  \/ ~ InDatabase(c) /\ loc[c].waited < Waiting

Lasted(c) ==
  IF pc[c] = "idle" THEN loc[c]
  ELSE IF InDatabase(c) THEN [loc[c] EXCEPT !.elapsed = @ + 1]
  ELSE [loc[c] EXCEPT !.waited = @ + 1]

Tick ==
  /\ now < MaxTime
  /\ \A c \in Clients : MayLast(c)
  /\ now' = now + 1
  /\ loc' = [c \in Clients |-> Lasted(c)]
  /\ UNCHANGED <<ledger, pc, count, history, crashes>>

Next ==
  \/ \E c \in Clients :
       \/ StartRequest(c)
       \/ \E n \in 1..2 : Begin(c, n)
       \/ Reserve(c) \/ GiveUp(c) \/ Claim(c) \/ Refund(c)
       \/ Start(c) \/ Record(c) \/ Release(c)
       \/ Crash(c) \/ OrphanEnds(c)
  \/ Tick

Spec == Init /\ [][Next]_vars

-----------------------------------------------------------------------------
(* Properties. *)

TypeOK ==
  /\ now \in 0..MaxTime
  /\ leases \in SUBSET Lease
  /\ queries \in [Subjects -> [Days -> Nat]]
  /\ millis \in [Subjects -> [Days -> Nat]]
  /\ pc \in [Clients -> Steps]
  /\ loc \in [Clients -> Local]
  /\ count \in [Askers -> Nat]
  /\ reserved \in [Subjects -> [Days -> SUBSET Nat]]
  /\ sent \in [Subjects -> [Days -> SUBSET Nat]]
  /\ crashes \in 0..MaxCrashes

\* "A budget that forgot it would be an undercount": the ledger never shows
\* fewer statements than were sent, whatever is refunded, refused, killed or
\* finished after midnight (budget.py admit, refund).
LedgerNeverUndercounts ==
  \A s \in Subjects, d \in Days : Cardinality(sent[s][d]) <= queries[s][d]

\* The daily allowance holds for what the database was actually sent, though
\* requests check it together and send later (max_queries_per_day).
DailyLimitHolds ==
  \A s \in Subjects, d \in Days :
    Allows(MaxQueriesPerDay, Cardinality(sent[s][d]))

\* Requests executing at once: admitted and not yet finished, or killed with a
\* statement still running in the database.
Executing == {c \in Clients : pc[c] \notin {"idle", "reserve"}}

\* A lease is a slot: no more requests execute with a lease that has not
\* expired than the limit allows, whoever they are for, though leases are counted
\* at a time read before the wait for the lock and rows of the killed stay behind
\* (budget.py _check, "running >= limits.max_concurrent").
Leased == {c \in Executing : loc[c].expires > now}

LeasesAreSlots == Allows(MaxConcurrent, Cardinality(Leased))

\* How long a request goes on executing once its lease has expired and its slot
\* may be someone else's: the lease counts from before the wait for the lock and
\* covers the margin, not what connecting and moving rows takes, once for each
\* statement.  Below zero: it never does (LEASE_MARGIN_S, "Past that its holder
\* is presumed dead").
MaxLate ==
  Waiting + (IF Connecting > Margin THEN 2 ELSE 1) * (Connecting - Margin)

LeasesAreOutlivedBriefly ==
  \A c \in Executing : now <= loc[c].expires + MaxLate

\* How far a day's seconds can run over: time is checked once for a whole
\* request and by requests that run side by side, so by what a person's processes
\* may have under way at the last admission, a statement for each asker and two
\* for each run.
UnderWay(s) ==
  {x \in Clients \X {1, 2} : SubjectOf[x[1]] = s /\ (x[2] = 1 \/ x[1] \in Runners)}

SecondsOvershootBounded ==
  MaxSecondsPerDay # 0 =>
    \A s \in Subjects, d \in Days :
      millis[s][d] < MaxSecondsPerDay + Cardinality(UnderWay(s)) * StatementSeconds
=============================================================================
