---------------------------- MODULE BudgetProofs ----------------------------
(***************************************************************************)
(* Theorems about Budget, for every set of people and processes and every  *)
(* limit and bound.                                                        *)
(***************************************************************************)
EXTENDS Budget, FiniteSetTheorems, TLAPS

-----------------------------------------------------------------------------
(* Numbers for new reservations. *)

\* There is always room for one or two numbers not in use, so the CHOOSE of
\* Unused has something to choose from.
LEMMA UnusedNumbers ==
  ASSUME NEW used \in SUBSET Nat, IsFiniteSet(used), NEW n \in 1..2
  PROVE  /\ Unused(used, n) \in SUBSET Nat
         /\ Unused(used, n) \cap used = {}
         /\ IsFiniteSet(Unused(used, n))
         /\ Cardinality(Unused(used, n)) = n
         /\ Unused(used, n) # {}
<1> DEFINE room == (1..(Cardinality(used) + n)) \ used
<1>1. Cardinality(used) \in Nat
  BY FS_CardinalityType
<1>2. /\ IsFiniteSet(1..(Cardinality(used) + n))
      /\ Cardinality(1..(Cardinality(used) + n)) = Cardinality(used) + n
  BY <1>1, FS_Interval
<1>3. /\ IsFiniteSet((1..(Cardinality(used) + n)) \cap used)
      /\ Cardinality((1..(Cardinality(used) + n)) \cap used) <= Cardinality(used)
  BY FS_Intersection
<1>4. Cardinality((1..(Cardinality(used) + n)) \cap used) \in Nat
  BY <1>3, FS_CardinalityType
<1>5. /\ IsFiniteSet(room)
      /\ Cardinality(room) = Cardinality(1..(Cardinality(used) + n))
                             - Cardinality((1..(Cardinality(used) + n)) \cap used)
  BY <1>2, FS_Difference
<1>6. Cardinality(room) \in Nat /\ Cardinality(room) >= n
  BY <1>1, <1>2, <1>3, <1>4, <1>5
<1>7. room # {}
  BY <1>5, <1>6, FS_EmptySet
<1>8. PICK x \in room : TRUE
  BY <1>7
<1>9. \E S \in SUBSET room : Cardinality(S) = n
  <2>1. CASE n = 1
    <3>1. {x} \in SUBSET room
      BY <1>8
    <3>2. Cardinality({x}) = 1
      BY FS_Singleton
    <3>3. QED
      BY <2>1, <3>1, <3>2
  <2>2. CASE n = 2
    <3>1. /\ IsFiniteSet(room \ {x})
          /\ Cardinality(room \ {x}) = Cardinality(room) - 1
      BY <1>5, <1>8, FS_RemoveElement
    <3>2. room \ {x} # {}
      BY <1>6, <2>2, <3>1, FS_EmptySet
    <3>3. PICK y \in room \ {x} : TRUE
      BY <3>2
    <3>4. IsFiniteSet({x}) /\ Cardinality({x}) = 1
      BY FS_Singleton
    <3>5. Cardinality({x} \cup {y}) = 2
      BY <3>3, <3>4, FS_AddElement
    <3>6. {x} \cup {y} \in SUBSET room
      BY <1>8, <3>3
    <3>7. QED
      BY <2>2, <3>5, <3>6
  <2>3. QED
    BY <2>1, <2>2
<1>10. \E S \in SUBSET (1..(Cardinality(used) + n)) :
         S \cap used = {} /\ Cardinality(S) = n
  BY <1>9
<1>11. /\ Unused(used, n) \in SUBSET (1..(Cardinality(used) + n))
       /\ Unused(used, n) \cap used = {}
       /\ Cardinality(Unused(used, n)) = n
  BY <1>10 DEF Unused
<1>12. IsFiniteSet(Unused(used, n))
  BY <1>2, <1>11, FS_Subset
<1>13. 1..(Cardinality(used) + n) \subseteq Nat
  BY <1>1
<1>14. Unused(used, n) # {}
  BY <1>11, FS_EmptySet
<1>15. QED
  BY <1>11, <1>12, <1>13, <1>14

-----------------------------------------------------------------------------
(* Types. *)

LEMMA DaysAreDays ==
  /\ \A t \in 0..MaxTime : DayOf(t) \in Days
  /\ DayOf(0) \in Days
  BY BudgetAssumption DEF Days

LEMMA ExpiryIsATime ==
  ASSUME NEW c \in Clients, loc[c] \in Local
  PROVE  Expiry(c) \in Nat
<1>1. loc[c].readAt \in Nat /\ loc[c].asks \in 0..2
  BY BudgetAssumption DEF Local
<1>2. LeaseSeconds \in Nat
  BY BudgetAssumption DEF LeaseSeconds
<1>3. CASE loc[c].asks = 0
  BY <1>1, <1>2, <1>3 DEF Expiry
<1>4. CASE loc[c].asks = 1
  BY <1>1, <1>2, <1>4 DEF Expiry
<1>5. CASE loc[c].asks = 2
  BY <1>1, <1>2, <1>5 DEF Expiry
<1>6. QED
  BY <1>1, <1>3, <1>4, <1>5

LEMMA LocalsWellTyped ==
  /\ \A t \in 0..MaxTime, n \in 0..2 : Asking(t, n) \in Local
  /\ \A row \in Lease, d \in Days, S \in SUBSET Nat, w \in 0..Waiting :
       Granted(row, d, S, w) \in Local
  /\ Blank \in Local
<1>0. /\ 0 \in 0..MaxTime /\ 0 \in 0..MaxCrashes /\ 0 \in 0..Waiting
      /\ 0 \in 0..StatementSeconds
  BY BudgetAssumption DEF StatementSeconds
<1>1. \A t \in 0..MaxTime, n \in 0..2 : Asking(t, n) \in Local
  BY <1>0, DaysAreDays DEF Asking, Local
<1>2. \A row \in Lease, d \in Days, S \in SUBSET Nat, w \in 0..Waiting :
        Granted(row, d, S, w) \in Local
  BY <1>0 DEF Granted, Lease, Local
<1>3. QED
  BY <1>0, <1>1, <1>2 DEF Blank

\* What the ledger has to be for its type to hold: the statements counted are
\* the ones reserved, within the day's limit; the ones sent are among them; and
\* what each process has still to send is reserved, unsent and its alone.
Counted ==
  \A s \in Subjects, d \in Days :
    /\ IsFiniteSet(reserved[s][d])
    /\ queries[s][d] = Cardinality(reserved[s][d])
    /\ Allows(MaxQueriesPerDay, queries[s][d])
    /\ sent[s][d] \subseteq reserved[s][d]

Pending ==
  /\ \A c \in Clients :
       /\ loc[c].slots \subseteq reserved[SubjectOf[c]][loc[c].day]
       /\ loc[c].slots \cap sent[SubjectOf[c]][loc[c].day] = {}
       /\ pc[c] = "reserve" => loc[c].asks \in 1..2
       /\ pc[c] \in {"claim", "ready"} => loc[c].slots # {}
  /\ \A c, e \in Clients :
       c # e /\ SubjectOf[c] = SubjectOf[e] /\ loc[c].day = loc[e].day
         => loc[c].slots \cap loc[e].slots = {}

LedgerInv == TypeOK /\ Counted /\ Pending

-----------------------------------------------------------------------------
(* The ledger's invariant. *)

LEMMA LedgerInit == Init => LedgerInv
<1> SUFFICES ASSUME Init PROVE LedgerInv
  OBVIOUS
<1>1. TypeOK
  BY BudgetAssumption, DaysAreDays, LocalsWellTyped
  DEF Init, TypeOK, PerDay, Steps
<1>2. Counted
  BY BudgetAssumption, FS_EmptySet DEF Init, PerDay, Counted, Allows
<1>3. Pending
  BY BudgetAssumption DEF Init, PerDay, Pending, Blank, Asking
<1>4. QED
  BY <1>1, <1>2, <1>3 DEF LedgerInv

\* A step that leaves the ledger and its history alone and takes no statements
\* on keeps Counted and Pending.
LEMMA NothingReserved ==
  ASSUME LedgerInv, UNCHANGED <<queries, reserved, sent>>, TypeOK',
         \A c \in Clients :
           /\ loc'[c].slots = {} \/ (loc'[c].slots = loc[c].slots /\ loc'[c].day = loc[c].day)
           /\ pc'[c] = "reserve" => loc'[c].asks \in 1..2
           /\ pc'[c] \in {"claim", "ready"} => loc'[c].slots # {}
  PROVE  LedgerInv'
<1>1. Counted'
  BY DEF LedgerInv, Counted
<1>2. Pending'
  BY DEF LedgerInv, Pending
<1>3. QED
  BY <1>1, <1>2 DEF LedgerInv

\* A process whose call is over.
LEMMA Returns ==
  ASSUME LedgerInv, NEW c \in Clients, Return(c)
  PROVE  /\ pc' \in [Clients -> Steps] /\ loc' \in [Clients -> Local]
         /\ pc'[c] = "idle" /\ loc'[c].slots = {}
         /\ \A e \in Clients : e # c => pc'[e] = pc[e] /\ loc'[e] = loc[e]
  BY LocalsWellTyped DEF LedgerInv, TypeOK, Return, Goto, Steps, Blank, Asking

LEMMA StartRequestKeeps ==
  ASSUME LedgerInv, NEW c \in Clients, StartRequest(c)
  PROVE  LedgerInv'
<1>1. TypeOK'
  BY DEF LedgerInv, TypeOK, StartRequest, ledger, history
<1>2. QED
  BY <1>1, NothingReserved DEF LedgerInv, Pending, StartRequest, ledger, history

LEMMA BeginKeeps ==
  ASSUME LedgerInv, NEW c \in Clients, NEW n \in 1..2, Begin(c, n)
  PROVE  LedgerInv'
<1>1. Asking(now, n) \in Local
  BY LocalsWellTyped DEF LedgerInv, TypeOK
<1>2. TypeOK'
  BY <1>1 DEF LedgerInv, TypeOK, Begin, Goto, Steps, ledger, history
<1>3. /\ pc'[c] = "reserve" /\ loc'[c].slots = {} /\ loc'[c].asks = n
      /\ \A e \in Clients : e # c => pc'[e] = pc[e] /\ loc'[e] = loc[e]
  BY DEF LedgerInv, TypeOK, Begin, Goto, Asking
<1>4. UNCHANGED <<queries, reserved, sent>>
  BY DEF Begin, ledger, history
<1>5. \A e \in Clients :
        /\ loc'[e].slots = {} \/ (loc'[e].slots = loc[e].slots /\ loc'[e].day = loc[e].day)
        /\ pc'[e] = "reserve" => loc'[e].asks \in 1..2
        /\ pc'[e] \in {"claim", "ready"} => loc'[e].slots # {}
  BY <1>3 DEF LedgerInv, Pending
<1>6. QED
  BY <1>2, <1>4, <1>5, NothingReserved

LEMMA GiveUpKeeps ==
  ASSUME LedgerInv, NEW c \in Clients, GiveUp(c) \/ OrphanEnds(c)
  PROVE  LedgerInv'
<1>1. /\ Return(c)
      /\ UNCHANGED <<now, leases, queries, millis, count, reserved, sent, crashes>>
  BY DEF GiveUp, OrphanEnds, ledger, history
<1>2. TypeOK'
  BY <1>1, Returns DEF LedgerInv, TypeOK
<1>3. \A e \in Clients :
        /\ loc'[e].slots = {} \/ (loc'[e].slots = loc[e].slots /\ loc'[e].day = loc[e].day)
        /\ pc'[e] = "reserve" => loc'[e].asks \in 1..2
        /\ pc'[e] \in {"claim", "ready"} => loc'[e].slots # {}
  BY <1>1, Returns DEF LedgerInv, Pending
<1>4. QED
  BY <1>1, <1>2, <1>3, NothingReserved

LEMMA ClaimKeeps ==
  ASSUME LedgerInv, NEW c \in Clients, Claim(c)
  PROVE  LedgerInv'
<1>1. TypeOK'
  BY DEF LedgerInv, TypeOK, Claim, Goto, Steps, ledger, history
<1>2. /\ pc[c] = "claim" /\ pc'[c] \in {"ready", "refund"} /\ loc' = loc
      /\ \A e \in Clients : e # c => pc'[e] = pc[e]
      /\ UNCHANGED <<queries, reserved, sent>>
  BY DEF LedgerInv, TypeOK, Claim, Goto, ledger, history
<1>3. \A e \in Clients :
        /\ pc'[e] = "reserve" => loc'[e].asks \in 1..2
        /\ pc'[e] \in {"claim", "ready"} => loc'[e].slots # {}
  BY <1>2 DEF LedgerInv, Pending
<1>4. QED
  BY <1>1, <1>2, <1>3, NothingReserved

LEMMA RecordKeeps ==
  ASSUME LedgerInv, NEW c \in Clients, Record(c)
  PROVE  LedgerInv'
<1> DEFINE s == SubjectOf[c]
           d == loc[c].day
<1>1. s \in Subjects /\ d \in Days /\ loc[c].elapsed \in Nat /\ 0 \in 0..StatementSeconds
  BY BudgetAssumption DEF LedgerInv, TypeOK, Local, StatementSeconds
<1>2. millis' \in [Subjects -> [Days -> Nat]]
  <2>1. millis[s][d] + loc[c].elapsed \in Nat
    BY <1>1 DEF LedgerInv, TypeOK
  <2>2. QED
    BY <1>1, <2>1 DEF LedgerInv, TypeOK, Record
<1>3. loc' \in [Clients -> Local]
  <2>1. loc \in [Clients -> Local] /\ loc' = [loc EXCEPT ![c].elapsed = 0]
    BY DEF LedgerInv, TypeOK, Record
  <2>2. QED
    BY <1>1, <2>1 DEF Local
<1>4. TypeOK'
  BY <1>2, <1>3 DEF LedgerInv, TypeOK, Record, Goto, Steps, history
<1>5. /\ pc'[c] \in {"ready", "release"}
      /\ pc'[c] = "ready" => loc[c].slots # {}
      /\ loc'[c].slots = loc[c].slots /\ loc'[c].day = loc[c].day
      /\ \A e \in Clients : e # c => pc'[e] = pc[e] /\ loc'[e] = loc[e]
      /\ UNCHANGED <<queries, reserved, sent>>
  BY DEF LedgerInv, TypeOK, Local, Record, Goto, history
<1>6. \A e \in Clients :
        /\ loc'[e].slots = loc[e].slots /\ loc'[e].day = loc[e].day
        /\ pc'[e] = "reserve" => loc'[e].asks \in 1..2
        /\ pc'[e] \in {"claim", "ready"} => loc'[e].slots # {}
  BY <1>5 DEF LedgerInv, Pending
<1>7. QED
  BY <1>4, <1>5, <1>6, NothingReserved

LEMMA ReleaseKeeps ==
  ASSUME LedgerInv, NEW c \in Clients, Release(c)
  PROVE  LedgerInv'
<1>1. /\ Return(c) /\ leases' \subseteq leases
      /\ UNCHANGED <<now, queries, millis, count, reserved, sent, crashes>>
  BY DEF Release, history
<1>2. TypeOK'
  BY <1>1, Returns DEF LedgerInv, TypeOK
<1>3. \A e \in Clients :
        /\ loc'[e].slots = {} \/ (loc'[e].slots = loc[e].slots /\ loc'[e].day = loc[e].day)
        /\ pc'[e] = "reserve" => loc'[e].asks \in 1..2
        /\ pc'[e] \in {"claim", "ready"} => loc'[e].slots # {}
  BY <1>1, Returns DEF LedgerInv, Pending
<1>4. QED
  BY <1>1, <1>2, <1>3, NothingReserved

LEMMA CrashKeeps ==
  ASSUME LedgerInv, NEW c \in Clients, Crash(c)
  PROVE  LedgerInv'
<1>1. crashes' \in 0..MaxCrashes /\ count' \in [Askers -> Nat]
  BY BudgetAssumption DEF LedgerInv, TypeOK, Crash
<1>2. UNCHANGED <<now, leases, queries, millis, reserved, sent>>
  BY DEF Crash, ledger, history
<1>3. CASE pc[c] = "running"
  <2>1. TypeOK'
    BY <1>1, <1>2, <1>3 DEF LedgerInv, TypeOK, Crash, Goto, Steps
  <2>2. /\ loc' = loc /\ pc'[c] = "orphan"
        /\ \A e \in Clients : e # c => pc'[e] = pc[e]
    BY <1>3 DEF LedgerInv, TypeOK, Crash, Goto
  <2>3. \A e \in Clients :
          /\ pc'[e] = "reserve" => loc'[e].asks \in 1..2
          /\ pc'[e] \in {"claim", "ready"} => loc'[e].slots # {}
    BY <2>2 DEF LedgerInv, Pending
  <2>4. QED
    BY <1>2, <2>1, <2>2, <2>3, NothingReserved
<1>4. CASE pc[c] # "running"
  <2>1. Return(c)
    BY <1>4 DEF Crash
  <2>2. TypeOK'
    BY <1>1, <1>2, <2>1, Returns DEF LedgerInv, TypeOK
  <2>3. \A e \in Clients :
          /\ loc'[e].slots = {} \/ (loc'[e].slots = loc[e].slots /\ loc'[e].day = loc[e].day)
          /\ pc'[e] = "reserve" => loc'[e].asks \in 1..2
          /\ pc'[e] \in {"claim", "ready"} => loc'[e].slots # {}
    BY <2>1, Returns DEF LedgerInv, Pending
  <2>4. QED
    BY <1>2, <2>2, <2>3, NothingReserved
<1>5. QED
  BY <1>3, <1>4

\* What waiting a moment does to a process's local state: it moves one of two
\* counters, and Tick's guard keeps that counter within its bound.
LEMMA LastedKeeps ==
  ASSUME LedgerInv, NEW c \in Clients, MayLast(c)
  PROVE  /\ Lasted(c) \in Local
         /\ Lasted(c).slots = loc[c].slots /\ Lasted(c).day = loc[c].day
         /\ Lasted(c).asks = loc[c].asks
<1>1. loc[c] \in Local /\ loc[c].elapsed \in 0..StatementSeconds /\ loc[c].waited \in 0..Waiting
  BY DEF LedgerInv, TypeOK, Local
<1>2. StatementSeconds \in Nat /\ Waiting \in Nat
  BY BudgetAssumption DEF StatementSeconds
<1>3. CASE pc[c] = "idle"
  BY <1>1, <1>3 DEF Lasted
<1>4. CASE pc[c] # "idle" /\ InDatabase(c)
  <2>1. loc[c].elapsed + 1 \in 0..StatementSeconds
    BY <1>1, <1>2, <1>4 DEF MayLast
  <2>2. QED
    BY <1>1, <1>4, <2>1 DEF Lasted, Local
<1>5. CASE pc[c] # "idle" /\ ~ InDatabase(c)
  <2>1. loc[c].waited + 1 \in 0..Waiting
    BY <1>1, <1>2, <1>5 DEF MayLast
  <2>2. QED
    BY <1>1, <1>5, <2>1 DEF Lasted, Local
<1>6. QED
  BY <1>3, <1>4, <1>5

LEMMA TickKeeps ==
  ASSUME LedgerInv, Tick
  PROVE  LedgerInv'
<1>1. \A c \in Clients :
        /\ loc'[c] = Lasted(c) /\ pc'[c] = pc[c]
        /\ loc'[c] \in Local
        /\ loc'[c].slots = loc[c].slots /\ loc'[c].day = loc[c].day
        /\ loc'[c].asks = loc[c].asks
  BY LastedKeeps DEF Tick
<1>2. now' \in 0..MaxTime
  BY BudgetAssumption DEF LedgerInv, TypeOK, Tick
<1>3. TypeOK'
  BY <1>1, <1>2 DEF LedgerInv, TypeOK, Tick, ledger, history
<1>4. UNCHANGED <<queries, reserved, sent>>
  BY DEF Tick, ledger, history
<1>5. \A c \in Clients :
        /\ pc'[c] = "reserve" => loc'[c].asks \in 1..2
        /\ pc'[c] \in {"claim", "ready"} => loc'[c].slots # {}
  BY <1>1 DEF LedgerInv, Pending
<1>6. QED
  BY <1>1, <1>3, <1>4, <1>5, NothingReserved

\* The three steps that change the reservations.  Each works on one subject's
\* day; everything else is left alone.
LEMMA ReserveKeeps ==
  ASSUME LedgerInv, NEW c \in Clients, Reserve(c)
  PROVE  LedgerInv'
<1> DEFINE s == SubjectOf[c]
           d == DayOf(loc[c].readAt)
           n == loc[c].asks
           slots == Unused(reserved[s][d], n)
           row == [holder |-> c, nth |-> crashes, expires |-> Expiry(c)]
<1>1. /\ s \in Subjects /\ loc[c] \in Local /\ loc[c].readAt \in 0..MaxTime
      /\ n \in 1..2 /\ loc[c].waited \in 0..Waiting
  BY BudgetAssumption DEF LedgerInv, TypeOK, Local, Pending, Reserve
<1>2. d \in Days
  BY <1>1, DaysAreDays
<1>3. CASE ~ Within(c)
  <2>1. /\ Return(c)
        /\ UNCHANGED <<now, leases, queries, millis, count, reserved, sent, crashes>>
    BY <1>3 DEF Reserve
  <2>2. TypeOK'
    BY <2>1, Returns DEF LedgerInv, TypeOK
  <2>3. \A e \in Clients :
          /\ loc'[e].slots = {} \/ (loc'[e].slots = loc[e].slots /\ loc'[e].day = loc[e].day)
          /\ pc'[e] = "reserve" => loc'[e].asks \in 1..2
          /\ pc'[e] \in {"claim", "ready"} => loc'[e].slots # {}
    BY <2>1, Returns DEF LedgerInv, Pending
  <2>4. QED
    BY <2>1, <2>2, <2>3, NothingReserved
<1>4. CASE Within(c)
  <2>1. /\ reserved[s][d] \in SUBSET Nat /\ IsFiniteSet(reserved[s][d])
        /\ queries[s][d] = Cardinality(reserved[s][d]) /\ queries[s][d] \in Nat
    BY <1>1, <1>2 DEF LedgerInv, TypeOK, Counted
  <2>2. /\ slots \in SUBSET Nat /\ slots \cap reserved[s][d] = {}
        /\ IsFiniteSet(slots) /\ Cardinality(slots) = n /\ slots # {}
    BY <1>1, <2>1, UnusedNumbers
  <2>3. /\ IsFiniteSet(reserved[s][d] \cup slots)
        /\ Cardinality(reserved[s][d] \cup slots) = queries[s][d] + n
    <3>1. Cardinality(reserved[s][d] \cap slots) = 0
      BY <2>2, FS_EmptySet
    <3> HIDE DEF slots
    <3>2. /\ IsFiniteSet(reserved[s][d] \cup slots)
          /\ Cardinality(reserved[s][d] \cup slots)
               = Cardinality(reserved[s][d]) + Cardinality(slots)
                   - Cardinality(reserved[s][d] \cap slots)
      BY <2>1, <2>2, FS_Union, Zenon
    <3>3. QED
      BY <1>1, <2>1, <2>2, <3>1, <3>2, SMTT(30)
  <2>4. /\ leases' = Held(loc[c].readAt) \cup {row}
        /\ queries' = [queries EXCEPT ![s][d] = queries[s][d] + n]
        /\ reserved' = [reserved EXCEPT ![s][d] = reserved[s][d] \cup slots]
        /\ loc' = [loc EXCEPT ![c] = Granted(row, d, slots, loc[c].waited)]
        /\ pc' = [pc EXCEPT ![c] = IF c \in Askers THEN "ready" ELSE "claim"]
        /\ count' = IF c \in Askers THEN [count EXCEPT ![c] = @ + 1] ELSE count
        /\ UNCHANGED <<now, millis, sent, crashes>>
    BY <1>4 DEF Reserve, Goto
  <2>5. Allows(MaxQueriesPerDay, queries[s][d] + n)
    BY <1>4 DEF Within
  <2> HIDE DEF slots, s, d, n
  <2>6. row \in Lease
    BY <1>1, ExpiryIsATime DEF LedgerInv, TypeOK, Lease
  <2> HIDE DEF row
  <2>6a. Granted(row, d, slots, loc[c].waited) \in Local
    BY <1>1, <1>2, <2>2, <2>6, LocalsWellTyped DEF LedgerInv, TypeOK
  <2>7. leases' \in SUBSET Lease
    BY <2>4, <2>6 DEF LedgerInv, TypeOK, Held
  <2>8. TypeOK'
    <3>1. queries' \in [Subjects -> [Days -> Nat]]
      BY <1>1, <1>2, <2>1, <2>4 DEF LedgerInv, TypeOK
    <3>2. reserved' \in [Subjects -> [Days -> SUBSET Nat]]
      BY <1>1, <1>2, <2>1, <2>2, <2>4 DEF LedgerInv, TypeOK
    <3>3. pc' \in [Clients -> Steps] /\ loc' \in [Clients -> Local]
      BY <2>4, <2>6a DEF LedgerInv, TypeOK, Steps
    <3>4. count' \in [Askers -> Nat]
      BY <2>4 DEF LedgerInv, TypeOK
    <3>5. QED
      BY <2>4, <2>7, <3>1, <3>2, <3>3, <3>4 DEF LedgerInv, TypeOK
  <2>9. ASSUME NEW s2 \in Subjects, NEW d2 \in Days
        PROVE  /\ reserved'[s2][d2] = IF s2 = s /\ d2 = d THEN reserved[s][d] \cup slots
                                      ELSE reserved[s2][d2]
               /\ queries'[s2][d2] = IF s2 = s /\ d2 = d THEN queries[s][d] + n
                                     ELSE queries[s2][d2]
    BY <1>1, <1>2, <2>4 DEF LedgerInv, TypeOK
  <2>10. Counted'
    <3>1. SUFFICES ASSUME NEW s2 \in Subjects, NEW d2 \in Days
                   PROVE  /\ IsFiniteSet(reserved'[s2][d2])
                          /\ queries'[s2][d2] = Cardinality(reserved'[s2][d2])
                          /\ Allows(MaxQueriesPerDay, queries'[s2][d2])
                          /\ sent'[s2][d2] \subseteq reserved'[s2][d2]
      BY DEF Counted
    <3>2. CASE s2 = s /\ d2 = d
      <4>1. /\ reserved'[s2][d2] = reserved[s][d] \cup slots
            /\ queries'[s2][d2] = queries[s][d] + n
            /\ sent'[s2][d2] = sent[s][d]
        BY <2>4, <2>9, <3>2
      <4>2. sent[s][d] \subseteq reserved[s][d]
        BY <1>1, <1>2 DEF LedgerInv, Counted
      <4>3. sent'[s2][d2] \subseteq reserved'[s2][d2]
        BY <4>1, <4>2
      <4>4. QED
        BY <2>3, <2>5, <4>1, <4>3
    <3>3. CASE ~ (s2 = s /\ d2 = d)
      BY <2>4, <2>9, <3>3 DEF LedgerInv, Counted
    <3>4. QED
      BY <3>2, <3>3
  <2>11. /\ loc'[c].slots = slots /\ loc'[c].day = d /\ pc'[c] \in {"ready", "claim"}
         /\ \A e \in Clients : e # c => loc'[e] = loc[e] /\ pc'[e] = pc[e]
    BY <2>4 DEF LedgerInv, TypeOK, Granted
  <2>12. \A e \in Clients : SubjectOf[e] \in Subjects /\ loc[e].day \in Days
    BY BudgetAssumption DEF LedgerInv, TypeOK, Local
  <2>13. sent[s][d] \subseteq reserved[s][d]
    BY <1>1, <1>2 DEF LedgerInv, Counted
  <2>14. Pending'
    <3>1. ASSUME NEW e \in Clients
          PROVE  /\ loc'[e].slots \subseteq reserved'[SubjectOf[e]][loc'[e].day]
                 /\ loc'[e].slots \cap sent'[SubjectOf[e]][loc'[e].day] = {}
                 /\ pc'[e] = "reserve" => loc'[e].asks \in 1..2
                 /\ pc'[e] \in {"claim", "ready"} => loc'[e].slots # {}
      <4>1. CASE e = c
        BY <1>1, <1>2, <2>2, <2>4, <2>9, <2>11, <2>13, <4>1 DEF s
      <4>2. CASE e # c
        BY <2>4, <2>9, <2>11, <2>12, <4>2 DEF LedgerInv, Pending
      <4>3. QED
        BY <4>1, <4>2
    <3>2. ASSUME NEW e \in Clients, e # c, SubjectOf[e] = s, loc[e].day = d
          PROVE  loc[e].slots \cap slots = {}
      BY <2>2, <3>2 DEF LedgerInv, Pending
    <3>3. ASSUME NEW e \in Clients, NEW g \in Clients, e # g,
                 SubjectOf[e] = SubjectOf[g], loc'[e].day = loc'[g].day
          PROVE  loc'[e].slots \cap loc'[g].slots = {}
      <4>1. CASE e = c
        BY <2>11, <3>2, <3>3, <4>1 DEF s
      <4>2. CASE g = c
        BY <2>11, <3>2, <3>3, <4>2 DEF s
      <4>3. CASE e # c /\ g # c
        BY <2>11, <3>3, <4>3 DEF LedgerInv, Pending
      <4>4. QED
        BY <4>1, <4>2, <4>3
    <3>4. QED
      BY <3>1, <3>3 DEF Pending
  <2>15. QED
    BY <2>8, <2>10, <2>14 DEF LedgerInv
<1>5. QED
  BY <1>3, <1>4

LEMMA RefundKeeps ==
  ASSUME LedgerInv, NEW c \in Clients, Refund(c)
  PROVE  LedgerInv'
<1> DEFINE s == SubjectOf[c]
           d == loc[c].day
           mine == loc[c].slots
<1>1. /\ s \in Subjects /\ d \in Days /\ mine \in SUBSET Nat
      /\ mine \subseteq reserved[s][d] /\ mine \cap sent[s][d] = {}
  BY BudgetAssumption DEF LedgerInv, TypeOK, Local, Pending
<1>2. /\ IsFiniteSet(reserved[s][d]) /\ queries[s][d] = Cardinality(reserved[s][d])
      /\ queries[s][d] \in Nat /\ sent[s][d] \subseteq reserved[s][d]
      /\ Allows(MaxQueriesPerDay, queries[s][d])
  BY <1>1 DEF LedgerInv, TypeOK, Counted
<1>3. /\ queries' = [queries EXCEPT ![s][d] = queries[s][d] - Cardinality(mine)]
      /\ reserved' = [reserved EXCEPT ![s][d] = reserved[s][d] \ mine]
      /\ loc' = [loc EXCEPT ![c].slots = {}]
      /\ pc' = [pc EXCEPT ![c] = "release"]
      /\ UNCHANGED <<now, leases, millis, count, sent, crashes>>
  BY DEF Refund, Goto
<1> HIDE DEF s, d, mine
<1>4. /\ IsFiniteSet(reserved[s][d] \ mine)
      /\ Cardinality(reserved[s][d] \ mine) = queries[s][d] - Cardinality(mine)
      /\ queries[s][d] - Cardinality(mine) \in Nat /\ Cardinality(mine) \in Nat
  <2>1. reserved[s][d] \cap mine = mine
    BY <1>1
  <2>2. /\ IsFiniteSet(reserved[s][d] \ mine)
        /\ Cardinality(reserved[s][d] \ mine)
             = Cardinality(reserved[s][d]) - Cardinality(reserved[s][d] \cap mine)
    BY <1>2, FS_Difference
  <2>3. Cardinality(reserved[s][d] \ mine) \in Nat
    BY <2>2, FS_CardinalityType
  <2>4. IsFiniteSet(mine)
    BY <1>1, <1>2, FS_Subset
  <2>5. Cardinality(mine) \in Nat
    BY <2>4, FS_CardinalityType
  <2>6. QED
    BY <1>2, <2>1, <2>2, <2>3, <2>5
<1>5. TypeOK'
  <2>1. queries' \in [Subjects -> [Days -> Nat]]
    BY <1>1, <1>3, <1>4 DEF LedgerInv, TypeOK
  <2>2. reserved' \in [Subjects -> [Days -> SUBSET Nat]]
    BY <1>1, <1>3 DEF LedgerInv, TypeOK
  <2>3. loc' \in [Clients -> Local]
    BY <1>3, ZenonT(60) DEF LedgerInv, TypeOK, Local
  <2>4. QED
    BY <1>3, <2>1, <2>2, <2>3 DEF LedgerInv, TypeOK, Steps
<1>6. ASSUME NEW s2 \in Subjects, NEW d2 \in Days
      PROVE  /\ reserved'[s2][d2] = IF s2 = s /\ d2 = d THEN reserved[s][d] \ mine
                                    ELSE reserved[s2][d2]
             /\ queries'[s2][d2] = IF s2 = s /\ d2 = d THEN queries[s][d] - Cardinality(mine)
                                   ELSE queries[s2][d2]
  BY <1>1, <1>3 DEF LedgerInv, TypeOK
<1>7. Counted'
  <2>1. SUFFICES ASSUME NEW s2 \in Subjects, NEW d2 \in Days
                 PROVE  /\ IsFiniteSet(reserved'[s2][d2])
                        /\ queries'[s2][d2] = Cardinality(reserved'[s2][d2])
                        /\ Allows(MaxQueriesPerDay, queries'[s2][d2])
                        /\ sent'[s2][d2] \subseteq reserved'[s2][d2]
    BY DEF Counted
  <2>2. CASE s2 = s /\ d2 = d
    <3>1. Allows(MaxQueriesPerDay, queries[s][d] - Cardinality(mine))
      BY <1>2, <1>4, BudgetAssumption DEF Allows
    <3>2. QED
      <4>1. /\ reserved'[s2][d2] = reserved[s][d] \ mine
            /\ queries'[s2][d2] = queries[s][d] - Cardinality(mine)
            /\ sent'[s2][d2] = sent[s][d]
        BY <1>3, <1>6, <2>2
      <4>2. sent'[s2][d2] \subseteq reserved'[s2][d2]
        BY <1>1, <1>2, <4>1
      <4>3. QED
        BY <1>4, <3>1, <4>1, <4>2
  <2>3. CASE ~ (s2 = s /\ d2 = d)
    BY <1>3, <1>6, <2>3 DEF LedgerInv, Counted
  <2>4. QED
    BY <2>2, <2>3
<1>8. /\ loc'[c].slots = {} /\ pc'[c] = "release"
      /\ \A e \in Clients : e # c => loc'[e] = loc[e] /\ pc'[e] = pc[e]
  BY <1>3 DEF LedgerInv, TypeOK, Local
<1>9. ASSUME NEW e \in Clients, e # c
      PROVE  loc[e].slots \subseteq reserved'[SubjectOf[e]][loc[e].day]
  <2>1. SubjectOf[e] \in Subjects /\ loc[e].day \in Days
    BY BudgetAssumption DEF LedgerInv, TypeOK, Local
  <2>2. loc[e].slots \subseteq reserved[SubjectOf[e]][loc[e].day]
    BY DEF LedgerInv, Pending
  <2>3. CASE SubjectOf[e] = s /\ loc[e].day = d
    <3>1. loc[e].slots \cap mine = {}
      BY <1>9, <2>3 DEF LedgerInv, Pending, s, d, mine
    <3>2. QED
      BY <1>6, <2>1, <2>2, <2>3, <3>1
  <2>4. CASE ~ (SubjectOf[e] = s /\ loc[e].day = d)
    BY <1>6, <2>1, <2>2, <2>4
  <2>5. QED
    BY <2>3, <2>4
<1>10. Pending'
  <2>1. ASSUME NEW e \in Clients
        PROVE  /\ loc'[e].slots \subseteq reserved'[SubjectOf[e]][loc'[e].day]
               /\ loc'[e].slots \cap sent'[SubjectOf[e]][loc'[e].day] = {}
               /\ pc'[e] = "reserve" => loc'[e].asks \in 1..2
               /\ pc'[e] \in {"claim", "ready"} => loc'[e].slots # {}
    BY <1>3, <1>8, <1>9 DEF LedgerInv, Pending
  <2>2. ASSUME NEW e \in Clients, NEW g \in Clients, e # g,
               SubjectOf[e] = SubjectOf[g], loc'[e].day = loc'[g].day
        PROVE  loc'[e].slots \cap loc'[g].slots = {}
    BY <1>8, <2>2 DEF LedgerInv, Pending
  <2>3. QED
    BY <2>1, <2>2 DEF Pending
<1>11. QED
  BY <1>5, <1>7, <1>10 DEF LedgerInv

LEMMA StartKeeps ==
  ASSUME LedgerInv, NEW c \in Clients, Start(c)
  PROVE  LedgerInv'
<1> DEFINE s == SubjectOf[c]
           d == loc[c].day
           slot == CHOOSE n \in loc[c].slots : TRUE
<1>1. /\ s \in Subjects /\ d \in Days /\ loc[c].slots \in SUBSET Nat
      /\ loc[c].slots \subseteq reserved[s][d] /\ loc[c].slots # {}
  BY BudgetAssumption DEF LedgerInv, TypeOK, Local, Pending, Start
<1>2. slot \in loc[c].slots
  BY <1>1
<1>3. /\ loc' = [loc EXCEPT ![c].slots = loc[c].slots \ {slot}]
      /\ sent' = [sent EXCEPT ![s][d] = sent[s][d] \cup {slot}]
      /\ pc' = [pc EXCEPT ![c] = "running"]
      /\ UNCHANGED <<now, leases, queries, millis, count, reserved, crashes>>
  BY DEF LedgerInv, TypeOK, Local, Start, Goto, ledger
<1> HIDE DEF s, d, slot
<1>4. TypeOK'
  <2>1. sent' \in [Subjects -> [Days -> SUBSET Nat]]
    BY <1>1, <1>2, <1>3 DEF LedgerInv, TypeOK
  <2>2. loc' \in [Clients -> Local]
    <3>1. loc \in [Clients -> Local] /\ loc[c].slots \ {slot} \in SUBSET Nat
      BY <1>1 DEF LedgerInv, TypeOK
    <3>2. QED
      BY <1>3, <3>1 DEF Local
  <2>3. QED
    BY <1>3, <2>1, <2>2 DEF LedgerInv, TypeOK, Steps
<1>5. ASSUME NEW s2 \in Subjects, NEW d2 \in Days
      PROVE  sent'[s2][d2] = IF s2 = s /\ d2 = d THEN sent[s][d] \cup {slot} ELSE sent[s2][d2]
  BY <1>1, <1>3 DEF LedgerInv, TypeOK
<1>6. Counted'
  <2>1. \A s2 \in Subjects, d2 \in Days : sent'[s2][d2] \subseteq reserved[s2][d2]
    BY <1>1, <1>2, <1>5 DEF LedgerInv, Counted
  <2>2. QED
    BY <1>3, <2>1 DEF LedgerInv, Counted
<1>7. /\ loc'[c].slots = loc[c].slots \ {slot} /\ loc'[c].day = d /\ pc'[c] = "running"
      /\ \A e \in Clients : e # c => loc'[e] = loc[e] /\ pc'[e] = pc[e]
  <2>1. loc \in [Clients -> Local] /\ pc \in [Clients -> Steps]
    BY DEF LedgerInv, TypeOK
  <2>2. QED
    BY <1>3, <2>1 DEF Local, d
<1>8. ASSUME NEW e \in Clients, e # c
      PROVE  loc[e].slots \cap sent'[SubjectOf[e]][loc[e].day] = {}
  <2>1. SubjectOf[e] \in Subjects /\ loc[e].day \in Days
    BY BudgetAssumption DEF LedgerInv, TypeOK, Local
  <2>2. loc[e].slots \cap sent[SubjectOf[e]][loc[e].day] = {}
    BY DEF LedgerInv, Pending
  <2>3. CASE SubjectOf[e] = s /\ loc[e].day = d
    <3>1. loc[e].slots \cap loc[c].slots = {}
      BY <1>8, <2>3 DEF LedgerInv, Pending, s, d
    <3>2. sent'[SubjectOf[e]][loc[e].day] = sent[s][d] \cup {slot}
      BY <1>5, <2>1, <2>3
    <3>3. QED
      BY <1>2, <2>2, <2>3, <3>1, <3>2
  <2>4. CASE ~ (SubjectOf[e] = s /\ loc[e].day = d)
    BY <1>5, <2>1, <2>2, <2>4
  <2>5. QED
    BY <2>3, <2>4
<1>9. Pending'
  <2>1. /\ loc'[c].slots \subseteq reserved'[s][d]
        /\ loc'[c].slots \cap sent'[s][d] = {}
    <3>1. loc[c].slots \cap sent[s][d] = {}
      BY DEF LedgerInv, Pending, s, d
    <3>2. sent'[s][d] = sent[s][d] \cup {slot}
      BY <1>1, <1>5
    <3>3. QED
      BY <1>1, <1>3, <1>7, <3>1, <3>2
  <2>2. ASSUME NEW e \in Clients
        PROVE  /\ loc'[e].slots \subseteq reserved'[SubjectOf[e]][loc'[e].day]
               /\ loc'[e].slots \cap sent'[SubjectOf[e]][loc'[e].day] = {}
               /\ pc'[e] = "reserve" => loc'[e].asks \in 1..2
               /\ pc'[e] \in {"claim", "ready"} => loc'[e].slots # {}
    <3>1. CASE e = c
      BY <1>7, <2>1, <3>1 DEF s
    <3>2. CASE e # c
      BY <1>3, <1>7, <1>8, <3>2 DEF LedgerInv, Pending
    <3>3. QED
      BY <3>1, <3>2
  <2>3. ASSUME NEW e \in Clients, NEW g \in Clients, e # g,
               SubjectOf[e] = SubjectOf[g], loc'[e].day = loc'[g].day
        PROVE  loc'[e].slots \cap loc'[g].slots = {}
    <3>1. /\ loc'[e].slots \subseteq loc[e].slots /\ loc'[e].day = loc[e].day
          /\ loc'[g].slots \subseteq loc[g].slots /\ loc'[g].day = loc[g].day
      BY <1>7 DEF d
    <3>2. loc[e].slots \cap loc[g].slots = {}
      BY <2>3, <3>1 DEF LedgerInv, Pending
    <3>3. QED
      BY <3>1, <3>2
  <2>4. QED
    BY <2>2, <2>3 DEF Pending
<1>10. QED
  BY <1>4, <1>6, <1>9 DEF LedgerInv

-----------------------------------------------------------------------------
(* The theorems. *)

LEMMA LedgerStep == LedgerInv /\ [Next]_vars => LedgerInv'
<1> SUFFICES ASSUME LedgerInv, [Next]_vars PROVE LedgerInv'
  OBVIOUS
<1>1. ASSUME NEW c \in Clients, StartRequest(c) PROVE LedgerInv'
  BY <1>1, StartRequestKeeps
<1>2. ASSUME NEW c \in Clients, NEW n \in 1..2, Begin(c, n) PROVE LedgerInv'
  BY <1>2, BeginKeeps
<1>3. ASSUME NEW c \in Clients, Reserve(c) PROVE LedgerInv'
  BY <1>3, ReserveKeeps
<1>4. ASSUME NEW c \in Clients, GiveUp(c) \/ OrphanEnds(c) PROVE LedgerInv'
  BY <1>4, GiveUpKeeps
<1>5. ASSUME NEW c \in Clients, Claim(c) PROVE LedgerInv'
  BY <1>5, ClaimKeeps
<1>6. ASSUME NEW c \in Clients, Refund(c) PROVE LedgerInv'
  BY <1>6, RefundKeeps
<1>7. ASSUME NEW c \in Clients, Start(c) PROVE LedgerInv'
  BY <1>7, StartKeeps
<1>8. ASSUME NEW c \in Clients, Record(c) PROVE LedgerInv'
  BY <1>8, RecordKeeps
<1>9. ASSUME NEW c \in Clients, Release(c) PROVE LedgerInv'
  BY <1>9, ReleaseKeeps
<1>10. ASSUME NEW c \in Clients, Crash(c) PROVE LedgerInv'
  BY <1>10, CrashKeeps
<1>11. CASE Tick
  BY <1>11, TickKeeps
<1>12. CASE UNCHANGED vars
  <2>1. UNCHANGED <<now, leases, queries, millis, pc, loc, count, reserved, sent, crashes>>
    BY <1>12 DEF vars, ledger, history
  <2>2. TypeOK' /\ Counted' /\ Pending'
    BY <2>1 DEF LedgerInv, TypeOK, Counted, Pending
  <2>3. QED
    BY <2>2 DEF LedgerInv
<1>13. QED
  BY <1>1, <1>2, <1>3, <1>4, <1>5, <1>6, <1>7, <1>8, <1>9, <1>10, <1>11, <1>12
  DEF Next

\* The ledger's invariant holds in every reachable state.
THEOREM LedgerCorrect == Spec => []LedgerInv
  BY LedgerInit, LedgerStep, PTL DEF Spec

\* Every reachable state has its type: in particular no refund takes a count
\* below zero.
THEOREM LedgerWellTyped == Spec => []TypeOK
<1>1. LedgerInv => TypeOK
  BY DEF LedgerInv
<1>2. QED
  BY <1>1, LedgerCorrect, PTL

\* The ledger never shows fewer statements than the database was sent on that
\* allowance, for any number of processes, crash, refund or midnight.
THEOREM LedgerIsNoUndercount == Spec => []LedgerNeverUndercounts
<1>1. LedgerInv => LedgerNeverUndercounts
  <2>1. ASSUME LedgerInv, NEW s \in Subjects, NEW d \in Days
        PROVE  Cardinality(sent[s][d]) <= queries[s][d]
    BY <2>1, FS_Subset DEF LedgerInv, Counted
  <2>2. QED
    BY <2>1 DEF LedgerNeverUndercounts
<1>2. QED
  BY <1>1, LedgerCorrect, PTL

\* What one person's requests were sent in a day never exceeds the maintainer's
\* daily allowance.
THEOREM AllowanceHolds == Spec => []DailyLimitHolds
<1>1. LedgerInv => DailyLimitHolds
  <2>1. ASSUME LedgerInv, NEW s \in Subjects, NEW d \in Days
        PROVE  Allows(MaxQueriesPerDay, Cardinality(sent[s][d]))
    <3>1. /\ IsFiniteSet(reserved[s][d]) /\ sent[s][d] \in SUBSET reserved[s][d]
          /\ Allows(MaxQueriesPerDay, Cardinality(reserved[s][d]))
      BY <2>1 DEF LedgerInv, Counted
    <3>2. /\ Cardinality(sent[s][d]) <= Cardinality(reserved[s][d])
          /\ IsFiniteSet(sent[s][d])
      BY <3>1, FS_Subset
    <3>3. Cardinality(sent[s][d]) \in Nat /\ Cardinality(reserved[s][d]) \in Nat
      BY <3>1, <3>2, FS_CardinalityType
    <3>4. QED
      BY <3>1, <3>2, <3>3, BudgetAssumption DEF Allows
  <2>2. QED
    BY <2>1 DEF DailyLimitHolds
<1>2. QED
  BY <1>1, LedgerCorrect, PTL

-----------------------------------------------------------------------------
(* Slots.  Each request that executes has the lease it was granted in the    *)
(* table for as long as it has not expired, and the leases that have not are  *)
(* never more than the limit.  What a request may still do, its lease outlasts *)
(* but for MaxLate.                                                           *)

\* The longest a request may still take: its waiting, the statement under way
\* and those it has still to send.
Remaining(c) ==
  (Waiting - loc[c].waited) + Cardinality(loc[c].slots) * StatementSeconds
    + (IF InDatabase(c) THEN StatementSeconds - loc[c].elapsed ELSE 0)

\* Its lease is in the table, if it has not expired.
Covered(c) ==
  loc[c].expires > now =>
    \E l \in leases : l.holder = c /\ l.nth = loc[c].nth /\ l.expires = loc[c].expires

SlotOf(c) ==
  /\ pc[c] = "reserve" => loc[c].readAt <= now /\ now <= loc[c].readAt + loc[c].waited
  /\ c \in Executing => Covered(c) /\ now + Remaining(c) <= loc[c].expires + MaxLate

SlotInv ==
  /\ IsFiniteSet(leases)
  /\ \A c \in Clients : SlotOf(c)
  /\ LeasesAreSlots

LEMMA LocalTimes ==
  ASSUME LedgerInv, NEW c \in Clients
  PROVE  /\ loc[c].waited \in Nat /\ loc[c].waited <= Waiting
         /\ loc[c].elapsed \in Nat /\ loc[c].elapsed <= StatementSeconds
         /\ loc[c].readAt \in Nat /\ loc[c].readAt <= MaxTime
         /\ now \in Nat /\ Waiting \in Nat /\ StatementSeconds \in Nat
         /\ IsFiniteSet(loc[c].slots) /\ Cardinality(loc[c].slots) \in Nat
         /\ Cardinality(loc[c].slots) * StatementSeconds \in Nat
<1>1. /\ SubjectOf[c] \in Subjects /\ loc[c] \in Local /\ now \in 0..MaxTime
      /\ StatementSeconds \in Nat /\ Waiting \in Nat /\ MaxTime \in Nat
  BY BudgetAssumption DEF LedgerInv, TypeOK, StatementSeconds
<1>2. /\ loc[c].waited \in 0..Waiting /\ loc[c].elapsed \in 0..StatementSeconds
      /\ loc[c].readAt \in 0..MaxTime /\ loc[c].day \in Days
  BY <1>1 DEF Local
<1>3. /\ IsFiniteSet(reserved[SubjectOf[c]][loc[c].day])
      /\ loc[c].slots \in SUBSET reserved[SubjectOf[c]][loc[c].day]
  BY <1>1, <1>2 DEF LedgerInv, Counted, Pending
<1>4. IsFiniteSet(loc[c].slots)
  BY <1>3, FS_Subset
<1>5. Cardinality(loc[c].slots) \in Nat
  BY <1>4, FS_CardinalityType
<1>6. Cardinality(loc[c].slots) * StatementSeconds \in Nat
  BY <1>1, <1>5
<1>7. QED
  BY <1>1, <1>2, <1>4, <1>5, <1>6

LEMMA RemainingIsATime ==
  ASSUME LedgerInv, NEW c \in Clients
  PROVE  Remaining(c) \in Nat
<1> DEFINE owed == Cardinality(loc[c].slots) * StatementSeconds
<1>1. owed \in Nat
  BY LocalTimes
<1> HIDE DEF owed
<1>2. Remaining(c) = (Waiting - loc[c].waited) + owed
                       + (IF InDatabase(c) THEN StatementSeconds - loc[c].elapsed ELSE 0)
  BY DEF Remaining, owed
<1>3. QED
  BY <1>1, <1>2, LocalTimes

Times == \A c \in Clients : Remaining(c) \in Nat

LEMMA MaxLateIsATime == MaxLate \in Int
<1>1. (IF Connecting > Margin THEN 2 ELSE 1) * (Connecting - Margin) \in Int
  BY BudgetAssumption
<1>2. QED
  BY <1>1, BudgetAssumption DEF MaxLate

LEMMA TimesRemain == LedgerInv => Times
  BY RemainingIsATime DEF Times

LEMMA RemainingStaysATime == LedgerInv' => Times'
  BY TimesRemain, PTL

\* The requests executing under an unexpired lease hold a lease each among
\* those of any earlier time.
LEMMA LeasedHoldLeases ==
  ASSUME LedgerInv, SlotInv, NEW t \in Nat, t <= now
  PROVE  /\ IsFiniteSet(Held(t)) /\ IsFiniteSet(Leased)
         /\ Cardinality(Leased) <= Cardinality(Held(t))
<1>1. IsFiniteSet(Held(t))
  BY FS_Subset DEF SlotInv, Held
<1>2. \A c \in Leased : \E l \in Held(t) : l.holder = c
  <2>1. ASSUME NEW c \in Leased
        PROVE  \E l \in Held(t) : l.holder = c
    <3>1. c \in Clients /\ Covered(c) /\ loc[c].expires > now
      BY DEF Leased, Executing, SlotInv, SlotOf
    <3>2. PICK l \in leases : l.holder = c /\ l.expires = loc[c].expires
      BY <3>1 DEF Covered
    <3>3. l.expires \in Nat /\ now \in Nat
      BY DEF LedgerInv, TypeOK, Lease
    <3>4. l.expires > t
      BY <3>1, <3>2, <3>3
    <3>5. QED
      BY <3>2, <3>4 DEF Held
  <2>2. QED
    BY <2>1
<1> DEFINE f == [c \in Leased |-> CHOOSE l \in Held(t) : l.holder = c]
<1>3. \A c \in Leased : f[c] \in Held(t) /\ f[c].holder = c
  BY <1>2
<1>4. f \in Injection(Leased, Held(t))
  BY <1>3 DEF Injection, IsInjective
<1>5. QED
  BY <1>1, <1>4, FS_Injection

\* A step of one process leaves the others what they have, as long as it drops
\* no lease of theirs that has not expired.
LEMMA OthersKeepTheirs ==
  ASSUME LedgerInv, SlotInv, NEW c \in Clients, now' = now,
         \A e \in Clients : e # c => pc'[e] = pc[e] /\ loc'[e] = loc[e],
         \A l \in leases : l.holder # c /\ l.expires > now => l \in leases'
  PROVE  /\ \A e \in Clients : e # c => SlotOf(e)'
         /\ \A e \in Leased' : e # c => e \in Leased
<1>1. ASSUME NEW e \in Clients, e # c PROVE SlotOf(e)' /\ (e \in Leased' => e \in Leased)
  <2>1. pc'[e] = pc[e] /\ loc'[e] = loc[e]
    BY <1>1
  <2>2. Remaining(e)' = Remaining(e)
    BY <2>1 DEF Remaining, InDatabase
  <2>3. SlotOf(e)
    BY DEF SlotInv
  <2>4. ASSUME e \in Executing' PROVE Covered(e)' /\ now' + Remaining(e)' <= loc'[e].expires + MaxLate
    <3>1. e \in Executing
      BY <2>1, <2>4 DEF Executing
    <3>2. ASSUME loc'[e].expires > now'
          PROVE  \E l \in leases' : l.holder = e /\ l.nth = loc'[e].nth /\ l.expires = loc'[e].expires
      <4>1. PICK l \in leases : l.holder = e /\ l.nth = loc[e].nth /\ l.expires = loc[e].expires
        BY <2>1, <2>3, <3>1, <3>2 DEF SlotOf, Covered
      <4>2. l.expires > now
        BY <2>1, <3>2, <4>1
      <4>3. QED
        BY <1>1, <2>1, <4>1, <4>2
    <3>3. now + Remaining(e) <= loc[e].expires + MaxLate
      BY <2>3, <3>1 DEF SlotOf
    <3>4. QED
      BY <2>1, <2>2, <3>2, <3>3 DEF Covered
  <2>5. QED
    BY <2>1, <2>3, <2>4 DEF SlotOf, Leased, Executing
<1>2. QED
  BY <1>1 DEF Leased, Executing

\* A step that admits nobody keeps the limit.
LEMMA NobodyAdmitted ==
  ASSUME LedgerInv, SlotInv, Leased' \subseteq Leased
  PROVE  LeasesAreSlots'
<1>1. now \in Nat
  BY DEF LedgerInv, TypeOK
<1>2. IsFiniteSet(Leased)
  BY <1>1, LeasedHoldLeases
<1>3. /\ Cardinality(Leased') <= Cardinality(Leased)
      /\ IsFiniteSet(Leased')
  BY <1>2, FS_Subset
<1>4. Cardinality(Leased') \in Nat /\ Cardinality(Leased) \in Nat
  BY <1>2, <1>3, FS_CardinalityType
<1>5. QED
  BY <1>3, <1>4, BudgetAssumption DEF SlotInv, LeasesAreSlots, Allows

\* A step that frees a process's slot, or leaves it without one.
LEMMA FreedKeepsSlots ==
  ASSUME LedgerInv, SlotInv, NEW c \in Clients, now' = now,
         pc' = [pc EXCEPT ![c] = "idle"],
         \A e \in Clients : e # c => loc'[e] = loc[e],
         leases' \subseteq leases,
         \A l \in leases : l.holder # c => l \in leases'
  PROVE  SlotInv'
<1>1. pc'[c] = "idle" /\ \A e \in Clients : e # c => pc'[e] = pc[e]
  BY DEF LedgerInv, TypeOK
<1>2. SlotOf(c)' /\ c \notin Leased'
  BY <1>1 DEF SlotOf, Executing, Leased
<1>3. /\ \A e \in Clients : e # c => SlotOf(e)'
      /\ \A e \in Leased' : e # c => e \in Leased
  BY <1>1, OthersKeepTheirs
<1>4. Leased' \subseteq Leased
  BY <1>2, <1>3
<1>5. IsFiniteSet(leases')
  BY FS_Subset DEF SlotInv
<1>6. QED
  BY <1>2, <1>3, <1>4, <1>5, NobodyAdmitted DEF SlotInv

\* A step within a request that takes none of the time it still has.
LEMMA WithinRequestKeepsSlots ==
  ASSUME LedgerInv, LedgerInv', SlotInv, NEW c \in Clients, now' = now, leases' = leases,
         c \in Executing, pc'[c] # "reserve",
         \A e \in Clients : e # c => pc'[e] = pc[e] /\ loc'[e] = loc[e],
         loc'[c].nth = loc[c].nth, loc'[c].expires = loc[c].expires,
         Remaining(c)' <= Remaining(c)
  PROVE  SlotInv'
<1>1. SlotOf(c)'
  <2>1. Covered(c) /\ now + Remaining(c) <= loc[c].expires + MaxLate
    BY DEF SlotInv, SlotOf
  <2>2. /\ now \in Nat /\ Remaining(c) \in Nat /\ Remaining(c)' \in Nat
        /\ loc[c].expires \in Nat /\ MaxLate \in Int
    BY RemainingIsATime, RemainingStaysATime, MaxLateIsATime
       DEF Times, LedgerInv, TypeOK, Local
  <2>3. Covered(c)'
    BY <2>1 DEF Covered
  <2>4. now' + Remaining(c)' <= loc'[c].expires + MaxLate
    BY <2>1, <2>2
  <2>5. QED
    BY <2>3, <2>4 DEF SlotOf
<1>2. /\ \A e \in Clients : e # c => SlotOf(e)'
      /\ \A e \in Leased' : e # c => e \in Leased
  BY OthersKeepTheirs
<1>3. Leased' \subseteq Leased
  BY <1>2 DEF Leased
<1>4. QED
  BY <1>1, <1>2, <1>3, NobodyAdmitted DEF SlotInv

LEMMA BeginKeepsSlots ==
  ASSUME LedgerInv, LedgerInv', SlotInv, NEW c \in Clients, NEW n \in 1..2, Begin(c, n)
  PROVE  SlotInv'
<1>1. /\ pc'[c] = "reserve" /\ pc[c] = "idle" /\ loc'[c].readAt = now /\ loc'[c].waited = 0
      /\ \A e \in Clients : e # c => pc'[e] = pc[e] /\ loc'[e] = loc[e]
      /\ now' = now /\ leases' = leases /\ now \in Nat
  BY DEF LedgerInv, TypeOK, Begin, Goto, Asking, ledger
<1>2. SlotOf(c)' /\ c \notin Leased'
  BY <1>1 DEF SlotOf, Executing, Leased
<1>3. /\ \A e \in Clients : e # c => SlotOf(e)'
      /\ \A e \in Leased' : e # c => e \in Leased
  BY <1>1, OthersKeepTheirs
<1>4. Leased' \subseteq Leased
  BY <1>2, <1>3
<1>5. QED
  BY <1>1, <1>2, <1>3, <1>4, NobodyAdmitted DEF SlotInv

\* The lease a request is admitted with outlasts it but for MaxLate.
LEMMA LeaseOutlasts ==
  ASSUME NEW q \in 1..2, NEW t \in Nat, NEW w \in Nat, NEW u \in Nat,
         w <= Waiting, u <= t + w
  PROVE  u + ((Waiting - w) + q * StatementSeconds) <= t + LeaseSeconds * q + MaxLate
<1>1. q * StatementSeconds = q * Timeout + q * Connecting
  BY BudgetAssumption DEF StatementSeconds
<1>2. LeaseSeconds * q = q * Timeout + q * Margin
  BY BudgetAssumption DEF LeaseSeconds
<1>3. q * Timeout \in Nat
  BY BudgetAssumption
<1>4. CASE q = 1
  BY <1>1, <1>2, <1>3, <1>4, BudgetAssumption DEF MaxLate
<1>5. CASE q = 2
  BY <1>1, <1>2, <1>3, <1>5, BudgetAssumption DEF MaxLate
<1>6. QED
  BY <1>4, <1>5

LEMMA ReserveKeepsSlots ==
  ASSUME LedgerInv, LedgerInv', SlotInv, NEW c \in Clients, Reserve(c)
  PROVE  SlotInv'
<1> DEFINE t == loc[c].readAt
           q == loc[c].asks
           slots == Unused(reserved[SubjectOf[c]][DayOf(t)], q)
           new == [holder |-> c, nth |-> crashes, expires |-> Expiry(c)]
<1>1. CASE ~ Within(c)
  <2>1. /\ pc' = [pc EXCEPT ![c] = "idle"] /\ leases' = leases /\ now' = now
        /\ \A e \in Clients : e # c => loc'[e] = loc[e]
    BY <1>1 DEF LedgerInv, TypeOK, Reserve, Return, Goto
  <2>2. QED
    BY <2>1, FreedKeepsSlots
<1>2. CASE Within(c)
  <2>1. /\ leases' = Held(t) \cup {new} /\ now' = now
        /\ loc' = [loc EXCEPT ![c] = Granted(new, DayOf(t), slots, loc[c].waited)]
        /\ pc' = [pc EXCEPT ![c] = IF c \in Askers THEN "ready" ELSE "claim"]
        /\ pc[c] = "reserve"
    BY <1>2 DEF Reserve, Goto
  <2>2. /\ q \in 1..2 /\ t \in Nat /\ t <= now /\ now <= t + loc[c].waited
        /\ t \in 0..MaxTime
        /\ loc[c].waited \in Nat /\ loc[c].waited <= Waiting /\ now \in Nat
    BY <2>1, LocalTimes DEF LedgerInv, TypeOK, Local, Pending, SlotInv, SlotOf
  <2>3. Cardinality(slots) = q
    <3>1. DayOf(t) \in Days /\ SubjectOf[c] \in Subjects
      BY <2>2, DaysAreDays, BudgetAssumption
    <3>2. /\ reserved[SubjectOf[c]][DayOf(t)] \in SUBSET Nat
          /\ IsFiniteSet(reserved[SubjectOf[c]][DayOf(t)])
      BY <3>1 DEF LedgerInv, TypeOK, Counted
    <3>3. QED
      BY <2>2, <3>2, UnusedNumbers
  <2>4. Allows(MaxConcurrent, Cardinality(Held(t)) + 1)
    BY <1>2 DEF Within, SlotFree
  <2>5. Expiry(c) = t + LeaseSeconds * q
    BY DEF Expiry
  <2> HIDE DEF slots, t, q
  <2>6. /\ loc'[c] = Granted(new, DayOf(t), slots, loc[c].waited)
        /\ pc'[c] \in {"ready", "claim"}
        /\ \A e \in Clients : e # c => pc'[e] = pc[e] /\ loc'[e] = loc[e]
    BY <2>1 DEF LedgerInv, TypeOK
  <2>7. Remaining(c)' = (Waiting - loc[c].waited) + q * StatementSeconds
    <3>1. ~ InDatabase(c)' /\ loc'[c].slots = slots /\ loc'[c].waited = loc[c].waited
      BY <2>6 DEF InDatabase, Granted
    <3>2. q * StatementSeconds \in Nat
      BY <2>2, BudgetAssumption DEF StatementSeconds
    <3>3. QED
      BY <2>2, <2>3, <3>1, <3>2, BudgetAssumption DEF Remaining
  <2>8. Covered(c)' /\ now' + Remaining(c)' <= loc'[c].expires + MaxLate
    <3>1. new.holder = c /\ new.nth = crashes /\ new.expires = t + LeaseSeconds * q
      BY <2>5
    <3>2. loc'[c].nth = new.nth /\ loc'[c].expires = new.expires
      BY <2>6 DEF Granted
    <3>3. now' + Remaining(c)' <= new.expires + MaxLate
      BY <2>1, <2>2, <2>7, <3>1, LeaseOutlasts
    <3>4. QED
      BY <2>1, <3>1, <3>2, <3>3 DEF Covered
  <2>9. SlotOf(c)'
    BY <2>6, <2>8 DEF SlotOf
  <2>10. /\ \A e \in Clients : e # c => SlotOf(e)'
         /\ \A e \in Leased' : e # c => e \in Leased
    <3>1. \A l \in leases : l.holder # c /\ l.expires > now => l \in leases'
      BY <2>1, <2>2 DEF Held, LedgerInv, TypeOK, Lease
    <3>2. QED
      BY <2>1, <2>6, <3>1, OthersKeepTheirs
  <2>11. /\ IsFiniteSet(Held(t)) /\ IsFiniteSet(Leased)
         /\ Cardinality(Leased) <= Cardinality(Held(t))
    BY <2>2, LeasedHoldLeases
  <2>12. IsFiniteSet(leases')
    BY <2>1, <2>11, FS_AddElement
  <2>13. Leased' \subseteq Leased \cup {c} /\ c \notin Leased
    BY <2>1, <2>10 DEF Leased, Executing
  <2>14. /\ Cardinality(Leased \cup {c}) = Cardinality(Leased) + 1
         /\ IsFiniteSet(Leased \cup {c})
    BY <2>11, <2>13, FS_AddElement
  <2>15. /\ Cardinality(Leased') <= Cardinality(Leased) + 1
         /\ IsFiniteSet(Leased')
    BY <2>13, <2>14, FS_Subset
  <2>16. /\ Cardinality(Leased) \in Nat /\ Cardinality(Held(t)) \in Nat
         /\ Cardinality(Leased') \in Nat
    BY <2>11, <2>15, FS_CardinalityType
  <2>17. LeasesAreSlots'
    BY <2>4, <2>11, <2>15, <2>16, BudgetAssumption DEF LeasesAreSlots, Allows
  <2>18. QED
    BY <2>9, <2>10, <2>12, <2>17 DEF SlotInv
<1>3. QED
  BY <1>1, <1>2

LEMMA RefundKeepsSlots ==
  ASSUME LedgerInv, LedgerInv', SlotInv, NEW c \in Clients, Claim(c) \/ Refund(c)
  PROVE  SlotInv'
<1>1. /\ c \in Executing /\ pc'[c] # "reserve" /\ now' = now /\ leases' = leases
      /\ \A e \in Clients : e # c => pc'[e] = pc[e] /\ loc'[e] = loc[e]
      /\ loc'[c].nth = loc[c].nth /\ loc'[c].waited = loc[c].waited
      /\ loc'[c].expires = loc[c].expires
      /\ ~ InDatabase(c) /\ ~ InDatabase(c)'
      /\ loc'[c].slots = {} \/ loc'[c].slots = loc[c].slots
  BY DEF LedgerInv, TypeOK, Local, Claim, Refund, Goto, Executing, InDatabase, ledger
<1> DEFINE owed == Cardinality(loc[c].slots) * StatementSeconds
<1>2. /\ owed \in Nat /\ Cardinality(loc'[c].slots) * StatementSeconds <= owed
      /\ Cardinality(loc'[c].slots) * StatementSeconds \in Nat
  <2>1. CASE loc'[c].slots = {}
    <3>1. Cardinality(loc'[c].slots) = 0
      BY <2>1, FS_EmptySet
    <3>2. Cardinality(loc'[c].slots) * StatementSeconds = 0
      BY <3>1, LocalTimes
    <3>3. QED
      BY <3>2, LocalTimes
  <2>2. CASE loc'[c].slots = loc[c].slots
    BY <2>2, LocalTimes
  <2>3. QED
    BY <1>1, <2>1, <2>2
<1>3. Cardinality(loc'[c].slots) * StatementSeconds \in Nat
  BY <1>2
<1>4. Remaining(c) = (Waiting - loc[c].waited) + owed
  BY <1>1, <1>2, LocalTimes DEF Remaining
<1>5. Remaining(c)' = (Waiting - loc[c].waited) + Cardinality(loc'[c].slots) * StatementSeconds
  BY <1>1, <1>3, LocalTimes DEF Remaining
<1> HIDE DEF owed
<1>6. Remaining(c)' <= Remaining(c)
  BY <1>2, <1>3, <1>4, <1>5, LocalTimes
<1>7. QED
  BY <1>1, <1>6, WithinRequestKeepsSlots

LEMMA StartKeepsSlots ==
  ASSUME LedgerInv, LedgerInv', SlotInv, NEW c \in Clients, Start(c)
  PROVE  SlotInv'
<1> DEFINE slot == CHOOSE n \in loc[c].slots : TRUE
<1>1. slot \in loc[c].slots
  BY DEF LedgerInv, Pending, Start
<1>2. /\ c \in Executing /\ pc'[c] # "reserve" /\ now' = now /\ leases' = leases
      /\ \A e \in Clients : e # c => pc'[e] = pc[e] /\ loc'[e] = loc[e]
      /\ loc'[c].nth = loc[c].nth /\ loc'[c].waited = loc[c].waited
      /\ loc'[c].expires = loc[c].expires
      /\ loc'[c].elapsed = loc[c].elapsed
      /\ ~ InDatabase(c) /\ InDatabase(c)'
      /\ loc'[c].slots = loc[c].slots \ {slot}
  BY DEF LedgerInv, TypeOK, Local, Start, Goto, Executing, InDatabase, ledger
<1> HIDE DEF slot
<1> DEFINE n == Cardinality(loc[c].slots)
           S == StatementSeconds
<1>3. n \in Nat /\ S \in Nat /\ n * S \in Nat /\ loc[c].elapsed \in Nat /\ loc[c].elapsed <= S
  BY LocalTimes
<1>4. Cardinality(loc'[c].slots) = n - 1
  BY <1>1, <1>2, LocalTimes, FS_RemoveElement
<1>5. (n - 1) * S = n * S - S
  BY <1>3
<1>6. Remaining(c) = (Waiting - loc[c].waited) + n * S
  BY <1>2, <1>3, LocalTimes DEF Remaining
<1>7. Remaining(c)' = (Waiting - loc[c].waited) + (n - 1) * S + (S - loc[c].elapsed)
  BY <1>2, <1>4 DEF Remaining
<1> HIDE DEF n, S
<1>8. Remaining(c)' <= Remaining(c)
  BY <1>3, <1>5, <1>6, <1>7, LocalTimes
<1>9. QED
  BY <1>2, <1>8, WithinRequestKeepsSlots

LEMMA RecordKeepsSlots ==
  ASSUME LedgerInv, LedgerInv', SlotInv, NEW c \in Clients, Record(c)
  PROVE  SlotInv'
<1>1. /\ c \in Executing /\ pc'[c] # "reserve" /\ now' = now /\ leases' = leases
      /\ \A e \in Clients : e # c => pc'[e] = pc[e] /\ loc'[e] = loc[e]
      /\ loc'[c].nth = loc[c].nth /\ loc'[c].waited = loc[c].waited
      /\ loc'[c].expires = loc[c].expires
      /\ InDatabase(c) /\ ~ InDatabase(c)'
      /\ loc'[c].slots = loc[c].slots
  BY DEF LedgerInv, TypeOK, Local, Record, Goto, Executing, InDatabase
<1> DEFINE owed == Cardinality(loc[c].slots) * StatementSeconds
<1>2. owed \in Nat
  BY LocalTimes
<1>3. Remaining(c) = (Waiting - loc[c].waited) + owed + (StatementSeconds - loc[c].elapsed)
  BY <1>1 DEF Remaining
<1>4. Remaining(c)' = (Waiting - loc[c].waited) + owed + 0
  BY <1>1 DEF Remaining
<1> HIDE DEF owed
<1>5. Remaining(c)' <= Remaining(c)
  BY <1>2, <1>3, <1>4, LocalTimes
<1>6. QED
  BY <1>1, <1>5, WithinRequestKeepsSlots

LEMMA CrashKeepsSlots ==
  ASSUME LedgerInv, LedgerInv', SlotInv, NEW c \in Clients, Crash(c)
  PROVE  SlotInv'
<1>1. now' = now /\ leases' = leases
  BY DEF Crash, ledger
<1>2. CASE pc[c] = "running"
  <2>1. /\ c \in Executing /\ pc'[c] = "orphan" /\ loc' = loc
        /\ \A e \in Clients : e # c => pc'[e] = pc[e]
        /\ InDatabase(c) /\ InDatabase(c)'
    BY <1>2 DEF LedgerInv, TypeOK, Crash, Goto, Executing, InDatabase
  <2>2. Remaining(c)' = Remaining(c)
    BY <2>1 DEF Remaining
  <2>3. Remaining(c) \in Nat
    BY RemainingIsATime
  <2>4. QED
    BY <1>1, <2>1, <2>2, <2>3, WithinRequestKeepsSlots
<1>3. CASE pc[c] # "running"
  <2>1. pc' = [pc EXCEPT ![c] = "idle"] /\ \A e \in Clients : e # c => loc'[e] = loc[e]
    BY <1>3 DEF LedgerInv, TypeOK, Crash, Return, Goto
  <2>2. QED
    BY <1>1, <2>1, FreedKeepsSlots
<1>4. QED
  BY <1>2, <1>3

LEMMA ReturnKeepsSlots ==
  ASSUME LedgerInv, SlotInv, NEW c \in Clients,
         GiveUp(c) \/ OrphanEnds(c) \/ Release(c)
  PROVE  SlotInv'
<1>1. /\ Return(c) /\ now' = now
      /\ leases' \subseteq leases /\ \A l \in leases : l.holder # c => l \in leases'
  BY DEF GiveUp, OrphanEnds, Release, ledger
<1>2. pc' = [pc EXCEPT ![c] = "idle"] /\ \A e \in Clients : e # c => loc'[e] = loc[e]
  BY <1>1 DEF LedgerInv, TypeOK, Return, Goto
<1>3. QED
  BY <1>1, <1>2, FreedKeepsSlots

LEMMA TickKeepsSlots ==
  ASSUME LedgerInv, LedgerInv', SlotInv, Tick
  PROVE  SlotInv'
<1>1. /\ now' = now + 1 /\ leases' = leases /\ pc' = pc /\ now \in Nat
      /\ \A c \in Clients : loc'[c] = Lasted(c) /\ MayLast(c)
  BY DEF LedgerInv, TypeOK, Tick, ledger
<1>2. ASSUME NEW c \in Clients PROVE SlotOf(c)'
  <2>1. /\ loc[c] \in Local /\ SlotOf(c) /\ loc'[c] = Lasted(c)
        /\ InDatabase(c)' <=> InDatabase(c)
    BY <1>1 DEF LedgerInv, TypeOK, SlotInv, InDatabase
  <2>2. CASE pc[c] = "idle"
    BY <1>1, <2>2 DEF SlotOf, Executing
  <2>3. CASE pc[c] = "reserve"
    <3>1. loc'[c].waited = loc[c].waited + 1 /\ loc'[c].readAt = loc[c].readAt
      BY <2>1, <2>3 DEF Lasted, InDatabase, Local
    <3>2. QED
      BY <1>1, <2>1, <2>3, <3>1, LocalTimes DEF SlotOf, Executing
  <2>4. CASE pc[c] \notin {"idle", "reserve"}
    <3> DEFINE owed == Cardinality(loc[c].slots) * StatementSeconds
    <3>1. /\ loc'[c].slots = loc[c].slots /\ loc'[c].nth = loc[c].nth
          /\ loc'[c].expires = loc[c].expires
          /\ InDatabase(c) => loc'[c].elapsed = loc[c].elapsed + 1 /\ loc'[c].waited = loc[c].waited
          /\ ~ InDatabase(c) => loc'[c].waited = loc[c].waited + 1
      BY <2>1, <2>4 DEF Lasted, Local
    <3>2. owed \in Nat
      BY LocalTimes
    <3>3. Remaining(c) = (Waiting - loc[c].waited) + owed
            + (IF InDatabase(c) THEN StatementSeconds - loc[c].elapsed ELSE 0)
      BY DEF Remaining
    <3>4. Remaining(c)' = (Waiting - loc'[c].waited) + owed
            + (IF InDatabase(c) THEN StatementSeconds - loc'[c].elapsed ELSE 0)
      BY <2>1, <3>1 DEF Remaining
    <3> HIDE DEF owed
    <3>5. Remaining(c)' = Remaining(c) - 1
      BY <3>1, <3>2, <3>3, <3>4, LocalTimes
    <3>6. Covered(c) /\ now + Remaining(c) <= loc[c].expires + MaxLate
      BY <2>1, <2>4 DEF SlotOf, Executing
    <3>7. loc[c].expires \in Nat /\ Remaining(c) \in Nat /\ MaxLate \in Int
      BY <2>1, RemainingIsATime, MaxLateIsATime DEF Local
    <3>8. now' + Remaining(c)' <= loc'[c].expires + MaxLate
      BY <1>1, <3>1, <3>5, <3>6, <3>7
    <3>9. Covered(c)'
      <4>1. loc'[c].expires > now' => loc[c].expires > now
        BY <1>1, <3>1, <3>7
      <4>2. QED
        BY <1>1, <3>1, <3>6, <4>1 DEF Covered
    <3>10. QED
      BY <1>1, <2>4, <3>8, <3>9 DEF SlotOf
  <2>5. QED
    BY <2>2, <2>3, <2>4
<1>3. Leased' \subseteq Leased
  <2>1. ASSUME NEW c \in Leased' PROVE c \in Leased
    <3>1. c \in Clients /\ c \in Executing /\ loc'[c].expires > now'
      BY <1>1 DEF Leased, Executing
    <3>2. loc[c] \in Local /\ loc[c].expires \in Nat
      BY <3>1 DEF LedgerInv, TypeOK, Local
    <3>3. loc'[c].expires = loc[c].expires
      BY <1>1, <3>1, <3>2 DEF Lasted, Local
    <3>4. QED
      BY <1>1, <3>1, <3>2, <3>3 DEF Leased
  <2>2. QED
    BY <2>1
<1>4. QED
  BY <1>1, <1>2, <1>3, NobodyAdmitted DEF SlotInv

LEMMA SlotInit == Init => SlotInv
<1> SUFFICES ASSUME Init PROVE SlotInv
  OBVIOUS
<1>1. Leased = {} /\ Executing = {} /\ \A c \in Clients : pc[c] = "idle"
  BY DEF Init, Executing, Leased
<1>2. LeasesAreSlots
  BY <1>1, FS_EmptySet, BudgetAssumption DEF LeasesAreSlots, Allows
<1>3. QED
  BY <1>1, <1>2, FS_EmptySet DEF Init, SlotInv, SlotOf

LEMMA SlotStep ==
  ASSUME LedgerInv, LedgerInv', SlotInv, [Next]_vars
  PROVE  SlotInv'
<1>1. ASSUME NEW c \in Clients, StartRequest(c) \/ UNCHANGED vars PROVE SlotInv'
  <2>1. UNCHANGED <<now, leases, pc, loc>>
    BY <1>1 DEF StartRequest, vars, ledger
  <2>2. QED
    BY <2>1 DEF SlotInv, SlotOf, Covered, Remaining, InDatabase, Executing, Leased,
                LeasesAreSlots
<1>2. ASSUME NEW c \in Clients, NEW n \in 1..2, Begin(c, n) PROVE SlotInv'
  BY <1>2, BeginKeepsSlots
<1>3. ASSUME NEW c \in Clients, Reserve(c) PROVE SlotInv'
  BY <1>3, ReserveKeepsSlots
<1>4. ASSUME NEW c \in Clients, GiveUp(c) \/ OrphanEnds(c) \/ Release(c) PROVE SlotInv'
  BY <1>4, ReturnKeepsSlots
<1>5. ASSUME NEW c \in Clients, Claim(c) \/ Refund(c) PROVE SlotInv'
  BY <1>5, RefundKeepsSlots
<1>6. ASSUME NEW c \in Clients, Start(c) PROVE SlotInv'
  BY <1>6, StartKeepsSlots
<1>7. ASSUME NEW c \in Clients, Record(c) PROVE SlotInv'
  BY <1>7, RecordKeepsSlots
<1>8. ASSUME NEW c \in Clients, Crash(c) PROVE SlotInv'
  BY <1>8, CrashKeepsSlots
<1>9. CASE Tick
  BY <1>9, TickKeepsSlots
<1>10. CASE UNCHANGED vars
  <2>1. UNCHANGED <<now, leases, pc, loc>>
    BY <1>10 DEF vars, ledger
  <2>2. QED
    BY <2>1 DEF SlotInv, SlotOf, Covered, Remaining, InDatabase, Executing, Leased,
                LeasesAreSlots
<1>11. QED
  BY <1>1, <1>2, <1>3, <1>4, <1>5, <1>6, <1>7, <1>8, <1>9, <1>10 DEF Next

LEMMA SlotsCorrect == Spec => []SlotInv
<1>1. LedgerInv /\ LedgerInv' /\ SlotInv /\ [Next]_vars => SlotInv'
  BY SlotStep
<1>2. QED
  BY <1>1, SlotInit, LedgerCorrect, PTL DEF Spec

\* Whatever connecting, moving rows and waiting for the file take, however many
\* processes there are and whatever is killed: no more requests execute under a
\* lease that has not expired than the limit allows (budget.py _check).
THEOREM LeasesAreExclusive == Spec => []LeasesAreSlots
<1>1. SlotInv => LeasesAreSlots
  BY DEF SlotInv
<1>2. QED
  BY <1>1, SlotsCorrect, PTL

\* A request goes on under a lease that has expired for no longer than the wait
\* for the file and what two statements take to connect beyond the margin; not at
\* all where the margin is above both.
THEOREM LeasesAreHardlyOutlived == Spec => []LeasesAreOutlivedBriefly
<1>1. LedgerInv /\ SlotInv => LeasesAreOutlivedBriefly
  <2> SUFFICES ASSUME LedgerInv, SlotInv, NEW c \in Executing
               PROVE  now <= loc[c].expires + MaxLate
    BY DEF LeasesAreOutlivedBriefly
  <2>1. c \in Clients
    BY DEF Executing
  <2>2. now + Remaining(c) <= loc[c].expires + MaxLate
    BY <2>1 DEF SlotInv, SlotOf
  <2>3. now \in Nat /\ loc[c].expires \in Nat /\ Remaining(c) \in Nat /\ MaxLate \in Int
    BY <2>1, RemainingIsATime, MaxLateIsATime DEF LedgerInv, TypeOK, Local
  <2>4. QED
    BY <2>2, <2>3
<1>2. QED
  BY <1>1, SlotsCorrect, LedgerCorrect, PTL

-----------------------------------------------------------------------------
(* Seconds.  Time is checked once for a request, against what is charged so  *)
(* far; what the requests admitted by then can still take comes on top.  The *)
(* invariant bounds both together: a statement that is recorded moves from   *)
(* the second to the first, and only an admission adds to the second.        *)

\* The statements a request may still be charged: those it has not sent and the
\* one under way.
Due(c) == Cardinality(loc[c].slots) + (IF InDatabase(c) THEN 1 ELSE 0)

\* Those of one allowance, counted within each request.
Chargeable(s, d) ==
  {x \in Executing \X {1, 2} :
     SubjectOf[x[1]] = s /\ loc[x[1]].day = d /\ x[2] <= Due(x[1])}

SecondsBound(s) == MaxSecondsPerDay + Cardinality(UnderWay(s)) * StatementSeconds

SecondsLeft(s, d) ==
  millis[s][d] + Cardinality(Chargeable(s, d)) * StatementSeconds < SecondsBound(s)

\* The most statements one request is admitted with.
Most(c) == IF c \in Runners THEN 2 ELSE 1

Asked == \A c \in Clients : pc[c] = "reserve" => loc[c].asks <= Most(c)

SecondsInv ==
  /\ \A c \in Executing : Due(c) <= Most(c)
  /\ MaxSecondsPerDay # 0 => \A s \in Subjects, d \in Days : SecondsLeft(s, d)

LEMMA DueIsACount ==
  ASSUME LedgerInv, NEW c \in Clients
  PROVE  Due(c) \in Nat
  BY LocalTimes DEF Due

\* They are among those the person's processes may have under way.
LEMMA UnderWayIsFinite ==
  ASSUME NEW s
  PROVE  IsFiniteSet(UnderWay(s)) /\ Cardinality(UnderWay(s)) \in Nat
<1>1. IsFiniteSet({1, 2})
  <2>1. IsFiniteSet({1}) /\ {1, 2} = {1} \cup {2}
    BY FS_Singleton
  <2>2. QED
    BY <2>1, FS_AddElement
<1>2. IsFiniteSet(Clients \X {1, 2})
  BY <1>1, BudgetAssumption, FS_Product
<1>3. IsFiniteSet(UnderWay(s))
  BY <1>2, FS_Subset DEF UnderWay
<1>4. QED
  BY <1>3, FS_CardinalityType

LEMMA ChargeableIsFinite ==
  ASSUME NEW s, NEW d
  PROVE  IsFiniteSet(Chargeable(s, d)) /\ Cardinality(Chargeable(s, d)) \in Nat
<1>1. IsFiniteSet({1, 2})
  <2>1. IsFiniteSet({1}) /\ {1, 2} = {1} \cup {2}
    BY FS_Singleton
  <2>2. QED
    BY <2>1, FS_AddElement
<1>2. IsFiniteSet(Executing)
  BY BudgetAssumption, FS_Subset DEF Executing
<1>3. IsFiniteSet(Executing \X {1, 2})
  BY <1>1, <1>2, FS_Product
<1>4. IsFiniteSet(Chargeable(s, d))
  BY <1>3, FS_Subset DEF Chargeable
<1>5. QED
  BY <1>4, FS_CardinalityType

LEMMA ChargeableIsUnderWay ==
  ASSUME NEW s, NEW d, \A c \in Executing : Due(c) \in Nat /\ Due(c) <= Most(c)
  PROVE  Cardinality(Chargeable(s, d)) <= Cardinality(UnderWay(s))
<1>1. ASSUME NEW x \in Chargeable(s, d) PROVE x \in UnderWay(s)
  <2>1. /\ x \in Executing \X {1, 2} /\ SubjectOf[x[1]] = s /\ x[2] <= Due(x[1])
    BY <1>1 DEF Chargeable
  <2>2. x[1] \in Executing /\ x[2] \in {1, 2} /\ x[1] \in Clients
    BY <2>1 DEF Executing
  <2>3. x[2] = 1 \/ x[1] \in Runners
    <3>1. CASE x[1] \notin Runners
      <4>1. Due(x[1]) \in Nat /\ Due(x[1]) <= 1
        BY <2>2, <3>1 DEF Most
      <4>2. QED
        BY <2>1, <2>2, <4>1
    <3>2. QED
      BY <3>1
  <2>4. QED
    BY <2>1, <2>2, <2>3 DEF UnderWay
<1>2. Chargeable(s, d) \subseteq UnderWay(s)
  BY <1>1
<1>3. QED
  BY <1>2, UnderWayIsFinite, FS_Subset

\* The same of the next state, for the bound after an admission.
CountsAreFinite ==
  \A s \in Subjects, d \in Days :
    /\ Cardinality(Chargeable(s, d)) \in Nat
    /\ (\A c \in Executing : Due(c) \in Nat /\ Due(c) <= Most(c)) =>
         Cardinality(Chargeable(s, d)) <= Cardinality(UnderWay(s))

LEMMA CountsAlwaysFinite == TRUE => CountsAreFinite
  BY ChargeableIsFinite, ChargeableIsUnderWay DEF CountsAreFinite

LEMMA CountsStayFinite == CountsAreFinite'
  BY CountsAlwaysFinite, PTL

\* What one process's step does to the counts of one allowance.
LEMMA FewerKeepSeconds ==
  ASSUME NEW n \in Nat, NEW m \in Nat, NEW w \in Nat, NEW S \in Nat, NEW b \in Nat,
         m <= n, w + n * S < b
  PROVE  w + m * S < b
<1>1. m * S <= n * S /\ m * S \in Nat /\ n * S \in Nat
  OBVIOUS
<1>2. QED
  BY <1>1

LEMMA OneFewerPays ==
  ASSUME NEW n \in Nat, NEW w \in Nat, NEW S \in Nat, NEW b \in Nat, NEW e \in Nat,
         e <= S, n >= 1, w + n * S < b
  PROVE  (w + e) + (n - 1) * S < b
<1>1. n * S = (n - 1) * S + S /\ (n - 1) * S \in Nat /\ n * S \in Nat
  OBVIOUS
<1>2. QED
  BY <1>1

LEMMA SecondsTyped ==
  /\ StatementSeconds \in Nat
  /\ \A s \in Subjects : SecondsBound(s) \in Nat
  /\ \A c \in Clients : Most(c) \in 1..2
  /\ LedgerInv => \A s \in Subjects, d \in Days : millis[s][d] \in Nat
<1>1. StatementSeconds \in Nat /\ MaxSecondsPerDay \in Nat
  BY BudgetAssumption DEF StatementSeconds
<1>2. ASSUME NEW s \in Subjects PROVE SecondsBound(s) \in Nat
  <2>1. Cardinality(UnderWay(s)) * StatementSeconds \in Nat
    BY <1>1, UnderWayIsFinite
  <2>2. QED
    BY <1>1, <2>1 DEF SecondsBound
<1>3. QED
  BY <1>1, <1>2 DEF Most, LedgerInv, TypeOK

\* A step that charges nothing and admits no request.
LEMMA NothingCharged ==
  ASSUME LedgerInv, SecondsInv, millis' = millis,
         \A c \in Executing' : /\ c \in Executing
                               /\ Due(c)' <= Due(c) /\ Due(c)' \in Nat
                               /\ loc'[c].day = loc[c].day
  PROVE  SecondsInv'
<1>1. \A c \in Executing' : Due(c)' <= Most(c)
  <2>1. ASSUME NEW c \in Executing' PROVE Due(c)' <= Most(c)
    <3>1. /\ c \in Executing /\ c \in Clients /\ Due(c) \in Nat /\ Due(c) <= Most(c)
          /\ Due(c)' \in Nat /\ Due(c)' <= Due(c)
      BY DueIsACount DEF SecondsInv, Executing
    <3>2. Most(c) \in 1..2
      BY <3>1, SecondsTyped
    <3>3. QED
      BY <3>1, <3>2
  <2>2. QED
    BY <2>1
<1>2. ASSUME MaxSecondsPerDay # 0, NEW s \in Subjects, NEW d \in Days
      PROVE  SecondsLeft(s, d)'
  <2>1. Chargeable(s, d)' \subseteq Chargeable(s, d)
    <3>1. ASSUME NEW x \in Chargeable(s, d)'
          PROVE  x \in Chargeable(s, d)
      <4>1. x \in Executing' \X {1, 2} /\ x[2] <= Due(x[1])' /\ SubjectOf[x[1]] = s
            /\ loc'[x[1]].day = d
        BY DEF Chargeable
      <4>2. /\ x[1] \in Executing /\ Due(x[1])' <= Due(x[1]) /\ Due(x[1])' \in Nat
            /\ loc[x[1]].day = d
        BY <4>1
      <4>3. Due(x[1]) \in Nat /\ x[2] \in Nat
        BY <4>1, <4>2, DueIsACount DEF Executing
      <4>4. x[2] <= Due(x[1])
        BY <4>1, <4>2, <4>3
      <4>5. QED
        BY <4>1, <4>2, <4>4 DEF Chargeable
    <3>2. QED
      BY <3>1
  <2>2. Cardinality(Chargeable(s, d)') <= Cardinality(Chargeable(s, d))
    BY <2>1, ChargeableIsFinite, FS_Subset
  <2>3. Cardinality(Chargeable(s, d)') \in Nat /\ Cardinality(Chargeable(s, d)) \in Nat
    BY ChargeableIsFinite, CountsStayFinite DEF CountsAreFinite
  <2>4. millis[s][d] + Cardinality(Chargeable(s, d)) * StatementSeconds < SecondsBound(s)
    BY <1>2 DEF SecondsInv, SecondsLeft
  <2>5. millis[s][d] + Cardinality(Chargeable(s, d)') * StatementSeconds < SecondsBound(s)
    BY <2>2, <2>3, <2>4, SecondsTyped, FewerKeepSeconds
  <2>6. QED
    BY <2>5 DEF SecondsLeft
<1>3. QED
  BY <1>1, <1>2 DEF SecondsInv

\* A process that is not executing after its step has nothing to be charged; the
\* others keep what they had.
LEMMA OthersKeepDue ==
  ASSUME LedgerInv, NEW c \in Clients,
         \A e \in Clients : e # c => pc'[e] = pc[e] /\ loc'[e] = loc[e]
  PROVE  \A e \in Clients : e # c =>
           /\ e \in Executing' <=> e \in Executing
           /\ Due(e)' = Due(e) /\ Due(e)' \in Nat
           /\ loc'[e].day = loc[e].day
<1> SUFFICES ASSUME NEW e \in Clients, e # c
             PROVE  /\ e \in Executing' <=> e \in Executing
                    /\ Due(e)' = Due(e) /\ Due(e)' \in Nat
                    /\ loc'[e].day = loc[e].day
  OBVIOUS
<1>1. pc'[e] = pc[e] /\ loc'[e] = loc[e]
  OBVIOUS
<1>2. Due(e)' = Due(e)
  BY <1>1 DEF Due, InDatabase
<1>3. QED
  BY <1>1, <1>2, DueIsACount DEF Executing

LEMMA NotExecutingKeepsSeconds ==
  ASSUME LedgerInv, SecondsInv, NEW c \in Clients, millis' = millis,
         pc'[c] \in {"idle", "reserve"},
         \A e \in Clients : e # c => pc'[e] = pc[e] /\ loc'[e] = loc[e]
  PROVE  SecondsInv'
<1>1. c \notin Executing'
  BY DEF Executing
<1>2. \A e \in Executing' : e \in Clients
  BY DEF Executing
<1>3. QED
  BY <1>1, <1>2, OthersKeepDue, NothingCharged

LEMMA ReserveKeepsSeconds ==
  ASSUME LedgerInv, LedgerInv', Asked, SecondsInv, NEW c \in Clients, Reserve(c)
  PROVE  SecondsInv'
<1> DEFINE s == SubjectOf[c]
           t == loc[c].readAt
           q == loc[c].asks
           slots == Unused(reserved[s][DayOf(t)], q)
           row == [holder |-> c, nth |-> crashes, expires |-> Expiry(c)]
<1>1. millis' = millis
  BY DEF Reserve
<1>2. CASE ~ Within(c)
  <2>1. /\ pc'[c] = "idle"
        /\ \A e \in Clients : e # c => pc'[e] = pc[e] /\ loc'[e] = loc[e]
    BY <1>2 DEF LedgerInv, TypeOK, Reserve, Return, Goto
  <2>2. QED
    BY <1>1, <2>1, NotExecutingKeepsSeconds
<1>3. CASE Within(c)
  <2>1. /\ loc' = [loc EXCEPT ![c] = Granted(row, DayOf(t), slots, loc[c].waited)]
        /\ pc' = [pc EXCEPT ![c] = IF c \in Askers THEN "ready" ELSE "claim"]
        /\ pc[c] = "reserve"
    BY <1>3 DEF Reserve, Goto
  <2>2. q \in 1..2 /\ q <= Most(c) /\ t \in Nat /\ t \in 0..MaxTime
    BY <2>1, LocalTimes DEF LedgerInv, TypeOK, Local, Pending, Asked
  <2>3. DayOf(t) \in Days /\ s \in Subjects
    BY <2>2, DaysAreDays, BudgetAssumption
  <2>4. Cardinality(slots) = q
    <3>1. /\ reserved[s][DayOf(t)] \in SUBSET Nat
          /\ IsFiniteSet(reserved[s][DayOf(t)])
      BY <2>3 DEF LedgerInv, TypeOK, Counted
    <3>2. QED
      BY <2>2, <3>1, UnusedNumbers
  <2>5. Allows(MaxSecondsPerDay, millis[s][DayOf(t)] + 1)
    BY <1>3 DEF Within
  <2> HIDE DEF slots, t, q, s, row
  <2>6. /\ loc'[c] = Granted(row, DayOf(t), slots, loc[c].waited)
        /\ pc'[c] \in {"ready", "claim"}
        /\ \A e \in Clients : e # c => pc'[e] = pc[e] /\ loc'[e] = loc[e]
    BY <2>1 DEF LedgerInv, TypeOK
  <2>7. Due(c)' = q /\ loc'[c].day = DayOf(t)
    BY <2>2, <2>4, <2>6 DEF Due, InDatabase, Granted
  <2>8. \A e \in Executing' : e \in Clients /\ Due(e)' \in Nat /\ Due(e)' <= Most(e)
    <3>1. ASSUME NEW e \in Executing', e # c PROVE Due(e)' \in Nat /\ Due(e)' <= Most(e)
      BY <2>6, <3>1, OthersKeepDue DEF SecondsInv, Executing
    <3>2. Due(c)' \in Nat /\ Due(c)' <= Most(c)
      BY <2>2, <2>7
    <3>3. QED
      BY <3>1, <3>2 DEF Executing
  <2>9. ASSUME MaxSecondsPerDay # 0, NEW s2 \in Subjects, NEW d2 \in Days
        PROVE  SecondsLeft(s2, d2)'
    <3>1. millis[s2][d2] \in Nat /\ SecondsBound(s2) \in Nat /\ StatementSeconds \in Nat
      BY SecondsTyped
    <3>2. /\ Cardinality(Chargeable(s2, d2)') \in Nat
          /\ Cardinality(Chargeable(s2, d2)') <= Cardinality(UnderWay(s2))
          /\ Cardinality(Chargeable(s2, d2)) \in Nat
          /\ Cardinality(UnderWay(s2)) \in Nat
      BY <2>8, CountsStayFinite, ChargeableIsFinite, UnderWayIsFinite DEF CountsAreFinite
    <3>3. CASE s2 = s /\ d2 = DayOf(t)
      <4>1. MaxSecondsPerDay \in Nat
        BY BudgetAssumption
      <4>2. millis[s2][d2] < MaxSecondsPerDay
        BY <2>5, <2>9, <3>1, <3>3, <4>1 DEF Allows
      <4>3. Cardinality(UnderWay(s2)) * StatementSeconds \in Nat
        BY <3>1, <3>2
      <4>4. millis[s2][d2] + Cardinality(UnderWay(s2)) * StatementSeconds < SecondsBound(s2)
        BY <3>1, <4>1, <4>2, <4>3 DEF SecondsBound
      <4>5. millis[s2][d2] + Cardinality(Chargeable(s2, d2)') * StatementSeconds < SecondsBound(s2)
        BY <3>1, <3>2, <4>4, FewerKeepSeconds
      <4>6. QED
        BY <1>1, <4>5 DEF SecondsLeft
    <3>4. CASE ~ (s2 = s /\ d2 = DayOf(t))
      <4>1. Chargeable(s2, d2)' \subseteq Chargeable(s2, d2)
        <5>1. ASSUME NEW x \in Chargeable(s2, d2)' PROVE x \in Chargeable(s2, d2)
          <6>1. /\ x \in Executing' \X {1, 2} /\ SubjectOf[x[1]] = s2
                /\ loc'[x[1]].day = d2 /\ x[2] <= Due(x[1])'
            BY DEF Chargeable
          <6>2. x[1] # c
            BY <2>7, <3>4, <6>1 DEF s
          <6>3. x[1] \in Clients
            BY <6>1 DEF Executing
          <6>4. x[1] \in Executing /\ loc[x[1]].day = d2 /\ x[2] <= Due(x[1])
            BY <2>6, <6>1, <6>2, <6>3, OthersKeepDue
          <6>5. QED
            BY <6>1, <6>4 DEF Chargeable
        <5>2. QED
          BY <5>1
      <4>2. Cardinality(Chargeable(s2, d2)') <= Cardinality(Chargeable(s2, d2))
        BY <4>1, ChargeableIsFinite, FS_Subset
      <4>3. millis[s2][d2] + Cardinality(Chargeable(s2, d2)) * StatementSeconds < SecondsBound(s2)
        BY <2>9 DEF SecondsInv, SecondsLeft
      <4>4. millis[s2][d2] + Cardinality(Chargeable(s2, d2)') * StatementSeconds < SecondsBound(s2)
        BY <3>1, <3>2, <4>2, <4>3, FewerKeepSeconds
      <4>5. QED
        BY <1>1, <4>4 DEF SecondsLeft
    <3>5. QED
      BY <3>3, <3>4
  <2>10. QED
    BY <2>8, <2>9 DEF SecondsInv
<1>4. QED
  BY <1>2, <1>3

\* The statement under way becomes seconds of its allowance, and nothing else
\* does.
LEMMA RecordKeepsSeconds ==
  ASSUME LedgerInv, LedgerInv', SecondsInv, NEW c \in Clients, Record(c)
  PROVE  SecondsInv'
<1> DEFINE s == SubjectOf[c]
           d == loc[c].day
<1>1. /\ c \in Executing /\ c \in Executing'
      /\ InDatabase(c) /\ ~ InDatabase(c)'
      /\ loc'[c].slots = loc[c].slots /\ loc'[c].day = d
      /\ \A e \in Clients : e # c => pc'[e] = pc[e] /\ loc'[e] = loc[e]
  BY DEF LedgerInv, TypeOK, Local, Record, Goto, Executing, InDatabase
<1>2. /\ s \in Subjects /\ d \in Days
      /\ loc[c].elapsed \in Nat /\ loc[c].elapsed <= StatementSeconds
  BY BudgetAssumption, LocalTimes DEF LedgerInv, TypeOK, Local
<1>3. millis' = [millis EXCEPT ![s][d] = millis[s][d] + loc[c].elapsed]
  BY DEF Record
<1>4. /\ Due(c) \in Nat /\ Due(c) >= 1 /\ Due(c) <= 2 /\ Due(c) <= Most(c)
      /\ Due(c)' = Due(c) - 1 /\ Most(c) \in 1..2
  <2>1. Due(c) = Cardinality(loc[c].slots) + 1 /\ Due(c)' = Cardinality(loc[c].slots) + 0
    BY <1>1 DEF Due
  <2>2. Due(c) <= Most(c) /\ Most(c) \in 1..2 /\ Cardinality(loc[c].slots) \in Nat
    BY <1>1, LocalTimes, SecondsTyped DEF SecondsInv
  <2>3. QED
    BY <2>1, <2>2
<1> HIDE DEF s, d
<1>5. \A e \in Executing' : e \in Clients /\ e \in Executing /\ Due(e)' <= Most(e)
  <2>1. ASSUME NEW e \in Executing' PROVE e \in Clients /\ e \in Executing /\ Due(e)' <= Most(e)
    <3>1. e \in Clients
      BY DEF Executing
    <3>2. CASE e = c
      BY <1>1, <1>4, <3>1, <3>2
    <3>3. CASE e # c
      BY <1>1, <3>1, <3>3, OthersKeepDue DEF SecondsInv
    <3>4. QED
      BY <3>2, <3>3
  <2>2. QED
    BY <2>1
<1>6. ASSUME NEW s2 \in Subjects, NEW d2 \in Days, NEW x \in Chargeable(s2, d2)'
      PROVE  x \in Chargeable(s2, d2) /\ (x[1] = c => x[2] # Due(c))
  <2>1. /\ x \in Executing' \X {1, 2} /\ SubjectOf[x[1]] = s2
        /\ loc'[x[1]].day = d2 /\ x[2] <= Due(x[1])'
    BY <1>6 DEF Chargeable
  <2>2. x[1] \in Executing' /\ x[2] \in Nat
    BY <2>1
  <2>3. CASE x[1] = c
    <3>1. x[2] <= Due(c) - 1
      BY <1>4, <2>1, <2>3
    <3>2. x[2] <= Due(c) /\ x[2] # Due(c)
      BY <1>4, <2>2, <3>1
    <3>3. loc[c].day = d2
      BY <1>1, <2>1, <2>3 DEF d
    <3>4. QED
      BY <1>1, <2>1, <2>3, <3>2, <3>3 DEF Chargeable
  <2>4. CASE x[1] # c
    <3>1. x[1] \in Executing /\ loc[x[1]].day = d2 /\ x[2] <= Due(x[1])
      BY <1>1, <1>5, <2>1, <2>2, <2>4, OthersKeepDue
    <3>2. QED
      BY <2>1, <2>4, <3>1 DEF Chargeable
  <2>5. QED
    BY <2>3, <2>4
<1>7. ASSUME MaxSecondsPerDay # 0, NEW s2 \in Subjects, NEW d2 \in Days
      PROVE  SecondsLeft(s2, d2)'
  <2>1. millis[s2][d2] \in Nat /\ SecondsBound(s2) \in Nat /\ StatementSeconds \in Nat
    BY SecondsTyped
  <2>2. /\ Cardinality(Chargeable(s2, d2)') \in Nat
        /\ Cardinality(Chargeable(s2, d2)) \in Nat
        /\ IsFiniteSet(Chargeable(s2, d2))
    BY CountsStayFinite, ChargeableIsFinite DEF CountsAreFinite
  <2>3. millis[s2][d2] + Cardinality(Chargeable(s2, d2)) * StatementSeconds < SecondsBound(s2)
    BY <1>7 DEF SecondsInv, SecondsLeft
  <2>4. CASE s2 = s /\ d2 = d
    <3> DEFINE mine == <<c, Due(c)>>
    <3>1. mine \in Chargeable(s2, d2)
      <4>1. Due(c) \in {1, 2} /\ Due(c) <= Due(c)
        BY <1>4
      <4>2. QED
        BY <1>1, <2>4, <4>1 DEF Chargeable, s, d
    <3>2. Chargeable(s2, d2)' \subseteq Chargeable(s2, d2) \ {mine}
      BY <1>6
    <3>3. /\ IsFiniteSet(Chargeable(s2, d2) \ {mine})
          /\ Cardinality(Chargeable(s2, d2) \ {mine}) = Cardinality(Chargeable(s2, d2)) - 1
      BY <2>2, <3>1, FS_RemoveElement
    <3>4. Cardinality(Chargeable(s2, d2)') <= Cardinality(Chargeable(s2, d2)) - 1
      BY <3>2, <3>3, FS_Subset
    <3>5. Cardinality(Chargeable(s2, d2)) >= 1 /\ Cardinality(Chargeable(s2, d2)) - 1 \in Nat
      BY <2>2, <3>4
    <3>6. (millis[s2][d2] + loc[c].elapsed)
            + (Cardinality(Chargeable(s2, d2)) - 1) * StatementSeconds < SecondsBound(s2)
      BY <1>2, <2>1, <2>2, <2>3, <3>5, OneFewerPays
    <3>7. millis'[s2][d2] = millis[s2][d2] + loc[c].elapsed
      BY <1>2, <1>3, <2>4 DEF LedgerInv, TypeOK
    <3>8. millis[s2][d2] + loc[c].elapsed \in Nat
      BY <1>2, <2>1
    <3>9. (millis[s2][d2] + loc[c].elapsed)
            + Cardinality(Chargeable(s2, d2)') * StatementSeconds < SecondsBound(s2)
      BY <2>1, <2>2, <3>4, <3>5, <3>6, <3>8, FewerKeepSeconds
    <3>10. QED
      BY <3>7, <3>9 DEF SecondsLeft
  <2>5. CASE ~ (s2 = s /\ d2 = d)
    <3>1. millis'[s2][d2] = millis[s2][d2]
      BY <1>2, <1>3, <2>5 DEF LedgerInv, TypeOK
    <3>2. Chargeable(s2, d2)' \subseteq Chargeable(s2, d2)
      BY <1>6
    <3>3. Cardinality(Chargeable(s2, d2)') <= Cardinality(Chargeable(s2, d2))
      BY <2>2, <3>2, FS_Subset
    <3>4. millis[s2][d2] + Cardinality(Chargeable(s2, d2)') * StatementSeconds < SecondsBound(s2)
      BY <2>1, <2>2, <2>3, <3>3, FewerKeepSeconds
    <3>5. QED
      BY <3>1, <3>4 DEF SecondsLeft
  <2>6. QED
    BY <2>4, <2>5
<1>8. QED
  BY <1>5, <1>7 DEF SecondsInv

\* The steps within a request: refunding takes from what is due, sending a
\* statement leaves as many.
LEMMA SendingKeepsSeconds ==
  ASSUME LedgerInv, SecondsInv, NEW c \in Clients, Claim(c) \/ Refund(c) \/ Start(c)
  PROVE  SecondsInv'
<1>1. /\ c \in Executing /\ millis' = millis /\ loc'[c].day = loc[c].day
      /\ ~ InDatabase(c)
      /\ \A e \in Clients : e # c => pc'[e] = pc[e] /\ loc'[e] = loc[e]
  BY DEF LedgerInv, TypeOK, Local, Claim, Refund, Start, Goto, Executing, InDatabase, ledger
<1>2. Due(c) = Cardinality(loc[c].slots) /\ Due(c) \in Nat
  BY <1>1, LocalTimes DEF Due
<1>3. Due(c)' <= Due(c) /\ Due(c)' \in Nat
  <2>1. CASE Claim(c)
    <3>1. loc' = loc /\ ~ InDatabase(c)'
      BY <2>1 DEF LedgerInv, TypeOK, Claim, Goto, InDatabase
    <3>2. QED
      BY <1>2, <3>1 DEF Due
  <2>2. CASE Refund(c)
    <3>1. loc'[c].slots = {} /\ ~ InDatabase(c)'
      BY <2>2 DEF LedgerInv, TypeOK, Local, Refund, Goto, InDatabase
    <3>2. Cardinality(loc'[c].slots) = 0
      BY <3>1, FS_EmptySet
    <3>3. QED
      BY <1>2, <3>1, <3>2 DEF Due
  <2>3. CASE Start(c)
    <3> DEFINE slot == CHOOSE n \in loc[c].slots : TRUE
    <3>1. slot \in loc[c].slots
      BY <2>3 DEF LedgerInv, Pending, Start
    <3>2. loc'[c].slots = loc[c].slots \ {slot} /\ InDatabase(c)'
      BY <2>3 DEF LedgerInv, TypeOK, Local, Start, Goto, InDatabase
    <3> HIDE DEF slot
    <3>3. Cardinality(loc'[c].slots) = Cardinality(loc[c].slots) - 1
      BY <3>1, <3>2, LocalTimes, FS_RemoveElement, ZenonT(60)
    <3>4. QED
      BY <1>2, <3>2, <3>3 DEF Due
  <2>4. QED
    BY <2>1, <2>2, <2>3
<1>4. \A e \in Executing' : e \in Clients
  BY DEF Executing
<1>5. \A e \in Executing' : /\ e \in Executing
                            /\ Due(e)' <= Due(e) /\ Due(e)' \in Nat
                            /\ loc'[e].day = loc[e].day
  <2>1. ASSUME NEW e \in Executing', e # c
        PROVE  /\ e \in Executing
               /\ Due(e)' <= Due(e) /\ Due(e)' \in Nat
               /\ loc'[e].day = loc[e].day
    BY <1>1, <1>4, <2>1, OthersKeepDue
  <2>2. QED
    BY <1>1, <1>3, <2>1
<1>6. QED
  BY <1>1, <1>5, NothingCharged

LEMMA CrashKeepsSeconds ==
  ASSUME LedgerInv, SecondsInv, NEW c \in Clients, Crash(c)
  PROVE  SecondsInv'
<1>1. millis' = millis
  BY DEF Crash, ledger
<1>2. CASE pc[c] = "running"
  <2>1. /\ loc' = loc /\ pc' = [pc EXCEPT ![c] = "orphan"]
    BY <1>2 DEF Crash, Goto
  <2>2. \A e \in Clients : (e \in Executing' <=> e \in Executing) /\ Due(e)' = Due(e)
    BY <1>2, <2>1 DEF LedgerInv, TypeOK, Executing, Due, InDatabase
  <2>3. \A e \in Executing' : e \in Clients
    BY DEF Executing
  <2>4. QED
    BY <1>1, <2>1, <2>2, <2>3, DueIsACount, NothingCharged
<1>3. CASE pc[c] # "running"
  <2>1. pc'[c] = "idle" /\ \A e \in Clients : e # c => pc'[e] = pc[e] /\ loc'[e] = loc[e]
    BY <1>3 DEF LedgerInv, TypeOK, Crash, Return, Goto
  <2>2. QED
    BY <1>1, <2>1, NotExecutingKeepsSeconds
<1>4. QED
  BY <1>2, <1>3

LEMMA TickKeepsSeconds ==
  ASSUME LedgerInv, SecondsInv, Tick
  PROVE  SecondsInv'
<1>1. /\ millis' = millis /\ pc' = pc
      /\ \A c \in Clients : /\ loc'[c].slots = loc[c].slots
                            /\ loc'[c].day = loc[c].day
  BY LastedKeeps DEF Tick, ledger
<1>2. \A c \in Clients : Due(c)' = Due(c) /\ (c \in Executing' <=> c \in Executing)
  BY <1>1 DEF Due, InDatabase, Executing
<1>3. \A c \in Executing' : c \in Clients
  BY DEF Executing
<1>4. QED
  BY <1>1, <1>2, <1>3, DueIsACount, NothingCharged

LEMMA SecondsInit == Init => SecondsInv
<1> SUFFICES ASSUME Init PROVE SecondsInv
  OBVIOUS
<1>1. Executing = {}
  BY DEF Init, Executing
<1>2. ASSUME MaxSecondsPerDay # 0, NEW s \in Subjects, NEW d \in Days
      PROVE  SecondsLeft(s, d)
  <2>1. Chargeable(s, d) = {}
    BY <1>1 DEF Chargeable
  <2>2. Cardinality(Chargeable(s, d)) = 0
    BY <2>1, FS_EmptySet
  <2>3. millis[s][d] = 0
    BY DEF Init, PerDay
  <2>4. /\ MaxSecondsPerDay \in Nat /\ StatementSeconds \in Nat
        /\ Cardinality(UnderWay(s)) * StatementSeconds \in Nat
    BY BudgetAssumption, SecondsTyped, UnderWayIsFinite
  <2>5. QED
    BY <1>2, <2>2, <2>3, <2>4 DEF SecondsLeft, SecondsBound
<1>3. QED
  BY <1>1, <1>2 DEF SecondsInv

LEMMA AskedHolds == Spec => []Asked
<1>1. Init => Asked
  BY DEF Init, Asked
<1>2. ASSUME LedgerInv, Asked, [Next]_vars PROVE Asked'
  <2> SUFFICES ASSUME NEW e \in Clients, pc'[e] = "reserve" PROVE loc'[e].asks <= Most(e)
    BY <1>2 DEF Asked
  <2>1. CASE \E c \in Clients, n \in 1..2 : Begin(c, n)
    <3>1. PICK c \in Clients, n \in 1..2 : Begin(c, n)
      BY <2>1
    <3>2. CASE e = c
      BY <1>2, <3>1, <3>2 DEF LedgerInv, TypeOK, Begin, Goto, Asking, Most, Clients
    <3>3. CASE e # c
      BY <1>2, <3>1, <3>3 DEF LedgerInv, TypeOK, Begin, Goto, Asked
    <3>4. QED
      BY <1>2, <3>2, <3>3
  <2>2. CASE Tick
    <3>1. loc'[e] = Lasted(e) /\ pc[e] = "reserve" /\ loc[e] \in Local
      BY <1>2, <2>2 DEF LedgerInv, TypeOK, Tick
    <3>2. loc'[e].asks = loc[e].asks
      BY <1>2, <3>1 DEF Lasted, Local
    <3>3. QED
      BY <1>2, <3>1, <3>2 DEF Asked
  <2>3. ASSUME NEW c \in Clients,
               \/ StartRequest(c) \/ Reserve(c) \/ GiveUp(c) \/ Claim(c) \/ Refund(c)
               \/ Start(c) \/ Record(c) \/ Release(c) \/ Crash(c) \/ OrphanEnds(c)
        PROVE  loc'[e].asks <= Most(e)
    <3>1. pc[e] = "reserve" /\ loc'[e] = loc[e]
      BY <1>2, <2>3 DEF LedgerInv, TypeOK, StartRequest, Reserve, GiveUp, Claim, Refund, Start,
                  Record, Release, Crash, OrphanEnds, Goto, Return
    <3>2. QED
      BY <1>2, <3>1 DEF Asked
  <2>4. CASE UNCHANGED vars
    BY <1>2, <2>4 DEF vars, Asked
  <2>5. QED
    BY <1>2, <2>1, <2>2, <2>3, <2>4 DEF Next
<1>3. QED
  BY <1>1, <1>2, LedgerCorrect, PTL DEF Spec

LEMMA SecondsStep ==
  ASSUME LedgerInv, LedgerInv', Asked, SecondsInv, [Next]_vars
  PROVE  SecondsInv'
<1>1. ASSUME NEW c \in Clients, StartRequest(c) PROVE SecondsInv'
  <2>1. UNCHANGED <<millis, pc, loc>>
    BY <1>1 DEF StartRequest, ledger
  <2>2. QED
    BY <2>1 DEF SecondsInv, SecondsLeft, Chargeable, Due, InDatabase, Executing
<1>2. ASSUME NEW c \in Clients, NEW n \in 1..2, Begin(c, n) PROVE SecondsInv'
  <2>1. /\ pc'[c] = "reserve" /\ millis' = millis
        /\ \A e \in Clients : e # c => pc'[e] = pc[e] /\ loc'[e] = loc[e]
    BY <1>2 DEF LedgerInv, TypeOK, Begin, Goto, ledger
  <2>2. QED
    BY <2>1, NotExecutingKeepsSeconds
<1>3. ASSUME NEW c \in Clients, Reserve(c) PROVE SecondsInv'
  BY <1>3, ReserveKeepsSeconds
<1>4. ASSUME NEW c \in Clients, GiveUp(c) \/ OrphanEnds(c) \/ Release(c) PROVE SecondsInv'
  <2>1. Return(c) /\ millis' = millis
    BY <1>4 DEF GiveUp, OrphanEnds, Release, ledger
  <2>2. pc'[c] = "idle" /\ \A e \in Clients : e # c => pc'[e] = pc[e] /\ loc'[e] = loc[e]
    BY <2>1, Returns
  <2>3. QED
    BY <2>1, <2>2, NotExecutingKeepsSeconds
<1>5. ASSUME NEW c \in Clients, Claim(c) \/ Refund(c) \/ Start(c) PROVE SecondsInv'
  BY <1>5, SendingKeepsSeconds
<1>6. ASSUME NEW c \in Clients, Record(c) PROVE SecondsInv'
  BY <1>6, RecordKeepsSeconds
<1>7. ASSUME NEW c \in Clients, Crash(c) PROVE SecondsInv'
  BY <1>7, CrashKeepsSeconds
<1>8. CASE Tick
  BY <1>8, TickKeepsSeconds
<1>9. CASE UNCHANGED vars
  <2>1. UNCHANGED <<millis, pc, loc>>
    BY <1>9 DEF vars, ledger
  <2>2. QED
    BY <2>1 DEF SecondsInv, SecondsLeft, Chargeable, Due, InDatabase, Executing
<1>10. QED
  BY <1>1, <1>2, <1>3, <1>4, <1>5, <1>6, <1>7, <1>8, <1>9 DEF Next

\* However requests interleave, are killed or run side by side, a day's seconds
\* run over by less than what the person's processes may have under way: a
\* statement for each asker and two for each run.
THEOREM SecondsOvershootIsBounded == Spec => []SecondsOvershootBounded
<1>1. Init => SecondsInv
  BY SecondsInit
<1>2. LedgerInv /\ LedgerInv' /\ Asked /\ SecondsInv /\ [Next]_vars => SecondsInv'
  BY SecondsStep
<1>3. LedgerInv /\ SecondsInv => SecondsOvershootBounded
  <2> SUFFICES ASSUME LedgerInv, SecondsInv, MaxSecondsPerDay # 0,
                      NEW s \in Subjects, NEW d \in Days
               PROVE  millis[s][d] < SecondsBound(s)
    BY DEF SecondsOvershootBounded, SecondsBound
  <2>1. millis[s][d] + Cardinality(Chargeable(s, d)) * StatementSeconds < SecondsBound(s)
    BY DEF SecondsInv, SecondsLeft
  <2>2. millis[s][d] + 0 * StatementSeconds < SecondsBound(s)
    BY <2>1, SecondsTyped, ChargeableIsFinite, FewerKeepSeconds
  <2>3. QED
    BY <2>2, SecondsTyped
<1>4. QED
  BY <1>1, <1>2, <1>3, AskedHolds, LedgerCorrect, PTL DEF Spec

=============================================================================
