-------------------------- MODULE MySQLPoolProofs ---------------------------
(***************************************************************************)
(* Theorems about MySQLPool, for every number of threads, every size of    *)
(* the pool and every bound.                                               *)
(*                                                                         *)
(* The inductive invariant says where each connection is: the step a thread *)
(* is at decides whether it holds one, a held one is not in the queue, and *)
(* every open one is in the queue or held.                                 *)
(***************************************************************************)
EXTENDS MySQLPool, FiniteSetTheorems, TLAPS

-----------------------------------------------------------------------------
(* The inductive invariant. *)

Holding == {"ping", "discard", "use", "return"}

\* The queue holds a connection once.
QueuedOnce == \A i, j \in DOMAIN pool : pool[i] = pool[j] /\ pool[i] # None => i = j

StepsHold == \A t \in Threads : conn[t] # None <=> pc[t] \in Holding

HeldApart ==
  \A t \in Held : /\ conn[t] \in 1..opened /\ conn[t] \notin Idle
                  /\ \A u \in Held : conn[u] = conn[t] => u = t

OpenAccountedFor ==
  /\ Idle \subseteq open
  /\ \A c \in open : c \in Idle \/ \E t \in Held : conn[t] = c

\* A connection that failed its ping was closed.
FailedIsClosed == \A t \in Threads : pc[t] = "discard" => conn[t] \notin open

Exact ==
  ~closed => created = Cardinality(Idle) + Cardinality(Held) + Cardinality(Connecting)

ClosedIsQuiet ==
  closed => pool = <<>> /\ open = {} /\ \A t \in Threads : pc[t] = "idle"

PoolInv ==
  /\ TypeOK /\ QueuedOnce /\ StepsHold /\ HeldApart /\ OpenAccountedFor
  /\ FailedIsClosed /\ Exact /\ ClosedIsQuiet

-----------------------------------------------------------------------------
(* The queue. *)

Queue == Seq(Connections \cup {None})

LEMMA NoneIsNoConnection == None \notin Connections
  BY DEF None, Connections

\* Taking from the queue takes what is last.
LEMMA Taking ==
  ASSUME pool \in Queue, pool # <<>>, QueuedOnce, pool' = Front(pool)
  PROVE  /\ pool' \in Queue /\ QueuedOnce'
         /\ Last(pool) \in Connections \cup {None}
         /\ Last(pool) = None => Idle' = Idle
         /\ Last(pool) # None => Last(pool) \in Idle /\ Idle' = Idle \ {Last(pool)}
<1> DEFINE n == Len(pool)
<1>1. n \in Nat \ {0} /\ DOMAIN pool = 1..n
  BY DEF Queue
<1>2. pool' = [i \in 1..(n - 1) |-> pool[i]]
  BY <1>1 DEF Front, Queue
<1>3. pool' \in Queue /\ Len(pool') = n - 1 /\ DOMAIN pool' = 1..(n - 1)
  BY <1>1, <1>2 DEF Front, Queue
<1>4. \A i \in 1..(n - 1) : pool'[i] = pool[i]
  BY <1>2
<1>5. Last(pool) = pool[n] /\ pool[n] \in Connections \cup {None}
  BY <1>1 DEF Last, Queue
<1>6. QueuedOnce'
  BY <1>1, <1>3, <1>4 DEF QueuedOnce
<1>7. \A c : c \in Idle <=> c \in Connections /\ \E i \in 1..n : pool[i] = c
  BY DEF Idle, Contains
<1>8. \A c : c \in Idle' <=> c \in Connections /\ \E i \in 1..(n - 1) : pool[i] = c
  BY <1>1, <1>3, <1>4 DEF Idle, Contains
<1>9. pool[n] = None => Idle' = Idle
  <2> SUFFICES ASSUME pool[n] = None, NEW c PROVE c \in Idle' <=> c \in Idle
    OBVIOUS
  <2>1. c \in Connections => c # pool[n]
    BY NoneIsNoConnection
  <2>2. QED
    BY <1>1, <1>7, <1>8, <2>1
<1>10. ASSUME pool[n] # None
       PROVE  pool[n] \in Idle /\ Idle' = Idle \ {pool[n]}
  <2>1. pool[n] \in Idle
    BY <1>1, <1>5, <1>7, <1>10
  <2>2. \A i \in 1..(n - 1) : pool[i] # pool[n]
    BY <1>1, <1>10 DEF QueuedOnce
  <2>3. ASSUME NEW c PROVE c \in Idle' <=> c \in Idle /\ c # pool[n]
    BY <1>1, <1>7, <1>8, <2>2
  <2>4. QED
    BY <2>1, <2>3
<1>11. QED
  BY <1>3, <1>5, <1>6, <1>9, <1>10

\* A token in the queue is no connection.
LEMMA PuttingNone ==
  ASSUME pool \in Queue, QueuedOnce, pool' = Append(pool, None)
  PROVE  pool' \in Queue /\ QueuedOnce' /\ Idle' = Idle
<1> DEFINE n == Len(pool)
<1>1. n \in Nat /\ DOMAIN pool = 1..n
  BY DEF Queue
<1>2. /\ pool' \in Queue /\ Len(pool') = n + 1 /\ DOMAIN pool' = 1..(n + 1)
      /\ pool'[n + 1] = None /\ \A i \in 1..n : pool'[i] = pool[i]
  BY <1>1 DEF Queue
<1>3. QueuedOnce'
  BY <1>1, <1>2 DEF QueuedOnce
<1>4. ASSUME NEW c \in Connections
      PROVE  (\E i \in 1..(n + 1) : pool'[i] = c) <=> (\E i \in 1..n : pool[i] = c)
  BY <1>1, <1>2, NoneIsNoConnection
<1>5. QED
  BY <1>2, <1>3, <1>4 DEF Idle, Contains

\* A connection that is put back is idle.
LEMMA PuttingBack ==
  ASSUME pool \in Queue, QueuedOnce, NEW c \in Connections, c \notin Idle,
         pool' = Append(pool, c)
  PROVE  pool' \in Queue /\ QueuedOnce' /\ Idle' = Idle \cup {c}
<1> DEFINE n == Len(pool)
<1>1. n \in Nat /\ DOMAIN pool = 1..n
  BY DEF Queue
<1>2. /\ pool' \in Queue /\ Len(pool') = n + 1 /\ DOMAIN pool' = 1..(n + 1)
      /\ pool'[n + 1] = c /\ \A i \in 1..n : pool'[i] = pool[i]
  BY <1>1 DEF Queue
<1>3. \A i \in 1..n : pool[i] # c
  BY DEF Idle, Contains
<1>4. QueuedOnce'
  BY <1>1, <1>2, <1>3 DEF QueuedOnce
<1>5. ASSUME NEW d \in Connections
      PROVE  (\E i \in 1..(n + 1) : pool'[i] = d) <=> (d = c \/ \E i \in 1..n : pool[i] = d)
  BY <1>1, <1>2
<1>6. QED
  BY <1>2, <1>4, <1>5 DEF Idle, Contains

-----------------------------------------------------------------------------
(* Counting, and what the steps of a thread are made of. *)

Steps == {"idle", "try", "count", "connect", "wait", "ping", "discard", "use", "return"}

LEMMA Counting ==
  ASSUME TypeOK
  PROVE  /\ IsFiniteSet(Idle) /\ IsFiniteSet(Held) /\ IsFiniteSet(Connecting)
         /\ Cardinality(Idle) \in Nat /\ Cardinality(Held) \in Nat
         /\ Cardinality(Connecting) \in Nat
<1>1. IsFiniteSet(Connections)
  BY FS_Interval, PoolAssumption DEF Connections
<1>2. IsFiniteSet(Idle)
  BY <1>1, FS_Subset DEF Idle
<1>3. IsFiniteSet(Held) /\ IsFiniteSet(Connecting)
  BY PoolAssumption, FS_Subset DEF Held, Connecting
<1>4. QED
  BY <1>2, <1>3, FS_CardinalityType

\* One more or one less.
LEMMA Taken ==
  ASSUME NEW S, IsFiniteSet(S), NEW x \in S
  PROVE  Cardinality(S \ {x}) = Cardinality(S) - 1
  BY FS_RemoveElement

LEMMA Given ==
  ASSUME NEW S, IsFiniteSet(S), NEW x, x \notin S
  PROVE  Cardinality(S \cup {x}) = Cardinality(S) + 1
  BY FS_AddElement

LEMMA Moving ==
  ASSUME TypeOK, NEW t \in Threads, NEW step \in Steps, At(t, step)
  PROVE  /\ pc' \in [Threads -> Steps]
         /\ pc'[t] = step /\ \A u \in Threads \ {t} : pc'[u] = pc[u]
         /\ step = "connect" => Connecting' = Connecting \cup {t}
         /\ step # "connect" => Connecting' = Connecting \ {t}
<1>1. pc \in [Threads -> Steps]
  BY DEF TypeOK, Steps
<1>2. /\ pc' \in [Threads -> Steps]
      /\ pc'[t] = step /\ \A u \in Threads \ {t} : pc'[u] = pc[u]
  BY <1>1 DEF At
<1>3. QED
  BY <1>2 DEF Connecting

LEMMA Receiving ==
  ASSUME TypeOK, NEW t \in Threads, NEW c \in Connections, conn[t] = None, Holds(t, c)
  PROVE  /\ conn' \in [Threads -> Connections \cup {None}]
         /\ conn'[t] = c /\ \A u \in Threads \ {t} : conn'[u] = conn[u]
         /\ t \notin Held /\ Held' = Held \cup {t}
<1>1. /\ conn' \in [Threads -> Connections \cup {None}]
      /\ conn'[t] = c /\ \A u \in Threads \ {t} : conn'[u] = conn[u]
  BY DEF Holds, TypeOK
<1>2. QED
  BY <1>1, NoneIsNoConnection DEF Held

LEMMA GivingUp ==
  ASSUME TypeOK, NEW t \in Threads, conn[t] # None, Holds(t, None)
  PROVE  /\ conn' \in [Threads -> Connections \cup {None}]
         /\ conn'[t] = None /\ \A u \in Threads \ {t} : conn'[u] = conn[u]
         /\ t \in Held /\ Held' = Held \ {t}
<1>1. /\ conn' \in [Threads -> Connections \cup {None}]
      /\ conn'[t] = None /\ \A u \in Threads \ {t} : conn'[u] = conn[u]
  BY DEF Holds, TypeOK
<1>2. QED
  BY <1>1 DEF Held

\* A step between places at which a thread holds the same.
LEMMA StepsHoldOn ==
  ASSUME TypeOK, StepsHold, NEW t \in Threads, NEW step \in Steps, At(t, step),
         conn'[t] # None <=> step \in Holding,
         \A u \in Threads \ {t} : conn'[u] = conn[u]
  PROVE  StepsHold'
<1>1. pc'[t] = step /\ \A u \in Threads \ {t} : pc'[u] = pc[u]
  BY Moving
<1>2. QED
  BY <1>1 DEF StepsHold

LEMMA BusyIsOpen ==
  ASSUME ClosedIsQuiet, NEW t \in Threads, pc[t] # "idle"
  PROVE  ~closed
  BY DEF ClosedIsQuiet

-----------------------------------------------------------------------------
(* Every step preserves the invariant. *)

LEMMA InitInv == Init => PoolInv
<1> SUFFICES ASSUME Init PROVE PoolInv
  OBVIOUS
<1>1. TypeOK
  <2>1. <<>> \in Seq(Connections \cup {None}) /\ 0 \in 0..PoolSize /\ 0 \in 0..MaxConnects
        /\ 0 \in 0..MaxQueries
    BY PoolAssumption
  <2>2. [t \in Threads |-> "idle"] \in [Threads -> Steps]
    BY DEF Steps
  <2>3. QED
    BY <2>1, <2>2 DEF Init, TypeOK, Steps
<1>2. Idle = {} /\ Held = {} /\ Connecting = {}
  BY DEF Init, Idle, Held, Connecting, Contains
<1>3. /\ QueuedOnce /\ StepsHold /\ HeldApart /\ OpenAccountedFor
      /\ FailedIsClosed /\ ClosedIsQuiet
  BY <1>2 DEF Init, QueuedOnce, StepsHold, Holding, HeldApart, OpenAccountedFor,
              FailedIsClosed, ClosedIsQuiet
<1>4. Exact
  BY <1>2, FS_EmptySet DEF Init, Exact
<1>5. QED
  BY <1>1, <1>3, <1>4 DEF PoolInv

\* A thread moves on and touches nothing.
LEMMA OnlyMoves ==
  ASSUME PoolInv, NEW t \in Threads, NEW from \in Steps, NEW step \in Steps,
         pc[t] = from, from # "connect", step \notin {"connect", "discard"},
         from = "idle" => ~closed,
         from \in Holding <=> step \in Holding, At(t, step),
         UNCHANGED <<pool, created, lock, opened, open, conn, closed>>,
         replaced' \in [Threads -> BOOLEAN], queries' \in [Threads -> 0..MaxQueries]
  PROVE  PoolInv'
<1>1. /\ pc' \in [Threads -> Steps] /\ Connecting' = Connecting \ {t}
      /\ pc'[t] = step /\ \A u \in Threads \ {t} : pc'[u] = pc[u]
  BY Moving DEF PoolInv
<1>2. Connecting' = Connecting
  BY <1>1 DEF Connecting
<1>3. Idle' = Idle /\ Held' = Held
  BY DEF Idle, Held
<1>4. TypeOK'
  BY <1>1 DEF PoolInv, TypeOK, Steps
<1>5. QueuedOnce' /\ HeldApart' /\ OpenAccountedFor'
  BY <1>3 DEF PoolInv, QueuedOnce, HeldApart, OpenAccountedFor
<1>6. StepsHold' /\ FailedIsClosed'
  BY <1>1 DEF PoolInv, StepsHold, FailedIsClosed
<1>7. Exact'
  BY <1>2, <1>3 DEF PoolInv, Exact
<1>8. ~closed
  BY BusyIsOpen DEF PoolInv
<1>9. ClosedIsQuiet'
  BY <1>8 DEF ClosedIsQuiet
<1>10. QED
  BY <1>4, <1>5, <1>6, <1>7, <1>9 DEF PoolInv

LEMMA ExecuteInv ==
  ASSUME PoolInv, NEW t \in Threads, Execute(t)
  PROVE  PoolInv'
<1>1. replaced' \in [Threads -> BOOLEAN]
  BY DEF PoolInv, TypeOK, Execute
<1>2. queries' \in [Threads -> 0..MaxQueries]
  <2>1. queries[t] \in 0..MaxQueries /\ queries[t] < MaxQueries
    BY DEF PoolInv, TypeOK, Execute
  <2>2. queries[t] + 1 \in 0..MaxQueries
    BY <2>1, PoolAssumption
  <2>3. QED
    BY <2>2 DEF PoolInv, TypeOK, Execute
<1>3. QED
  BY <1>1, <1>2, OnlyMoves DEF Execute, Steps, Holding

LEMMA TimeOutInv ==
  ASSUME PoolInv, NEW t \in Threads, TimeOut(t)
  PROVE  PoolInv'
  BY OnlyMoves DEF TimeOut, Steps, Holding, PoolInv, TypeOK

\* The queue gave something up to the thread: a token, or a connection.
LEMMA TakingInv ==
  ASSUME PoolInv, NEW t \in Threads, NEW otherwise \in {"count", "try"},
         pc[t] \in {"try", "wait"}, pool # <<>>, pool' = Front(pool),
         IF Last(pool) = None THEN At(t, otherwise) /\ UNCHANGED conn
                              ELSE Borrowed(t, Last(pool)),
         UNCHANGED <<created, lock, opened, open, replaced, queries, closed>>
  PROVE  PoolInv'
<1>1. /\ pool' \in Queue /\ QueuedOnce' /\ Last(pool) \in Connections \cup {None}
      /\ Last(pool) = None => Idle' = Idle
      /\ Last(pool) # None => Last(pool) \in Idle /\ Idle' = Idle \ {Last(pool)}
  BY Taking DEF PoolInv, TypeOK, Queue
<1>2. conn[t] = None
  BY DEF PoolInv, StepsHold, Holding
<1>3. ~closed
  BY BusyIsOpen DEF PoolInv
<1>4. ClosedIsQuiet'
  BY <1>3 DEF ClosedIsQuiet
<1>5. PICK step \in {"count", "try", "ping", "use"} :
        /\ At(t, step)
        /\ step \in Holding <=> Last(pool) # None
  <2>1. CASE Last(pool) = None
    BY <2>1 DEF Holding
  <2>2. CASE Last(pool) # None
    BY <2>2 DEF Borrowed, Holding
  <2>3. QED
    BY <2>1, <2>2
<1>6. /\ pc' \in [Threads -> Steps] /\ Connecting' = Connecting \ {t}
      /\ pc'[t] = step /\ \A u \in Threads \ {t} : pc'[u] = pc[u]
  <2>1. step \in Steps /\ step # "connect"
    BY DEF Steps
  <2>2. QED
    BY <1>5, <2>1, Moving DEF PoolInv
<1>7. Connecting' = Connecting
  BY <1>6 DEF Connecting
<1>8. CASE Last(pool) = None
  <2>1. conn' = conn /\ Idle' = Idle /\ Held' = Held
    BY <1>1, <1>8 DEF Held
  <2>2. TypeOK'
    BY <1>1, <1>6, <2>1 DEF PoolInv, TypeOK, Steps, Queue
  <2>3. StepsHold' /\ FailedIsClosed'
    BY <1>2, <1>5, <1>6, <1>8, <2>1 DEF PoolInv, StepsHold, FailedIsClosed
  <2>4. HeldApart' /\ OpenAccountedFor'
    BY <2>1 DEF PoolInv, HeldApart, OpenAccountedFor
  <2>5. Exact'
    BY <1>7, <2>1 DEF PoolInv, Exact
  <2>6. QED
    BY <1>1, <1>4, <2>2, <2>3, <2>4, <2>5 DEF PoolInv
<1>9. CASE Last(pool) # None
  <2> DEFINE c == Last(pool)
  <2>1. c \in Idle /\ Idle' = Idle \ {c} /\ c \in Connections
    BY <1>1, <1>9
  <2>2. Holds(t, c)
    BY <1>9 DEF Borrowed
  <2>3. /\ conn' \in [Threads -> Connections \cup {None}]
        /\ conn'[t] = c /\ \A u \in Threads \ {t} : conn'[u] = conn[u]
        /\ t \notin Held /\ Held' = Held \cup {t}
    BY <1>2, <2>1, <2>2, Receiving DEF PoolInv
  <2>4. TypeOK'
    BY <1>1, <1>6, <2>3 DEF PoolInv, TypeOK, Steps, Queue
  <2>5. StepsHold' /\ FailedIsClosed'
    BY <1>5, <1>6, <1>9, <2>3 DEF PoolInv, StepsHold, FailedIsClosed
  <2>6. c \in 1..opened
    BY <2>1 DEF PoolInv, OpenAccountedFor, TypeOK
  <2>7. HeldApart'
    <3>1. \A u \in Held : conn[u] \in 1..opened /\ conn[u] \notin Idle
      BY DEF PoolInv, HeldApart
    <3>2. \A u \in Held : u \in Threads /\ u # t /\ conn'[u] = conn[u]
      BY <2>3 DEF Held
    <3>3. \A u \in Held : conn[u] # c
      BY <2>1, <3>1
    <3>4. \A u, v \in Held : conn[u] = conn[v] => u = v
      BY DEF PoolInv, HeldApart
    <3>5. c \notin Idle' /\ \A u \in Held : conn[u] \notin Idle'
      BY <2>1, <3>1
    <3>6. QED
      BY <2>3, <2>6, <3>1, <3>2, <3>3, <3>4, <3>5 DEF HeldApart
  <2>8. OpenAccountedFor'
    BY <2>1, <2>3 DEF PoolInv, OpenAccountedFor, Held
  <2>9. Exact'
    <3>1. /\ IsFiniteSet(Idle) /\ IsFiniteSet(Held)
          /\ Cardinality(Idle) \in Nat /\ Cardinality(Held) \in Nat
          /\ Cardinality(Connecting) \in Nat
      BY Counting DEF PoolInv
    <3>2. Cardinality(Idle') = Cardinality(Idle) - 1
      BY <2>1, <3>1, Taken
    <3>3. Cardinality(Held') = Cardinality(Held) + 1
      BY <2>3, <3>1, Given
    <3>4. created = Cardinality(Idle) + Cardinality(Held) + Cardinality(Connecting)
      BY <1>3 DEF PoolInv, Exact
    <3>5. created' = Cardinality(Idle') + Cardinality(Held') + Cardinality(Connecting')
      BY <1>7, <3>1, <3>2, <3>3, <3>4
    <3>6. QED
      BY <3>5 DEF Exact
  <2>10. QED
    BY <1>1, <1>4, <2>4, <2>5, <2>7, <2>8, <2>9 DEF PoolInv
<1>10. QED
  BY <1>8, <1>9

LEMMA TryInv ==
  ASSUME PoolInv, NEW t \in Threads, Try(t)
  PROVE  PoolInv'
<1>1. CASE pool = <<>>
  BY <1>1, OnlyMoves DEF Try, Steps, Holding, PoolInv, TypeOK
<1>2. CASE pool # <<>>
  BY <1>2, TakingInv DEF Try
<1>3. QED
  BY <1>1, <1>2

LEMMA WaitInv ==
  ASSUME PoolInv, NEW t \in Threads, Wait(t)
  PROVE  PoolInv'
  BY TakingInv DEF Wait

\* Capacity is claimed before there is a connection to show for it.
LEMMA CountInv ==
  ASSUME PoolInv, NEW t \in Threads, Count(t)
  PROVE  PoolInv'
<1>1. CASE ~HasRoom
  BY <1>1, OnlyMoves DEF Count, Steps, Holding, PoolInv, TypeOK
<1>2. CASE HasRoom
  <2>1. created' = created + 1 /\ lock' = {t} /\ At(t, "connect")
    BY <1>2 DEF Count
  <2>2. /\ pc' \in [Threads -> Steps] /\ Connecting' = Connecting \cup {t}
        /\ pc'[t] = "connect" /\ \A u \in Threads \ {t} : pc'[u] = pc[u]
    BY <2>1, Moving DEF PoolInv, Steps
  <2>3. Idle' = Idle /\ Held' = Held
    BY DEF Count, Idle, Held
  <2>4. ~closed
    BY BusyIsOpen DEF PoolInv, Count
  <2>5. created + 1 \in 0..PoolSize
    BY <1>2, PoolAssumption DEF HasRoom, PoolInv, TypeOK
  <2>6. TypeOK'
    BY <2>1, <2>2, <2>5 DEF PoolInv, TypeOK, Steps, Count
  <2>7. QueuedOnce' /\ HeldApart' /\ OpenAccountedFor'
    BY <2>3 DEF PoolInv, QueuedOnce, HeldApart, OpenAccountedFor, Count
  <2>8. StepsHold' /\ FailedIsClosed'
    BY <2>2 DEF PoolInv, StepsHold, FailedIsClosed, Holding, Count
  <2>9. Exact'
    <3>1. t \notin Connecting
      BY DEF Count, Connecting
    <3>2. IsFiniteSet(Connecting) /\ Cardinality(Connecting) \in Nat
          /\ Cardinality(Idle) \in Nat /\ Cardinality(Held) \in Nat
      BY Counting DEF PoolInv
    <3>3. Cardinality(Connecting') = Cardinality(Connecting) + 1
      BY <2>2, <3>1, <3>2, Given
    <3>4. created = Cardinality(Idle) + Cardinality(Held) + Cardinality(Connecting)
      BY <2>4 DEF PoolInv, Exact
    <3>5. created' = Cardinality(Idle') + Cardinality(Held') + Cardinality(Connecting')
      BY <2>1, <2>3, <3>2, <3>3, <3>4
    <3>6. QED
      BY <3>5 DEF Exact
  <2>10. ClosedIsQuiet'
    BY <2>4 DEF ClosedIsQuiet, Count
  <2>11. QED
    BY <2>6, <2>7, <2>8, <2>9, <2>10 DEF PoolInv
<1>3. QED
  BY <1>1, <1>2

\* What was claimed becomes a connection, or is given back.
LEMMA ConnectInv ==
  ASSUME PoolInv, NEW t \in Threads, Connect(t)
  PROVE  PoolInv'
<1>1. ~closed /\ ~closed'
  BY BusyIsOpen DEF PoolInv, Connect
<1>2. conn[t] = None /\ t \in Connecting
  BY DEF PoolInv, StepsHold, Holding, Connect, Connecting
<1>3. /\ IsFiniteSet(Held) /\ IsFiniteSet(Connecting)
      /\ Cardinality(Idle) \in Nat /\ Cardinality(Held) \in Nat
      /\ Cardinality(Connecting) \in Nat
  BY Counting DEF PoolInv
<1>4. created = Cardinality(Idle) + Cardinality(Held) + Cardinality(Connecting)
  BY <1>1 DEF PoolInv, Exact
<1>5. Cardinality(Connecting \ {t}) = Cardinality(Connecting) - 1
  BY <1>2, <1>3, Taken
<1>6. ClosedIsQuiet'
  BY <1>1 DEF ClosedIsQuiet
<1>7. CASE /\ opened < MaxConnects
           /\ opened' = opened + 1 /\ open' = open \cup {opened'}
           /\ Borrowed(t, opened')
           /\ UNCHANGED <<pool, created>>
  <2> DEFINE c == opened + 1
  <2>1. c \in Connections /\ opened' = c /\ c \in 0..MaxConnects /\ opened \in Nat
    BY <1>7, PoolAssumption DEF PoolInv, TypeOK, Connections
  <2>2. Holds(t, c)
    BY <1>7 DEF Borrowed
  <2>3. PICK step \in {"ping", "use"} : At(t, step)
    BY <1>7 DEF Borrowed
  <2>4. /\ pc' \in [Threads -> Steps] /\ Connecting' = Connecting \ {t}
        /\ pc'[t] = step /\ \A u \in Threads \ {t} : pc'[u] = pc[u]
    <3>1. step \in Steps /\ step # "connect"
      BY DEF Steps
    <3>2. QED
      BY <2>3, <3>1, Moving DEF PoolInv
  <2>5. /\ conn' \in [Threads -> Connections \cup {None}]
        /\ conn'[t] = c /\ \A u \in Threads \ {t} : conn'[u] = conn[u]
        /\ t \notin Held /\ Held' = Held \cup {t}
    BY <1>2, <2>1, <2>2, Receiving DEF PoolInv
  <2>6. Idle' = Idle
    BY <1>7 DEF Idle
  <2>7. \A d \in Idle : d \in 1..opened
    BY DEF PoolInv, OpenAccountedFor, TypeOK
  <2>8. TypeOK'
    <3>1. open' \subseteq 1..opened'
      BY <1>7, <2>1 DEF PoolInv, TypeOK
    <3>2. QED
      BY <1>7, <2>1, <2>4, <2>5, <3>1 DEF PoolInv, TypeOK, Steps, Connect
  <2>9. StepsHold'
    BY <2>1, <2>4, <2>5, NoneIsNoConnection DEF PoolInv, StepsHold, Holding
  <2>9a. FailedIsClosed'
    <3>1. ASSUME NEW u \in Threads, pc'[u] = "discard"
          PROVE  conn'[u] \notin open'
      <4>1. u # t /\ pc[u] = "discard" /\ conn'[u] = conn[u]
        BY <2>3, <2>4, <2>5, <3>1
      <4>2. u \in Held /\ conn[u] \in 1..opened
        BY <4>1 DEF PoolInv, StepsHold, Holding, Held, HeldApart
      <4>3. conn[u] # c
        BY <2>1, <4>2
      <4>4. conn[u] \notin open
        BY <4>1 DEF PoolInv, FailedIsClosed
      <4>5. QED
        BY <1>7, <2>1, <4>1, <4>3, <4>4
    <3>2. QED
      BY <3>1 DEF FailedIsClosed
  <2>10. HeldApart'
    <3>1. \A u \in Held : conn[u] \in 1..opened /\ conn[u] \notin Idle
      BY DEF PoolInv, HeldApart
    <3>2. \A u \in Held : u \in Threads /\ u # t /\ conn'[u] = conn[u]
      BY <2>5 DEF Held
    <3>3. \A u, v \in Held : conn[u] = conn[v] => u = v
      BY DEF PoolInv, HeldApart
    <3>4. c \notin Idle /\ \A u \in Held : conn[u] # c
      BY <2>1, <2>7, <3>1
    <3>5. c \in 1..opened' /\ \A u \in Held : conn[u] \in 1..opened'
      BY <2>1, <3>1
    <3>6. QED
      BY <2>5, <2>6, <3>1, <3>2, <3>3, <3>4, <3>5 DEF HeldApart
  <2>11. OpenAccountedFor'
    BY <1>7, <2>1, <2>5, <2>6 DEF PoolInv, OpenAccountedFor, Held
  <2>12. Cardinality(Held') = Cardinality(Held) + 1
    BY <1>3, <2>5, Given
  <2>13. created' = Cardinality(Idle') + Cardinality(Held') + Cardinality(Connecting')
    BY <1>3, <1>4, <1>5, <1>7, <2>4, <2>6, <2>12
  <2>14. QueuedOnce' /\ Exact'
    BY <1>7, <2>13 DEF PoolInv, QueuedOnce, Exact
  <2>15. QED
    BY <1>6, <2>8, <2>9, <2>10, <2>11, <2>14, <2>9a DEF PoolInv
<1>8. CASE /\ created' = created - 1 /\ pool' = Append(pool, None)
           /\ At(t, "idle")
           /\ UNCHANGED <<conn, opened, open>>
  <2>1. pool' \in Queue /\ QueuedOnce' /\ Idle' = Idle
    BY <1>8, PuttingNone DEF PoolInv, TypeOK, Queue
  <2>2. /\ pc' \in [Threads -> Steps] /\ Connecting' = Connecting \ {t}
        /\ pc'[t] = "idle" /\ \A u \in Threads \ {t} : pc'[u] = pc[u]
    BY <1>8, Moving DEF PoolInv, Steps
  <2>3. Held' = Held
    BY <1>8 DEF Held
  <2>4. created - 1 \in 0..PoolSize
    <3>1. Cardinality(Connecting) # 0
      BY <1>2, <1>3, FS_EmptySet
    <3>2. QED
      BY <1>3, <1>4, <3>1, PoolAssumption DEF PoolInv, TypeOK
  <2>5. TypeOK'
    BY <1>8, <2>1, <2>2, <2>4 DEF PoolInv, TypeOK, Steps, Queue, Connect
  <2>6. StepsHold' /\ FailedIsClosed'
    BY <1>2, <1>8, <2>2 DEF PoolInv, StepsHold, FailedIsClosed, Holding
  <2>7. HeldApart' /\ OpenAccountedFor'
    BY <1>8, <2>1, <2>3 DEF PoolInv, HeldApart, OpenAccountedFor
  <2>8. created' = Cardinality(Idle') + Cardinality(Held') + Cardinality(Connecting')
    BY <1>3, <1>4, <1>5, <1>8, <2>1, <2>2, <2>3
  <2>9. QED
    BY <1>6, <2>1, <2>5, <2>6, <2>7, <2>8 DEF PoolInv, Exact
<1>9. QED
  BY <1>7, <1>8 DEF Connect

\* The connection a thread holds may close under it.
LEMMA ClosesUnder ==
  ASSUME PoolInv, NEW t \in Threads, NEW from \in Holding, NEW step \in Holding,
         pc[t] = from, At(t, step), open' \in {open, open \ {conn[t]}},
         step = "discard" => open' = open \ {conn[t]},
         UNCHANGED <<pool, created, lock, opened, conn, replaced, queries, closed>>
  PROVE  PoolInv'
<1>1. from \in Steps /\ step \in Steps /\ from # "connect" /\ step # "connect" /\ from # "idle"
  BY DEF Holding, Steps
<1>2. /\ pc' \in [Threads -> Steps] /\ Connecting' = Connecting \ {t}
      /\ pc'[t] = step /\ \A u \in Threads \ {t} : pc'[u] = pc[u]
  BY <1>1, Moving DEF PoolInv
<1>3. Connecting' = Connecting
  BY <1>1, <1>2 DEF Connecting
<1>4. Idle' = Idle /\ Held' = Held
  BY DEF Idle, Held
<1>5. t \in Held
  BY DEF PoolInv, StepsHold, Held
<1>6. TypeOK'
  BY <1>2 DEF PoolInv, TypeOK, Steps
<1>7. QueuedOnce' /\ HeldApart'
  BY <1>4 DEF PoolInv, QueuedOnce, HeldApart
<1>8. OpenAccountedFor'
  BY <1>4, <1>5 DEF PoolInv, HeldApart, OpenAccountedFor
<1>9. StepsHold' /\ FailedIsClosed'
  BY <1>2 DEF PoolInv, StepsHold, FailedIsClosed
<1>10. Exact'
  BY <1>3, <1>4 DEF PoolInv, Exact
<1>11. ~closed
  BY <1>1, BusyIsOpen DEF PoolInv
<1>12. QED
  BY <1>6, <1>7, <1>8, <1>9, <1>10, <1>11 DEF PoolInv, ClosedIsQuiet

LEMMA PingInv ==
  ASSUME PoolInv, NEW t \in Threads, Ping(t)
  PROVE  PoolInv'
<1>1. PICK step \in {"use", "discard"} :
        /\ At(t, step)
        /\ open' = IF step = "use" THEN open ELSE open \ {conn[t]}
  BY DEF Ping
<1>2. QED
  BY <1>1, ClosesUnder DEF Ping, Holding

LEMMA UseInv ==
  ASSUME PoolInv, NEW t \in Threads, Use(t)
  PROVE  PoolInv'
<1>1. open' \in {open, open \ {conn[t]}}
  BY DEF Use
<1>2. QED
  BY <1>1, ClosesUnder DEF Use, Holding

\* A connection that was held is gone, and its slot free.
LEMMA DiscardInv ==
  ASSUME PoolInv, NEW t \in Threads, pc[t] \in Holding, NEW next \in {"try", "idle"},
         Discard(t, next), conn[t] \notin open,
         replaced' \in [Threads -> BOOLEAN]
  PROVE  PoolInv'
<1>1. conn[t] # None /\ t \notin Connecting
  BY DEF PoolInv, StepsHold, Holding, Connecting
<1>2. ~closed
  BY BusyIsOpen DEF PoolInv, Holding
<1>3. pool' \in Queue /\ QueuedOnce' /\ Idle' = Idle
  BY PuttingNone DEF PoolInv, TypeOK, Queue, Discard
<1>4. /\ pc' \in [Threads -> Steps] /\ Connecting' = Connecting \ {t}
      /\ pc'[t] = next /\ \A u \in Threads \ {t} : pc'[u] = pc[u]
  <2>1. next \in Steps /\ next # "connect"
    BY DEF Steps
  <2>2. QED
    BY <2>1, Moving DEF PoolInv, Discard
<1>5. Connecting' = Connecting
  BY <1>1, <1>4
<1>6. /\ conn' \in [Threads -> Connections \cup {None}]
      /\ conn'[t] = None /\ \A u \in Threads \ {t} : conn'[u] = conn[u]
      /\ t \in Held /\ Held' = Held \ {t}
  BY <1>1, GivingUp DEF PoolInv, Discard
<1>7. /\ IsFiniteSet(Held) /\ Cardinality(Idle) \in Nat /\ Cardinality(Held) \in Nat
      /\ Cardinality(Connecting) \in Nat
  BY Counting DEF PoolInv
<1>8. created = Cardinality(Idle) + Cardinality(Held) + Cardinality(Connecting)
  BY <1>2 DEF PoolInv, Exact
<1>9. Cardinality(Held') = Cardinality(Held) - 1
  BY <1>6, <1>7, Taken
<1>10. created - 1 \in 0..PoolSize
  <2>1. Cardinality(Held) # 0
    BY <1>6, <1>7, FS_EmptySet
  <2>2. QED
    BY <1>7, <1>8, <2>1, PoolAssumption DEF PoolInv, TypeOK
<1>11. TypeOK'
  BY <1>3, <1>4, <1>6, <1>10 DEF PoolInv, TypeOK, Steps, Queue, Discard
<1>12. StepsHold' /\ FailedIsClosed'
  BY <1>4, <1>6 DEF PoolInv, StepsHold, FailedIsClosed, Holding, Discard
<1>13. HeldApart'
  BY <1>3, <1>6 DEF PoolInv, HeldApart, Discard, Held
<1>14. OpenAccountedFor'
  BY <1>3, <1>6 DEF PoolInv, OpenAccountedFor, Discard, Held
<1>15. created' = Cardinality(Idle') + Cardinality(Held') + Cardinality(Connecting')
  BY <1>3, <1>5, <1>7, <1>8, <1>9 DEF Discard
<1>16. Exact' /\ ClosedIsQuiet'
  BY <1>2, <1>15 DEF Exact, ClosedIsQuiet, Discard
<1>17. QED
  BY <1>3, <1>11, <1>12, <1>13, <1>14, <1>16 DEF PoolInv

LEMMA ReplaceInv ==
  ASSUME PoolInv, NEW t \in Threads, Replace(t)
  PROVE  PoolInv'
<1>1. pc[t] \in Holding /\ conn[t] \notin open
  BY DEF Replace, Holding, PoolInv, FailedIsClosed
<1>2. replaced' \in [Threads -> BOOLEAN]
  BY DEF Replace, PoolInv, TypeOK
<1>3. QED
  BY <1>1, <1>2, DiscardInv DEF Replace

LEMMA ReturnInv ==
  ASSUME PoolInv, NEW t \in Threads, Return(t)
  PROVE  PoolInv'
<1>1. pc[t] = "return" /\ pc[t] \in Holding /\ conn[t] # None /\ t \notin Connecting
  BY DEF Return, Holding, PoolInv, StepsHold, Connecting
<1>2. CASE conn[t] \notin open
  BY <1>1, <1>2, DiscardInv DEF Return, PutBack, PoolInv, TypeOK
<1>3. CASE conn[t] \in open
  <2> DEFINE c == conn[t]
  <2>1. PutBackAnyway(t)
    BY <1>3 DEF Return, PutBack
  <2>2. t \in Held /\ c \in Connections /\ c \notin Idle
    BY <1>1 DEF PoolInv, TypeOK, HeldApart, Held
  <2>3. pool' \in Queue /\ QueuedOnce' /\ Idle' = Idle \cup {c}
    BY <2>1, <2>2, PuttingBack DEF PoolInv, TypeOK, Queue, PutBackAnyway
  <2>4. /\ conn' \in [Threads -> Connections \cup {None}]
        /\ conn'[t] = None /\ \A u \in Threads \ {t} : conn'[u] = conn[u]
        /\ Held' = Held \ {t}
    BY <1>1, <2>1, GivingUp DEF PoolInv, PutBackAnyway
  <2>5. /\ pc' \in [Threads -> Steps] /\ Connecting' = Connecting \ {t}
        /\ pc'[t] = "idle" /\ \A u \in Threads \ {t} : pc'[u] = pc[u]
    BY <2>1, Moving DEF PoolInv, Steps, PutBackAnyway
  <2>6. ~closed
    BY <1>1, BusyIsOpen DEF PoolInv
  <2>7. TypeOK'
    BY <2>1, <2>3, <2>4, <2>5 DEF PoolInv, TypeOK, Steps, Queue, PutBackAnyway, Return
  <2>8. StepsHold' /\ FailedIsClosed'
    BY <2>1, <2>4, <2>5 DEF PoolInv, StepsHold, FailedIsClosed, Holding, PutBackAnyway
  <2>9. HeldApart'
    <3>1. ASSUME NEW u \in Held'
          PROVE  u \in Held /\ u # t /\ conn'[u] = conn[u] /\ conn[u] # c
      BY <2>2, <2>4 DEF PoolInv, HeldApart, Held
    <3>2. QED
      BY <2>1, <2>3, <3>1 DEF PoolInv, HeldApart, PutBackAnyway
  <2>10. OpenAccountedFor'
    BY <1>3, <2>1, <2>3, <2>4 DEF PoolInv, OpenAccountedFor, Held, PutBackAnyway
  <2>11. Exact'
    <3>1. /\ IsFiniteSet(Idle) /\ IsFiniteSet(Held)
          /\ Cardinality(Idle) \in Nat /\ Cardinality(Held) \in Nat
          /\ Cardinality(Connecting) \in Nat
      BY Counting DEF PoolInv
    <3>2. created = Cardinality(Idle) + Cardinality(Held) + Cardinality(Connecting)
      BY <2>6 DEF PoolInv, Exact
    <3>3. Cardinality(Idle') = Cardinality(Idle) + 1
      BY <2>2, <2>3, <3>1, Given
    <3>4. Cardinality(Held') = Cardinality(Held) - 1
      BY <2>2, <2>4, <3>1, Taken
    <3>5. Connecting' = Connecting
      BY <1>1, <2>5
    <3>6. created' = Cardinality(Idle') + Cardinality(Held') + Cardinality(Connecting')
      BY <2>1, <3>1, <3>2, <3>3, <3>4, <3>5 DEF PutBackAnyway
    <3>7. QED
      BY <3>6 DEF Exact
  <2>12. ClosedIsQuiet'
    BY <2>1, <2>6 DEF ClosedIsQuiet, PutBackAnyway
  <2>13. QED
    BY <2>3, <2>7, <2>8, <2>9, <2>10, <2>11, <2>12 DEF PoolInv
<1>4. QED
  BY <1>2, <1>3

\* With every thread idle, no connection is held, and those in the queue are
\* all that is open.
LEMMA CloseInv ==
  ASSUME PoolInv, Close
  PROVE  PoolInv'
<1>1. \A t \in Threads : conn[t] = None
  BY DEF Close, PoolInv, StepsHold, Holding
<1>2. Held = {} /\ Held' = {}
  BY <1>1 DEF Held, Close
<1>3. Range(pool) = {pool[i] : i \in 1..Len(pool)}
  BY DEF Range, PoolInv, TypeOK
<1>4. Idle \subseteq Range(pool)
  BY <1>3 DEF Idle, Contains
<1>5. open' = {}
  BY <1>2, <1>4 DEF Close, PoolInv, OpenAccountedFor
<1>6. pool' = <<>> /\ pool' \in Queue /\ closed'
  BY DEF Close, Queue
<1>7. Idle' = {}
  BY <1>6 DEF Idle, Contains
<1>8. TypeOK'
  BY <1>5, <1>6 DEF PoolInv, TypeOK, Close, Queue
<1>9. QueuedOnce' /\ StepsHold' /\ HeldApart' /\ OpenAccountedFor' /\ FailedIsClosed'
  BY <1>2, <1>5, <1>6, <1>7
     DEF Close, PoolInv, QueuedOnce, StepsHold, HeldApart, OpenAccountedFor, FailedIsClosed
<1>10. Exact' /\ ClosedIsQuiet'
  BY <1>5, <1>6 DEF Exact, ClosedIsQuiet, Close
<1>11. QED
  BY <1>8, <1>9, <1>10 DEF PoolInv

LEMMA StutterInv ==
  ASSUME PoolInv, UNCHANGED vars
  PROVE  PoolInv'
<1>1. Idle' = Idle /\ Held' = Held /\ Connecting' = Connecting
  BY DEF vars, Idle, Held, Connecting
<1>2. QED
  BY <1>1
     DEF vars, PoolInv, TypeOK, QueuedOnce, StepsHold, HeldApart, OpenAccountedFor,
         FailedIsClosed, Exact, ClosedIsQuiet

LEMMA NextInv ==
  ASSUME PoolInv, [Next]_vars
  PROVE  PoolInv'
<1>1. ASSUME NEW t \in Threads, Execute(t) \/ Step(t) \/ TimeOut(t)
      PROVE  PoolInv'
  BY <1>1, ExecuteInv, TimeOutInv, TryInv, CountInv, ConnectInv, WaitInv, PingInv,
     ReplaceInv, UseInv, ReturnInv
     DEF Step
<1>2. CASE Close
  BY <1>2, CloseInv
<1>3. CASE UNCHANGED vars
  BY <1>3, StutterInv
<1>4. QED
  BY <1>1, <1>2, <1>3 DEF Next

\* Whatever fails and whenever, each connection is in one place and each slot
\* is counted once.
THEOREM PoolInvariant == Spec => []PoolInv
<1>1. Init => PoolInv
  BY InitInv
<1>2. PoolInv /\ [Next]_vars => PoolInv'
  BY NextInv
<1>3. QED
  BY <1>1, <1>2, PTL DEF Spec

-----------------------------------------------------------------------------
(* What follows. *)

\* No slot is lost for good and none is used twice: the count is what is idle,
\* held or being opened, and never more than the pool's size.
THEOREM TheCountIsExact == Spec => []CountIsExact
<1>1. PoolInv => CountIsExact
  BY DEF PoolInv, TypeOK, Exact, CountIsExact
<1>2. QED
  BY <1>1, PoolInvariant, PTL

\* Two threads never talk over one connection, a borrower is never handed one
\* that was closed when it was put back, and none stays open after close.
THEOREM ConnectionsHaveOneUser == Spec => []OneUserPerConnection
<1>1. PoolInv => OneUserPerConnection
  BY DEF PoolInv, QueuedOnce, HeldApart, OpenAccountedFor, ClosedIsQuiet, OneUserPerConnection
<1>2. QED
  BY <1>1, PoolInvariant, PTL
=============================================================================
