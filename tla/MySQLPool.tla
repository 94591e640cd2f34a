----------------------------- MODULE MySQLPool ------------------------------
(***************************************************************************)
(* MySQLConnector's connections: threads that borrow one each from a LIFO  *)
(* queue, open one when the count allows it, or wait.  The queue also holds *)
(* None, a token that says capacity was released.  The count changes under *)
(* the lock, which is held while a connection is being opened; the queue   *)
(* has a lock of its own, so a get or a put is one step.  Opening, pinging *)
(* and using a connection may fail whenever they happen.                   *)
(***************************************************************************)
EXTENDS Integers, Sequences, SequencesExt, FiniteSets

CONSTANTS Threads,
          PoolSize,      \* the pool_size of the connector
          MaxQueries,    \* bounds: statements of one thread,
          MaxConnects    \* and connections opened

ASSUME PoolAssumption ==
  IsFiniteSet(Threads) /\ PoolSize \in Nat \ {0} /\ MaxQueries \in Nat /\ MaxConnects \in Nat

None == 0
Connections == 1..MaxConnects

VARIABLES
  pool,      \* the queue: connections and None, the next to be taken last
  created,   \* _created
  lock,      \* the thread that holds _lock, if any
  opened,    \* connections opened so far
  open,      \* the connections that are open
  pc, conn,  \* where each thread is, and the connection it holds
  replaced,  \* the thread is borrowing again after a failed ping
  queries,   \* statements each thread has begun
  closed     \* the connector was closed

vars == <<pool, created, lock, opened, open, pc, conn, replaced, queries, closed>>

Init ==
  /\ pool = <<>> /\ created = 0 /\ lock = {} /\ opened = 0 /\ open = {}
  /\ pc = [t \in Threads |-> "idle"] /\ conn = [t \in Threads |-> None]
  /\ replaced = [t \in Threads |-> FALSE] /\ queries = [t \in Threads |-> 0]
  /\ closed = FALSE

At(t, step) == pc' = [pc EXCEPT ![t] = step]
Holds(t, c) == conn' = [conn EXCEPT ![t] = c]

Execute(t) ==
  /\ pc[t] = "idle" /\ ~closed /\ queries[t] < MaxQueries
  /\ queries' = [queries EXCEPT ![t] = @ + 1]
  /\ replaced' = [replaced EXCEPT ![t] = FALSE]
  /\ At(t, "try")
  /\ UNCHANGED <<pool, created, lock, opened, open, conn, closed>>

\* A connection from the queue is pinged; the one that replaces it is not.
Borrowed(t, c) == Holds(t, c) /\ At(t, IF replaced[t] THEN "use" ELSE "ping")

\* get_nowait: a connection, or a reason to look at the count.
Try(t) ==
  /\ pc[t] = "try"
  /\ IF pool = <<>>
       THEN At(t, "count") /\ UNCHANGED <<pool, conn>>
       ELSE /\ pool' = Front(pool)
            /\ IF Last(pool) = None THEN At(t, "count") /\ UNCHANGED conn
                                    ELSE Borrowed(t, Last(pool))
  /\ UNCHANGED <<created, lock, opened, open, replaced, queries, closed>>

HasRoom == created < PoolSize

\* Capacity is claimed under the lock, which is kept while connecting.
Count(t) ==
  /\ pc[t] = "count" /\ lock = {}
  /\ IF HasRoom
       THEN created' = created + 1 /\ lock' = {t} /\ At(t, "connect")
       ELSE At(t, "wait") /\ UNCHANGED <<created, lock>>
  /\ UNCHANGED <<pool, opened, open, conn, replaced, queries, closed>>

ConnectKeepsItsSlot(t) ==
  /\ pc[t] = "connect"
  /\ lock' = {}
  /\ \/ /\ opened < MaxConnects
        /\ opened' = opened + 1 /\ open' = open \cup {opened'}
        /\ Borrowed(t, opened')
        /\ UNCHANGED <<pool, created>>
     \/ /\ At(t, "idle")
        /\ UNCHANGED <<pool, created, conn, opened, open>>
  /\ UNCHANGED <<replaced, queries, closed>>

\* A failure gives the slot back, with a token, before it is raised.
Connect(t) ==
  /\ pc[t] = "connect"
  /\ lock' = {}
  /\ \/ /\ opened < MaxConnects
        /\ opened' = opened + 1 /\ open' = open \cup {opened'}
        /\ Borrowed(t, opened')
        /\ UNCHANGED <<pool, created>>
     \/ /\ created' = created - 1 /\ pool' = Append(pool, None)
        /\ At(t, "idle")
        /\ UNCHANGED <<conn, opened, open>>
  /\ UNCHANGED <<replaced, queries, closed>>

\* The queue hands over a connection, or a token: then all starts again.
Wait(t) ==
  /\ pc[t] = "wait" /\ pool # <<>>
  /\ pool' = Front(pool)
  /\ IF Last(pool) = None THEN At(t, "try") /\ UNCHANGED conn
                          ELSE Borrowed(t, Last(pool))
  /\ UNCHANGED <<created, lock, opened, open, replaced, queries, closed>>

\* The deadline passed and the queue is empty: the statement is refused.
TimeOut(t) ==
  /\ pc[t] = "wait" /\ pool = <<>>
  /\ At(t, "idle")
  /\ UNCHANGED <<pool, created, lock, opened, open, conn, replaced, queries, closed>>

\* A ping fails with a MySQLError; any other exception would leave the slot
\* counted and the connection with nobody (mysql.py:168), and is not modelled.
Ping(t) ==
  /\ pc[t] = "ping"
  /\ \/ At(t, "use") /\ UNCHANGED open
     \/ At(t, "discard") /\ open' = open \ {conn[t]}
  /\ UNCHANGED <<pool, created, lock, opened, conn, replaced, queries, closed>>

DiscardQuietly(t, next) ==
  /\ lock = {}
  /\ created' = created - 1
  /\ Holds(t, None) /\ At(t, next)
  /\ UNCHANGED <<pool, lock, opened, open, queries, closed>>

\* A closed connection gives its slot back, with a token for whoever waits.
Discard(t, next) ==
  /\ lock = {}
  /\ created' = created - 1 /\ pool' = Append(pool, None)
  /\ Holds(t, None) /\ At(t, next)
  /\ UNCHANGED <<lock, opened, open, queries, closed>>

\* After a failed ping the thread borrows again, with a new deadline.
Replace(t) ==
  /\ pc[t] = "discard"
  /\ Discard(t, "try")
  /\ replaced' = [replaced EXCEPT ![t] = TRUE]

\* The statement ends; a result that was not read to its end, and most errors,
\* close the connection.
Use(t) ==
  /\ pc[t] = "use"
  /\ \E still \in BOOLEAN : open' = IF still THEN open ELSE open \ {conn[t]}
  /\ At(t, "return")
  /\ UNCHANGED <<pool, created, lock, opened, conn, replaced, queries, closed>>

PutBackAnyway(t) ==
  /\ pool' = Append(pool, conn[t])
  /\ Holds(t, None) /\ At(t, "idle")
  /\ UNCHANGED <<created, lock, opened, open, queries, closed>>

PutBack(t) ==
  IF conn[t] \in open
    THEN PutBackAnyway(t)
    ELSE Discard(t, "idle")

Return(t) ==
  /\ pc[t] = "return"
  /\ PutBack(t)
  /\ UNCHANGED replaced

\* Called after all queries finish: what is in the queue is closed.
Close ==
  /\ ~closed /\ \A t \in Threads : pc[t] = "idle"
  /\ closed' = TRUE
  /\ pool' = <<>> /\ open' = open \ Range(pool)
  /\ UNCHANGED <<created, lock, opened, pc, conn, replaced, queries>>

Step(t) == Try(t) \/ Count(t) \/ Connect(t) \/ Wait(t) \/ Ping(t) \/ Replace(t)
             \/ Use(t) \/ Return(t)

Next == (\E t \in Threads : Execute(t) \/ Step(t) \/ TimeOut(t)) \/ Close

\* Connecting, pinging and a statement have timeouts.  No fairness is asked of
\* TimeOut: a borrower that is served must not owe it to its own deadline.
Spec == Init /\ [][Next]_vars /\ \A t \in Threads : WF_vars(Step(t))

Idle == {c \in Connections : Contains(pool, c)}
Held == {t \in Threads : conn[t] # None}
Connecting == {t \in Threads : pc[t] = "connect"}

TypeOK ==
  /\ pool \in Seq(Connections \cup {None}) /\ created \in 0..PoolSize
  /\ lock \in {{}} \cup {{t} : t \in Threads}
  /\ opened \in 0..MaxConnects /\ open \subseteq 1..opened
  /\ pc \in [Threads -> {"idle", "try", "count", "connect", "wait", "ping",
                         "discard", "use", "return"}]
  /\ conn \in [Threads -> Connections \cup {None}]
  /\ replaced \in [Threads -> BOOLEAN] /\ queries \in [Threads -> 0..MaxQueries]
  /\ closed \in BOOLEAN

\* However opening, pinging and using a connection fail, the count is the
\* connections that are idle, held or being opened, and never more than the
\* pool's size: no slot is lost for good and none is used twice.
CountIsExact ==
  ~closed => /\ created = Cardinality(Idle) + Cardinality(Held) + Cardinality(Connecting)
             /\ created <= PoolSize

\* A connection has one user: it is in the queue once or with one thread, what
\* is in the queue is open, and a closed connector leaves no connection open.
OneUserPerConnection ==
  /\ \A i, j \in DOMAIN pool : pool[i] = pool[j] /\ pool[i] # None => i = j
  /\ \A t \in Held : conn[t] \notin Idle /\ \A u \in Held : conn[u] = conn[t] => u = t
  /\ Idle \subseteq open
  /\ closed => open = {}

\* A borrower is answered even if its deadline never passes: whoever fails
\* hands the slot on, so nobody is left waiting for a connection for good.
EveryBorrowerIsServed ==
  \A t \in Threads : pc[t] = "wait" ~> pc[t] # "wait"
=============================================================================
