----------------------------- MODULE AskProofs ------------------------------
(***************************************************************************)
(* Theorems about Ask, for every number of turns, retries and remembered   *)
(* turns, whatever the model answers: a run is bounded, it ends once, the  *)
(* session's memory is the last answered questions, the trace names every  *)
(* call, and what is sent to the model keeps each call with its result,    *)
(* drops nothing that would still have fitted, and shows the last result   *)
(* where one turn fits the budget.                                         *)
(*                                                                         *)
(* The inductive invariant ties what a run counts to the turn it is at: a  *)
(* model call under way has been counted and the turn's statement has not  *)
(* been sent yet, and only the plain call that ends a run is one more.  A  *)
(* second one, which rests on it, says what the run has put in its history *)
(* and in the trace file.                                                  *)
(***************************************************************************)
EXTENDS Ask, SiftProofs, SequenceTheorems

-----------------------------------------------------------------------------
(* The inductive invariant. *)

\* The agent's locals, whatever its messages cost.
AgentTyped(a) ==
  /\ a = [history |-> a.history, last |-> a.last, unusable |-> a.unusable,
          failed |-> a.failed, turn |-> a.turn, dispatched |-> a.dispatched,
          calls |-> a.calls]
  /\ a.last \in Calls \cup {None} /\ a.unusable \in Nat /\ a.failed \in Nat
  /\ a.turn \in 1..MaxTurns /\ a.dispatched \in Seq(Calls) /\ a.calls \in Nat

HttpCalls == [attempt : Nat, plain : BOOLEAN, failure : HttpFailures \cup {None}]
Questions == [n : Nat, size : Nat, replies : Nat]

Typed ==
  /\ mode \in {"ask", "chat"}
  /\ pc \in {"prompt", "post", "tool", "clarify", "over"}
  /\ question \in Questions
  /\ AgentTyped(agent) /\ http \in HttpCalls
  /\ run \in Seq(Events)
  /\ conversation \in Seq(Messages) /\ answered \in Seq(Nat)

OnlyReads(sent) ==
  \A i \in DOMAIN sent : \A q \in Queries : q.name = sent[i] => q.effect = "read"
NeverTwiceInARow(sent) == \A i \in 2..Len(sent) : sent[i - 1] # sent[i]

\* What is so of the agent's counts at any time.
Bounded(a) ==
  /\ a.calls <= MaxTurns + 1 /\ Len(a.dispatched) <= MaxTurns
  /\ a.failed <= MaxRetries + 1
  /\ NeverTwiceInARow(a.dispatched) /\ OnlyReads(a.dispatched)

LastSentIs(a, c) == a.dispatched # <<>> => a.dispatched[Len(a.dispatched)] = c

\* The model has been called for this turn.
AtPost(a, plain) ==
  /\ a.failed <= MaxRetries
  /\ a.calls = a.turn + (IF plain THEN 1 ELSE 0)
  /\ Len(a.dispatched) < a.turn
  /\ LastSentIs(a, a.last)

\* It has proposed a call other than the one before.
AtTool(a) ==
  /\ a.failed <= MaxRetries /\ a.calls = a.turn /\ Len(a.dispatched) < a.turn
  /\ a.last \in Calls
  /\ a.dispatched # <<>> => a.dispatched[Len(a.dispatched)] # a.last

\* It has taken what this turn brought and may go on.
Onwards(a) ==
  /\ AgentTyped(a) /\ Bounded(a)
  /\ a.failed <= MaxRetries /\ a.calls = a.turn /\ Len(a.dispatched) <= a.turn
  /\ LastSentIs(a, a.last)

Counted ==
  /\ Bounded(agent)
  /\ pc = "post" => AtPost(agent, http.plain) /\ http.attempt <= HttpRetries
  /\ pc = "tool" => AtTool(agent) /\ ~http.plain
  /\ http.attempt <= HttpRetries + 1

AskInv == Typed /\ Counted /\ OneTerminalEvent /\ MemoryIsTheLastAnswers

LEMMA BoundsGiven ==
  /\ MaxTurns \in Nat \ {0} /\ MaxRetries \in Nat /\ HttpRetries \in Nat
  /\ MaxRememberedTurns \in Nat \ {0}
  BY AskAssumption

-----------------------------------------------------------------------------
(* Events. *)

\* Events none of which ends a run, and events the last of which does.
GoesOn(events) ==
  events \in Seq(Events) /\ \A i \in DOMAIN events : events[i].type \notin Terminal
Ends(events) ==
  /\ events \in Seq(Events) /\ events # <<>>
  /\ \A i \in DOMAIN events : events[i].type \in Terminal <=> i = Len(events)

LEMMA EventIsTyped ==
  ASSUME NEW type \in Terminal \cup {"ToolCall", "Observation", "Retry"},
         NEW c \in Calls \cup {None}
  PROVE  Event(type, c) \in Events /\ Event(type, c).type = type
  BY DEF Event, Events

LEMMA OneEventGoesOn ==
  ASSUME NEW type \in {"ToolCall", "Observation", "Retry"}, NEW c \in Calls \cup {None}
  PROVE  GoesOn(<<Event(type, c)>>)
<1>1. Event(type, c) \in Events /\ Event(type, c).type = type
  BY EventIsTyped
<1>2. type \notin Terminal
  BY DEF Terminal
<1> QED
  BY <1>1, <1>2 DEF GoesOn

\* An end after events that go on.
LEMMA EndAfter ==
  ASSUME NEW events, GoesOn(events), NEW type \in Terminal, NEW c \in Calls \cup {None}
  PROVE  /\ Ends(Append(events, Event(type, c)))
         /\ Append(events, Event(type, c))[Len(Append(events, Event(type, c)))].type = type
         /\ Append(events, Event(type, c)) = events \o <<Event(type, c)>>
<1> DEFINE e == Event(type, c)
<1>1. e \in Events /\ e.type = type
  BY EventIsTyped
<1>2. events \in Seq(Events) /\ \A i \in DOMAIN events : events[i].type \notin Terminal
  BY DEF GoesOn
<1> HIDE DEF e
<1> QED
  BY <1>1, <1>2 DEF Ends, e

LEMMA EndAlone ==
  ASSUME NEW type \in Terminal, NEW c \in Calls \cup {None}
  PROVE  Ends(<<Event(type, c)>>) /\ Last(<<Event(type, c)>>).type = type
<1>1. Event(type, c) \in Events /\ Event(type, c).type = type
  BY EventIsTyped
<1> QED
  BY <1>1 DEF Ends, Last

\* A run under way has not ended.
LEMMA UnderWay ==
  ASSUME Typed, OneTerminalEvent, pc \in {"post", "tool"}
  PROVE  GoesOn(run)
<1>1. run \in Seq(Events)
  BY DEF Typed
<1>2. \A i \in DOMAIN run : run[i].type \in Terminal => i = Len(run)
  BY DEF OneTerminalEvent
<1>3. run = <<>> \/ run[Len(run)].type \notin Terminal
  BY DEF OneTerminalEvent, Last
<1> QED
  BY <1>1, <1>2, <1>3 DEF GoesOn

LEMMA GoesOnAfter ==
  ASSUME NEW r, GoesOn(r), NEW s, GoesOn(s)
  PROVE  GoesOn(r \o s)
  BY DEF GoesOn

LEMMA EndsAfter ==
  ASSUME NEW r, GoesOn(r), NEW s, Ends(s)
  PROVE  Ends(r \o s) /\ Last(r \o s) = Last(s)
<1>1. r \in Seq(Events) /\ s \in Seq(Events) /\ Len(s) \in Nat \ {0}
  BY DEF GoesOn, Ends
<1>2. \A i \in DOMAIN r : r[i].type \notin Terminal
  BY DEF GoesOn
<1>3. \A i \in DOMAIN s : s[i].type \in Terminal <=> i = Len(s)
  BY DEF Ends
<1>4. Len(r \o s) = Len(r) + Len(s) /\ r \o s \in Seq(Events) /\ Len(r) \in Nat
  BY <1>1
<1>5. ASSUME NEW i \in DOMAIN (r \o s)
      PROVE  (r \o s)[i].type \in Terminal <=> i = Len(r \o s)
  <2>1. CASE i <= Len(r)
    BY <1>1, <1>2, <1>4, <2>1
  <2>2. CASE i > Len(r)
    <3>1. i - Len(r) \in DOMAIN s /\ (r \o s)[i] = s[i - Len(r)]
      BY <1>1, <1>4, <2>2
    <3> QED
      BY <1>3, <1>4, <3>1
  <2> QED
    BY <1>4, <2>1, <2>2
<1>6. (r \o s)[Len(r \o s)] = s[Len(s)]
  BY <1>1, <1>4
<1> QED
  BY <1>1, <1>4, <1>5, <1>6 DEF Ends, Last

-----------------------------------------------------------------------------
(* The session's memory. *)

LEMMA MessageIsTyped ==
  ASSUME NEW role \in Roles, NEW size \in Nat, NEW of \in Nat
  PROVE  /\ Message(role, size, of) \in Messages
         /\ Message(role, size, of).role = role /\ Message(role, size, of).of = of
  BY DEF Message, Messages

\* What the memory keeps of the questions answered so far.
Kept(ans) == IF Len(ans) > MaxRememberedTurns THEN Newest(ans, MaxRememberedTurns) ELSE ans
KeptLen(n) == IF n > MaxRememberedTurns THEN MaxRememberedTurns ELSE n

RemembersOne(conv, at, n) ==
  /\ conv[2 * at - 1].role = "user" /\ conv[2 * at].role = "assistant"
  /\ conv[2 * at - 1].of = n /\ conv[2 * at].of = n

\* The memory, by the place of each kept question among those answered.
RemembersTheLast(conv, ans) ==
  /\ Len(conv) = 2 * KeptLen(Len(ans))
  /\ \A i \in 1..KeptLen(Len(ans)) :
       RemembersOne(conv, i, ans[Len(ans) - KeptLen(Len(ans)) + i])

LEMMA KeptIsNewest ==
  ASSUME NEW ans \in Seq(Nat)
  PROVE  /\ KeptLen(Len(ans)) \in Nat /\ KeptLen(Len(ans)) <= Len(ans)
         /\ KeptLen(Len(ans)) <= MaxRememberedTurns
         /\ DOMAIN Kept(ans) = 1..KeptLen(Len(ans)) /\ Len(Kept(ans)) = KeptLen(Len(ans))
         /\ \A i \in 1..KeptLen(Len(ans)) :
              Kept(ans)[i] = ans[Len(ans) - KeptLen(Len(ans)) + i]
<1> DEFINE M == MaxRememberedTurns
           L == Len(ans)
<1>1. M \in Nat \ {0} /\ L \in Nat
  BY BoundsGiven
<1>2. CASE L > M
  <2>1. KeptLen(L) = M /\ Kept(ans) = SubSeq(ans, L - M + 1, L)
    BY <1>2 DEF KeptLen, Kept, Newest
  <2>2. Len(Kept(ans)) = M /\ DOMAIN Kept(ans) = 1..M
    BY <1>1, <1>2, <2>1
  <2>3. \A i \in 1..M : Kept(ans)[i] = ans[L - M + i]
    BY <1>1, <1>2, <2>1
  <2> QED
    BY <1>1, <1>2, <2>1, <2>2, <2>3
<1>3. CASE ~(L > M)
  <2>1. KeptLen(L) = L /\ Kept(ans) = ans
    BY <1>3 DEF KeptLen, Kept
  <2> QED
    BY <1>1, <1>3, <2>1
<1> QED
  BY <1>2, <1>3

LEMMA MemoryByPlace ==
  ASSUME NEW ans \in Seq(Nat), NEW conv \in Seq(Messages)
  PROVE  RemembersTheLast(conv, ans) <=>
           /\ Len(conv) = 2 * Len(Kept(ans))
           /\ \A i \in DOMAIN Kept(ans) : RemembersOne(conv, i, Kept(ans)[i])
  BY KeptIsNewest DEF RemembersTheLast

LEMMA MemoryNow ==
  MemoryIsTheLastAnswers <=>
    /\ Len(conversation) = 2 * Len(Kept(answered))
    /\ \A i \in DOMAIN Kept(answered) : RemembersOne(conversation, i, Kept(answered)[i])
  BY DEF MemoryIsTheLastAnswers, Kept, RemembersOne

LEMMA MemoryNext ==
  MemoryIsTheLastAnswers' <=>
    /\ Len(conversation') = 2 * Len(Kept(answered'))
    /\ \A i \in DOMAIN Kept(answered') : RemembersOne(conversation', i, Kept(answered')[i])
  BY DEF MemoryIsTheLastAnswers, Kept, RemembersOne

LEMMA PairAtTheEnd ==
  ASSUME NEW conv \in Seq(Messages), NEW u \in Messages, NEW v \in Messages
  PROVE  LET all == conv \o <<u, v>> IN
         /\ all \in Seq(Messages) /\ Len(all) = Len(conv) + 2
         /\ \A j \in 1..Len(conv) : all[j] = conv[j]
         /\ all[Len(conv) + 1] = u /\ all[Len(conv) + 2] = v
<1> DEFINE pair == <<u, v>>
           all == conv \o pair
<1>1. pair \in Seq(Messages) /\ Len(pair) = 2 /\ pair[1] = u /\ pair[2] = v
  OBVIOUS
<1> HIDE DEF pair
<1>2. all \in Seq(Messages) /\ Len(all) = Len(conv) + Len(pair)
  BY <1>1, ConcatProperties
<1>3. \A j \in 1..Len(conv) + Len(pair) :
        all[j] = IF j <= Len(conv) THEN conv[j] ELSE pair[j - Len(conv)]
  BY <1>1, ConcatProperties
<1>4. Len(conv) \in Nat
  OBVIOUS
<1> HIDE DEF all
<1>5. \A j \in 1..Len(conv) : all[j] = conv[j]
  BY <1>1, <1>3, <1>4
<1>6. all[Len(conv) + 1] = pair[1] /\ all[Len(conv) + 2] = pair[2]
  BY <1>1, <1>3, <1>4
<1> QED
  BY <1>1, <1>2, <1>5, <1>6 DEF all

\* The places of the kept questions, one more of them.
LEMMA OneMore ==
  ASSUME NEW ans \in Seq(Nat), NEW conv \in Seq(Messages), RemembersTheLast(conv, ans),
         NEW n \in Nat, NEW all \in Seq(Messages), Len(all) = Len(conv) + 2,
         \A j \in 1..Len(conv) : all[j] = conv[j],
         RemembersOne(all, KeptLen(Len(ans)) + 1, n)
  PROVE  \A i \in 1..KeptLen(Len(ans)) + 1 :
           RemembersOne(all, i, Append(ans, n)[Len(ans) - KeptLen(Len(ans)) + i])
<1> DEFINE L == Len(ans)
           k == KeptLen(L)
           ans2 == Append(ans, n)
<1>1. L \in Nat /\ k \in Nat /\ k <= L
  BY KeptIsNewest
<1>2. ans2[L + 1] = n /\ \A i \in 1..L : ans2[i] = ans[i]
  OBVIOUS
<1>3. Len(conv) = 2 * k /\ \A i \in 1..k : RemembersOne(conv, i, ans[L - k + i])
  BY DEF RemembersTheLast
<1> HIDE DEF k, ans2
<1>4. ASSUME NEW i \in 1..k PROVE RemembersOne(all, i, ans2[L - k + i])
  <2>1. 2 * i - 1 \in 1..2 * k /\ 2 * i \in 1..2 * k /\ L - k + i \in 1..L
    BY <1>1
  <2>2. RemembersOne(conv, i, ans[L - k + i])
    BY <1>3
  <2> QED
    BY <1>2, <1>3, <2>1, <2>2 DEF RemembersOne
<1>5. RemembersOne(all, k + 1, ans2[L - k + (k + 1)])
  <2>1. L - k + (k + 1) = L + 1
    BY <1>1
  <2> QED
    BY <1>2, <2>1 DEF k
<1>6. \A i \in 1..k + 1 : i \in 1..k \/ i = k + 1
  BY <1>1
<1>7. \A i \in 1..k + 1 : RemembersOne(all, i, ans2[L - k + i])
  BY <1>4, <1>5, <1>6, Zenon
<1> QED
  BY <1>7 DEF k, ans2

\* What is left when the oldest two messages are dropped.
LEMMA WithoutTheOldest ==
  ASSUME NEW m \in Nat, NEW all \in Seq(Messages), Len(all) = 2 * m + 2
  PROVE  LET left == SubSeq(all, 3, 2 * m + 2) IN
         /\ left \in Seq(Messages) /\ Len(left) = 2 * m
         /\ \A i \in 1..m : \A n : RemembersOne(all, i + 1, n) => RemembersOne(left, i, n)
<1> DEFINE left == SubSeq(all, 3, 2 * m + 2)
<1>1. left \in Seq(Messages) /\ Len(left) = 2 * m
  OBVIOUS
<1>2. \A j \in 1..2 * m : left[j] = all[j + 2]
  OBVIOUS
<1> HIDE DEF left
<1>3. ASSUME NEW i \in 1..m, NEW n, RemembersOne(all, i + 1, n)
      PROVE  RemembersOne(left, i, n)
  <2>1. /\ 2 * i - 1 \in 1..2 * m /\ 2 * i \in 1..2 * m
        /\ 2 * i - 1 + 2 = 2 * (i + 1) - 1 /\ 2 * i + 2 = 2 * (i + 1)
    OBVIOUS
  <2>2. left[2 * i - 1] = all[2 * (i + 1) - 1] /\ left[2 * i] = all[2 * (i + 1)]
    BY <1>2, <2>1
  <2> QED
    BY <1>3, <2>2 DEF RemembersOne
<1> QED
  BY <1>1, <1>3 DEF left

\* A full memory drops one turn for the next, another one grows.
LEMMA FullOrGrowing ==
  ASSUME NEW L \in Nat
  PROVE  LET M == MaxRememberedTurns
             k == KeptLen(L)
             k2 == KeptLen(L + 1)
         IN /\ k \in Nat /\ k <= L /\ k <= M /\ M \in Nat
            /\ k = M => k2 = M
            /\ k # M => k = L /\ k2 = k + 1 /\ k2 <= M
  BY BoundsGiven DEF KeptLen

LEMMA TwoMore ==
  ASSUME NEW ans \in Seq(Nat), NEW conv \in Seq(Messages), RemembersTheLast(conv, ans),
         NEW n \in Nat, NEW u \in Messages, NEW v \in Messages,
         u.role = "user", v.role = "assistant", u.of = n, v.of = n
  PROVE  LET all == conv \o <<u, v>>
             kept == IF Len(all) > 2 * MaxRememberedTurns
                       THEN Newest(all, 2 * MaxRememberedTurns) ELSE all
         IN kept \in Seq(Messages) /\ RemembersTheLast(kept, Append(ans, n))
<1> DEFINE M == MaxRememberedTurns
           L == Len(ans)
           k == KeptLen(L)
           k2 == KeptLen(L + 1)
           all == conv \o <<u, v>>
           kept == IF Len(all) > 2 * M THEN Newest(all, 2 * M) ELSE all
           more == Append(ans, n)
           Place(i) == more[L - k + i]
<1>1. L \in Nat /\ Len(more) = L + 1
  OBVIOUS
<1>2. /\ k \in Nat /\ k <= L /\ k <= M /\ M \in Nat
      /\ k = M => k2 = M
      /\ k # M => k = L /\ k2 = k + 1 /\ k2 <= M
  BY <1>1, FullOrGrowing
<1>3. Len(conv) = 2 * k
  BY DEF RemembersTheLast
<1>5. /\ all \in Seq(Messages) /\ Len(all) = 2 * k + 2
      /\ \A j \in 1..Len(conv) : all[j] = conv[j]
      /\ all[2 * k + 1] = u /\ all[2 * k + 2] = v
  BY <1>3, PairAtTheEnd
<1>6. RemembersOne(all, k + 1, n)
  <2> HIDE DEF k, all
  <2>1. 2 * (k + 1) - 1 = 2 * k + 1 /\ 2 * (k + 1) = 2 * k + 2
    BY <1>2
  <2> QED
    BY <1>5, <2>1 DEF RemembersOne
<1> HIDE DEF all
<1>7. \A i \in 1..k + 1 : RemembersOne(all, i, Place(i))
  BY <1>3, <1>5, <1>6, OneMore
<1>0. k2 = KeptLen(L + 1)
  OBVIOUS
<1> HIDE DEF k, k2, L, more
<1>8. CASE k = M
  <2>1. k2 = M /\ Len(all) > 2 * M /\ Len(all) - 2 * M + 1 = 3 /\ Len(all) = 2 * M + 2
    BY <1>2, <1>5, <1>8
  <2>2. kept = SubSeq(all, 3, 2 * M + 2)
    BY <2>1 DEF Newest
  <2> HIDE DEF kept, Place
  <2>3. /\ kept \in Seq(Messages) /\ Len(kept) = 2 * M
        /\ \A i \in 1..M : \A c : RemembersOne(all, i + 1, c) => RemembersOne(kept, i, c)
    BY <1>2, <1>5, <2>1, <2>2, WithoutTheOldest
  <2>4. \A i \in 1..k2 : RemembersOne(kept, i, more[L + 1 - k2 + i])
    <3>1. \A i \in 1..M : i + 1 \in 1..k + 1 /\ L + 1 - k2 + i = L - k + (i + 1)
      BY <1>1, <1>2, <1>8, <2>1
    <3>2. \A i \in 1..M : RemembersOne(kept, i, Place(i + 1))
      BY <1>7, <2>3, <3>1
    <3>3. \A i \in 1..M : RemembersOne(kept, i, more[L + 1 - k2 + i])
      BY <3>1, <3>2 DEF Place
    <3> QED
      BY <2>1, <3>3
  <2>5. RemembersTheLast(kept, more)
    <3>1. Len(kept) = 2 * k2 /\ k2 \in Nat /\ L \in Nat
      BY <1>1, <1>2, <2>1, <2>3
    <3>2. Len(kept) = 2 * KeptLen(Len(more))
      BY <1>0, <1>1, <3>1
    <3>3. ASSUME NEW i \in 1..KeptLen(Len(more))
          PROVE  RemembersOne(kept, i, more[Len(more) - KeptLen(Len(more)) + i])
      <4>1. i \in 1..k2 /\ Len(more) - KeptLen(Len(more)) = L + 1 - k2
        BY <1>0, <1>1, <3>1
      <4>2. RemembersOne(kept, i, more[L + 1 - k2 + i])
        BY <2>4, <4>1
      <4> QED
        BY <4>1, <4>2
    <3> QED
      BY <3>2, <3>3 DEF RemembersTheLast
  <2> QED
    BY <2>3, <2>5 DEF kept, all, more
<1>9. CASE k # M
  <2>1. k = L /\ k2 = k + 1 /\ ~(Len(all) > 2 * M) /\ Len(all) = 2 * k2
        /\ L + 1 - k2 = L - k
    BY <1>1, <1>2, <1>5, <1>9
  <2>2. kept = all
    BY <2>1
  <2>3. \A i \in 1..k2 : RemembersOne(all, i, more[L + 1 - k2 + i])
    BY <1>7, <2>1
  <2>4. RemembersTheLast(all, more)
    BY <1>0, <1>1, <1>2, <2>1, <2>3 DEF RemembersTheLast
  <2> QED
    BY <1>5, <2>2, <2>4 DEF all, more
<1> QED
  BY <1>8, <1>9

\* An answered question takes the place of the oldest when the memory is full.
LEMMA AnswerIsRemembered ==
  ASSUME Typed, MemoryIsTheLastAnswers, NEW size \in Nat,
         conversation' = Remembered(size), answered' = Append(answered, question.n)
  PROVE  /\ conversation' \in Seq(Messages) /\ answered' \in Seq(Nat)
         /\ MemoryIsTheLastAnswers'
<1>1. /\ answered \in Seq(Nat) /\ conversation \in Seq(Messages)
      /\ question \in Questions
  BY DEF Typed
<1>2. question.n \in Nat /\ question.size \in Nat
  BY <1>1 DEF Questions
<1>3. /\ Message("user", question.size, question.n) \in Messages
      /\ Message("assistant", size, question.n) \in Messages
      /\ Message("user", question.size, question.n).role = "user"
      /\ Message("assistant", size, question.n).role = "assistant"
      /\ Message("user", question.size, question.n).of = question.n
      /\ Message("assistant", size, question.n).of = question.n
  BY <1>2, MessageIsTyped DEF Roles
<1>4. RemembersTheLast(conversation, answered)
  BY <1>1, MemoryNow, MemoryByPlace
<1>5. /\ conversation' \in Seq(Messages)
      /\ RemembersTheLast(conversation', Append(answered, question.n))
  <2> DEFINE u == Message("user", question.size, question.n)
             v == Message("assistant", size, question.n)
             all == conversation \o <<u, v>>
             kept == IF Len(all) > 2 * MaxRememberedTurns
                       THEN Newest(all, 2 * MaxRememberedTurns) ELSE all
  <2>1. conversation' = kept
    BY DEF Remembered
  <2> HIDE DEF u, v
  <2>2. u \in Messages /\ v \in Messages /\ u.role = "user" /\ v.role = "assistant"
        /\ u.of = question.n /\ v.of = question.n
    BY <1>3 DEF u, v
  <2>3. kept \in Seq(Messages) /\ RemembersTheLast(kept, Append(answered, question.n))
    BY <1>1, <1>2, <1>4, <2>2, TwoMore
  <2> QED
    BY <2>1, <2>3
<1>6. answered' \in Seq(Nat)
  BY <1>1, <1>2
<1> QED
  BY <1>5, <1>6, MemoryNext, MemoryByPlace

-----------------------------------------------------------------------------
(* The agent's locals. *)

\* What the loop does to them, one at a time.
LEMMA CountingACall ==
  ASSUME NEW a, AgentTyped(a), NEW b, b = [a EXCEPT !.calls = @ + 1]
  PROVE  /\ AgentTyped(b) /\ b.calls = a.calls + 1 /\ b.turn = a.turn
         /\ b.failed = a.failed /\ b.last = a.last /\ b.dispatched = a.dispatched
  BY DEF AgentTyped

LEMMA TakingATurn ==
  ASSUME NEW a, AgentTyped(a), a.turn < MaxTurns, NEW b, b = [a EXCEPT !.turn = @ + 1]
  PROVE  /\ AgentTyped(b) /\ b.turn = a.turn + 1 /\ b.calls = a.calls
         /\ b.failed = a.failed /\ b.last = a.last /\ b.dispatched = a.dispatched
<1>1. a.turn + 1 \in 1..MaxTurns
  BY BoundsGiven DEF AgentTyped
<1> QED
  BY <1>1 DEF AgentTyped

LEMMA ReadingARefusal ==
  ASSUME NEW a, AgentTyped(a), NEW b, b = [a EXCEPT !.unusable = @ + 1]
  PROVE  /\ AgentTyped(b) /\ b.turn = a.turn /\ b.calls = a.calls
         /\ b.failed = a.failed /\ b.last = a.last /\ b.dispatched = a.dispatched
  BY DEF AgentTyped

LEMMA GrowingTheHistory ==
  ASSUME NEW a, AgentTyped(a), NEW h, NEW b, b = [a EXCEPT !.history = h]
  PROVE  /\ AgentTyped(b) /\ b.turn = a.turn /\ b.calls = a.calls
         /\ b.failed = a.failed /\ b.last = a.last /\ b.dispatched = a.dispatched
  BY DEF AgentTyped

LEMMA ChoosingACall ==
  ASSUME NEW a, AgentTyped(a), NEW c \in Calls, NEW b, b = [a EXCEPT !.last = c]
  PROVE  /\ AgentTyped(b) /\ b.turn = a.turn /\ b.calls = a.calls
         /\ b.failed = a.failed /\ b.last = c /\ b.dispatched = a.dispatched
  BY DEF AgentTyped

\* Bounds speak of the counts and of what was sent alone.
LEMMA SameCounts ==
  ASSUME NEW a, NEW b, Bounded(a), b.calls = a.calls, b.failed = a.failed,
         b.dispatched = a.dispatched
  PROVE  Bounded(b)
  BY DEF Bounded

\* A statement the registry lets through only reads.
LEMMA SentOnlyReads ==
  ASSUME NEW c \in Calls, Outcomes(c) \cap ({"ok", "error"} \cup Raised) # {},
         NEW q \in Queries, q.name = c
  PROVE  q.effect = "read"
<1>1. c \notin {"get_schema", "malformed"}
  BY StatementAssumption
<1>2. Statement(c) = q
  BY StatementAssumption DEF Statement
<1>3. "unsafe" \notin {"ok", "error"} \cup Raised
  BY DEF Raised, HttpFailures, OtherFailures
<1>4. EnsureSafeSelect(q)
  BY <1>1, <1>2, <1>3 DEF Outcomes
<1> QED
  BY <1>4, StatementAssumption DEF EnsureSafeSelect

\* A call sent after another one.
LEMMA Sending ==
  ASSUME AskInv, pc = "tool", NEW c, c = agent.last, NEW failed \in Nat,
         failed <= MaxRetries + 1, Outcomes(c) \cap ({"ok", "error"} \cup Raised) # {},
         NEW b, b = [agent EXCEPT !.failed = failed, !.dispatched = Append(@, c)]
  PROVE  /\ AgentTyped(b) /\ Bounded(b) /\ b.failed = failed /\ b.calls = b.turn
         /\ Len(b.dispatched) <= b.turn /\ LastSentIs(b, b.last)
<1> DEFINE s == agent.dispatched
<1>1. AgentTyped(agent) /\ Bounded(agent) /\ AtTool(agent) /\ c \in Calls
  BY DEF AskInv, Typed, Counted, AtTool
<1>2. /\ AgentTyped(b) /\ b.turn = agent.turn /\ b.calls = agent.calls
      /\ b.failed = failed /\ b.last = c /\ b.dispatched = Append(s, c)
  <2>1. AgentTyped(agent) /\ c \in Calls
    BY <1>1
  <2>2. Append(agent.dispatched, c) \in Seq(Calls)
    BY <2>1 DEF AgentTyped
  <2> QED
    BY <2>1, <2>2 DEF AgentTyped
<1>3. s \in Seq(Calls) /\ agent.turn \in 1..MaxTurns
  BY <1>1 DEF AgentTyped
<1>4. /\ Len(s) < agent.turn /\ agent.calls = agent.turn
      /\ s # <<>> => s[Len(s)] # c
  BY <1>1 DEF AtTool
<1>5. /\ agent.calls <= MaxTurns + 1
      /\ NeverTwiceInARow(s) /\ OnlyReads(s)
  BY <1>1 DEF Bounded
<1> HIDE DEF s
<1> DEFINE t == Append(s, c)
<1>6. /\ Len(s) \in Nat /\ Len(t) = Len(s) + 1 /\ DOMAIN t = 1..Len(s) + 1
      /\ t[Len(s) + 1] = c /\ \A i \in 1..Len(s) : t[i] = s[i]
  BY <1>1, <1>3
<1> HIDE DEF t
<1>7. NeverTwiceInARow(t)
  <2> SUFFICES ASSUME NEW i \in 2..Len(t) PROVE t[i - 1] # t[i]
    BY DEF NeverTwiceInARow
  <2>1. CASE i <= Len(s)
    BY <1>5, <1>6, <2>1 DEF NeverTwiceInARow
  <2>2. CASE i = Len(s) + 1
    <3>1. i - 1 = Len(s) /\ Len(s) \in 1..Len(s) /\ s # <<>>
      BY <1>3, <1>6, <2>2
    <3> QED
      BY <1>4, <1>6, <2>2, <3>1
  <2> QED
    BY <1>6, <2>1, <2>2
<1>8. OnlyReads(t)
  <2> SUFFICES ASSUME NEW i \in DOMAIN t, NEW q \in Queries, q.name = t[i]
               PROVE  q.effect = "read"
    BY DEF OnlyReads
  <2>1. CASE i <= Len(s)
    <3>1. i \in DOMAIN s /\ t[i] = s[i]
      BY <1>3, <1>6, <2>1
    <3> QED
      BY <1>5, <3>1 DEF OnlyReads
  <2>2. CASE i = Len(s) + 1
    BY <1>1, <1>6, <2>2, SentOnlyReads
  <2> QED
    BY <1>6, <2>1, <2>2
<1>9. b.dispatched = t
  BY <1>2 DEF t
<1>10. Bounded(b)
  <2>1. b.calls <= MaxTurns + 1 /\ Len(t) <= MaxTurns
    BY <1>2, <1>3, <1>4, <1>6, BoundsGiven
  <2> QED
    BY <1>2, <1>7, <1>8, <1>9, <2>1 DEF Bounded
<1> QED
  BY <1>1, <1>2, <1>3, <1>4, <1>6, <1>9, <1>10 DEF LastSentIs

-----------------------------------------------------------------------------
(* How a step ends. *)

\* The model is called.
LEMMA CallIsCounted ==
  ASSUME NEW a, AgentTyped(a), Bounded(a), NEW plain \in BOOLEAN, Call(a, plain),
         a.failed <= MaxRetries, Len(a.dispatched) < a.turn, LastSentIs(a, a.last),
         a.calls + 1 = a.turn + (IF plain THEN 1 ELSE 0)
  PROVE  /\ pc' = "post" /\ AgentTyped(agent') /\ http' \in HttpCalls /\ Counted'
<1>1. /\ pc' = "post" /\ agent' = [a EXCEPT !.calls = @ + 1]
      /\ http' = [attempt |-> 0, plain |-> plain, failure |-> None]
  BY DEF Call, NoCall
<1>2. /\ AgentTyped(agent') /\ agent'.calls = a.calls + 1 /\ agent'.turn = a.turn
      /\ agent'.failed = a.failed /\ agent'.last = a.last
      /\ agent'.dispatched = a.dispatched
  BY <1>1, CountingACall
<1>3. http' \in HttpCalls /\ http'.plain = plain /\ http'.attempt = 0
  BY <1>1 DEF HttpCalls
<1>4. AtPost(agent', plain)
  BY <1>2 DEF AtPost, LastSentIs
<1>5. Bounded(agent')
  <2>1. agent'.calls <= MaxTurns + 1
    BY <1>2, BoundsGiven DEF AgentTyped
  <2> QED
    BY <1>2, <2>1 DEF Bounded
<1> QED
  BY <1>1, <1>2, <1>3, <1>4, <1>5, BoundsGiven DEF Counted

\* The run is over: its consumer takes it as its last event says.
LEMMA StopKeeps ==
  ASSUME AskInv, pc \in {"post", "tool"}, NEW events, Ends(events), NEW size \in Nat,
         Stop(events, size), AgentTyped(agent'), Bounded(agent'), http' \in HttpCalls,
         http'.attempt <= HttpRetries + 1
  PROVE  AskInv'
<1>1. Typed /\ OneTerminalEvent /\ MemoryIsTheLastAnswers
  BY DEF AskInv
<1>2. Ends(run \o events) /\ Last(run \o events) = Last(events)
  BY <1>1, UnderWay, EndsAfter
<1>3. run' = run \o events /\ mode' = mode /\ question' = question
  BY DEF Stop, Emit
<1>4. pc' \in {"over", "clarify", "prompt"} /\ (pc' = "clarify" => Last(events).type = "Clarify")
  BY DEF Stop
<1>5. \/ conversation' = conversation /\ answered' = answered
      \/ conversation' = Remembered(size) /\ answered' = Append(answered, question.n)
  BY DEF Stop
<1>6. /\ conversation' \in Seq(Messages) /\ answered' \in Seq(Nat)
      /\ MemoryIsTheLastAnswers'
  <2>1. CASE conversation' = conversation /\ answered' = answered
    BY <1>1, <2>1 DEF Typed, MemoryIsTheLastAnswers
  <2>2. CASE conversation' = Remembered(size) /\ answered' = Append(answered, question.n)
    BY <1>1, <2>2, AnswerIsRemembered
  <2> QED
    BY <1>5, <2>1, <2>2
<1>7. OneTerminalEvent'
  BY <1>2, <1>3, <1>4 DEF OneTerminalEvent, Ends
<1>8. Typed'
  BY <1>1, <1>2, <1>3, <1>4, <1>6 DEF Typed, Ends
<1>9. Counted'
  BY <1>4 DEF Counted
<1> QED
  BY <1>6, <1>7, <1>8, <1>9 DEF AskInv

\* The run goes on: it emits events none of which ends it.
LEMMA GoingOnKeeps ==
  ASSUME AskInv, pc \in {"post", "tool"}, NEW events, GoesOn(events), Emit(events),
         pc' \in {"post", "tool"}, AgentTyped(agent'), http' \in HttpCalls, Counted',
         UNCHANGED <<mode, question, conversation, answered>>
  PROVE  AskInv'
<1>1. Typed /\ OneTerminalEvent /\ MemoryIsTheLastAnswers
  BY DEF AskInv
<1>2. GoesOn(run \o events) /\ run' = run \o events
  BY <1>1, UnderWay, GoesOnAfter DEF Emit
<1>3. OneTerminalEvent'
  BY <1>2 DEF OneTerminalEvent, GoesOn, Last
<1>4. MemoryIsTheLastAnswers'
  BY <1>1 DEF MemoryIsTheLastAnswers
<1>5. Typed'
  BY <1>1, <1>2 DEF Typed, GoesOn
<1> QED
  BY <1>3, <1>4, <1>5 DEF AskInv

\* A turn is followed by the next, or by the end of the run.
LEMMA NextTurnKeeps ==
  ASSUME AskInv, pc \in {"post", "tool"}, NEW a, Onwards(a), NEW events, GoesOn(events),
         NextTurn(a, events)
  PROVE  AskInv'
<1>1. /\ AgentTyped(a) /\ Bounded(a) /\ a.failed <= MaxRetries /\ a.calls = a.turn
      /\ Len(a.dispatched) <= a.turn /\ LastSentIs(a, a.last)
  BY DEF Onwards
<1>2. CASE a.turn < MaxTurns
  <2> DEFINE b == [a EXCEPT !.turn = @ + 1]
  <2>1. /\ Emit(events) /\ Call(b, FALSE)
        /\ UNCHANGED <<mode, question, conversation, answered, exit>>
    BY <1>2 DEF NextTurn
  <2>2. /\ AgentTyped(b) /\ b.turn = a.turn + 1 /\ b.calls = a.calls
        /\ b.failed = a.failed /\ b.last = a.last /\ b.dispatched = a.dispatched
    BY <1>1, <1>2, TakingATurn
  <2> HIDE DEF b
  <2>3. Bounded(b)
    BY <1>1, <2>2, SameCounts
  <2>4. Len(b.dispatched) < b.turn /\ b.calls + 1 = b.turn + (IF FALSE THEN 1 ELSE 0)
    <3>1. a.turn \in Nat /\ Len(a.dispatched) \in Nat
      BY <1>1, BoundsGiven DEF AgentTyped
    <3> QED
      BY <1>1, <2>2, <3>1
  <2>5. LastSentIs(b, b.last) /\ b.failed <= MaxRetries
    BY <1>1, <2>2 DEF LastSentIs
  <2>6. pc' = "post" /\ AgentTyped(agent') /\ http' \in HttpCalls /\ Counted'
    BY <2>1, <2>2, <2>3, <2>4, <2>5, CallIsCounted
  <2> QED
    BY <2>1, <2>6, GoingOnKeeps
<1>3. CASE ~(a.turn < MaxTurns)
  <2>1. /\ Stop(events \o <<Event("MaxTurns", None)>>, 0) /\ agent' = a /\ UNCHANGED http
    BY <1>3 DEF NextTurn
  <2>2. Ends(events \o <<Event("MaxTurns", None)>>)
    <3>1. "MaxTurns" \in Terminal /\ None \in Calls \cup {None}
      BY DEF Terminal
    <3>2. Ends(Append(events, Event("MaxTurns", None)))
      BY <3>1, EndAfter
    <3>3. Append(events, Event("MaxTurns", None)) = events \o <<Event("MaxTurns", None)>>
      BY <3>1, EndAfter
    <3> QED
      BY <3>2, <3>3
  <2>3. http' \in HttpCalls /\ http'.attempt <= HttpRetries + 1
    BY <2>1 DEF AskInv, Typed, Counted
  <2> QED
    BY <1>1, <2>1, <2>2, <2>3, StopKeeps
<1> QED
  BY <1>2, <1>3

-----------------------------------------------------------------------------
(* The actions. *)

LEMMA Initially == Init => AskInv
<1> SUFFICES ASSUME Init PROVE AskInv
  OBVIOUS
<1>1. AgentTyped(agent)
  BY BoundsGiven DEF Init, Fresh, AgentTyped
<1>2. Typed
  BY <1>1 DEF Init, Typed, Questions, NoCall, HttpCalls
<1>3. Counted
  BY BoundsGiven DEF Init, Fresh, NoCall, Counted, Bounded, NeverTwiceInARow, OnlyReads
<1>4. OneTerminalEvent
  BY DEF Init, OneTerminalEvent
<1>5. MemoryIsTheLastAnswers
  <2>1. answered = <<>> /\ conversation = <<>>
    BY DEF Init
  <2>2. Kept(answered) = <<>>
    BY <2>1, BoundsGiven DEF Kept
  <2> QED
    BY <2>1, <2>2, MemoryNow
<1> QED
  BY <1>2, <1>3, <1>4, <1>5 DEF AskInv

\* A run starts with nothing counted.
LEMMA FreshCall ==
  ASSUME Call(Fresh, FALSE)
  PROVE  /\ pc' = "post" /\ AgentTyped(agent') /\ http' \in HttpCalls /\ Counted'
<1>1. AgentTyped(Fresh)
  BY BoundsGiven DEF Fresh, AgentTyped
<1>2. Bounded(Fresh)
  BY BoundsGiven DEF Fresh, Bounded, NeverTwiceInARow, OnlyReads
<1>3. /\ Fresh.failed <= MaxRetries /\ Len(Fresh.dispatched) < Fresh.turn
      /\ LastSentIs(Fresh, Fresh.last)
      /\ Fresh.calls + 1 = Fresh.turn + (IF FALSE THEN 1 ELSE 0)
  BY BoundsGiven DEF Fresh, LastSentIs
<1> HIDE DEF Fresh
<1> QED
  BY <1>1, <1>2, <1>3, CallIsCounted

LEMMA NewRunKeeps ==
  ASSUME AskInv, Call(Fresh, FALSE), question' \in Questions, run' = <<>>,
         UNCHANGED <<mode, conversation, answered>>
  PROVE  AskInv'
<1>1. /\ pc' = "post" /\ AgentTyped(agent') /\ http' \in HttpCalls /\ Counted'
  BY FreshCall
<1>2. Typed'
  BY <1>1 DEF AskInv, Typed
<1>3. OneTerminalEvent'
  BY <1>1 DEF OneTerminalEvent
<1>4. MemoryIsTheLastAnswers'
  BY DEF AskInv, MemoryIsTheLastAnswers
<1> QED
  BY <1>1, <1>2, <1>3, <1>4 DEF AskInv

\* The run is left as it is by a process that waits or is gone.
LEMMA LeavingKeeps ==
  ASSUME AskInv, pc' \in {"prompt", "over"}, AgentTyped(agent'), Bounded(agent'),
         http' \in HttpCalls, http'.attempt <= HttpRetries + 1,
         UNCHANGED <<mode, question, conversation, answered, run>>
  PROVE  AskInv'
  BY DEF AskInv, Typed, Counted, OneTerminalEvent, MemoryIsTheLastAnswers

LEMMA AgentNow ==
  ASSUME AskInv
  PROVE  /\ AgentTyped(agent) /\ Bounded(agent) /\ http \in HttpCalls
         /\ http.attempt <= HttpRetries + 1
  BY DEF AskInv, Typed, Counted

LEMMA AskQuestionKeeps == AskInv /\ AskQuestion => AskInv'
<1> SUFFICES ASSUME AskInv, AskQuestion PROVE AskInv'
  OBVIOUS
<1>1. question \in Questions /\ question' = [n |-> question.n + 1, size |-> 1, replies |-> 0]
  BY DEF AskInv, Typed, AskQuestion
<1>2. question' \in Questions
  BY <1>1 DEF Questions
<1> QED
  BY <1>2, NewRunKeeps DEF AskQuestion

LEMMA PostFailsKeeps ==
  ASSUME AskInv, NEW f \in HttpFailures, PostFails(f)
  PROVE  AskInv'
<1>1. /\ pc = "post" /\ http \in HttpCalls /\ http.attempt <= HttpRetries
      /\ AgentTyped(agent) /\ Bounded(agent) /\ AtPost(agent, http.plain)
  BY DEF AskInv, Typed, Counted, PostFails
<1>2. CASE IsTransient(f) /\ Again
  <2>1. /\ http' = [http EXCEPT !.attempt = @ + 1]
        /\ UNCHANGED <<mode, pc, question, conversation, answered, agent, run>>
    BY <1>2 DEF PostFails
  <2>2. /\ http' \in HttpCalls /\ http'.attempt = http.attempt + 1
        /\ http'.plain = http.plain
    <3>1. http.attempt + 1 \in Nat
      BY <1>1 DEF HttpCalls
    <3>2. http' \in HttpCalls
      BY <1>1, <2>1, <3>1 DEF HttpCalls
    <3> QED
      BY <1>1, <2>1, <3>2 DEF HttpCalls
  <2>3. http'.attempt <= HttpRetries /\ http'.attempt <= HttpRetries + 1
    BY <1>1, <1>2, <2>2, BoundsGiven DEF Again, HttpCalls
  <2>4. Counted'
    BY <1>1, <2>1, <2>2, <2>3 DEF Counted
  <2>5. Typed' /\ OneTerminalEvent' /\ MemoryIsTheLastAnswers'
    BY <2>1, <2>2 DEF AskInv, Typed, OneTerminalEvent, MemoryIsTheLastAnswers
  <2> QED
    BY <2>4, <2>5 DEF AskInv
<1>3. CASE ~(IsTransient(f) /\ Again)
  <2>1. /\ http' = [http EXCEPT !.attempt = @ + 1, !.failure = f] /\ agent' = agent
        /\ IF http.plain THEN Stop(<<Event("LLMParseError", None)>>, 0) ELSE Raise(f)
    BY <1>3 DEF PostFails
  <2>2. http' \in HttpCalls /\ http'.attempt = http.attempt + 1
    <3>1. http.attempt + 1 \in Nat /\ f \in HttpFailures \cup {None}
      BY <1>1 DEF HttpCalls
    <3>2. http' \in HttpCalls
      BY <1>1, <2>1, <3>1 DEF HttpCalls
    <3> QED
      BY <1>1, <2>1, <3>2 DEF HttpCalls
  <2>3. http'.attempt <= HttpRetries + 1
    BY <1>1, <2>2, BoundsGiven DEF HttpCalls
  <2>4. CASE http.plain
    <3>1. Ends(<<Event("LLMParseError", None)>>)
      BY EndAlone DEF Terminal
    <3> QED
      BY <1>1, <2>1, <2>2, <2>3, <2>4, <3>1, StopKeeps
  <2>5. CASE ~http.plain
    <3>1. /\ pc' \in {"over", "prompt"}
          /\ UNCHANGED <<mode, question, conversation, answered, run>>
      BY <2>1, <2>5 DEF Raise
    <3> QED
      BY <1>1, <2>1, <2>2, <2>3, <3>1, LeavingKeeps
  <2> QED
    BY <2>4, <2>5
<1> QED
  BY <1>2, <1>3

\* What stands at a call that is not the plain one.
LEMMA AtAPost ==
  ASSUME AskInv, pc = "post", ~http.plain
  PROVE  Onwards(agent) /\ Len(agent.dispatched) < agent.turn
<1>1. AgentTyped(agent) /\ Bounded(agent) /\ AtPost(agent, http.plain)
  BY DEF AskInv, Typed, Counted
<1>2. agent.turn \in Nat /\ Len(agent.dispatched) \in Nat
  BY <1>1, BoundsGiven DEF AgentTyped
<1> QED
  BY <1>1, <1>2 DEF AtPost, Onwards

LEMMA UnusableKeeps == AskInv /\ Unusable => AskInv'
<1> SUFFICES ASSUME AskInv, Unusable PROVE AskInv'
  OBVIOUS
<1> DEFINE a == [agent EXCEPT !.unusable = @ + 1]
           events == <<Event("Retry", None)>>
<1>1. pc = "post" /\ pc \in {"post", "tool"}
  BY DEF Unusable
<1>2. GoesOn(events)
  BY OneEventGoesOn
<1>3. CASE http.plain
  <2>1. Stop(<<Event("LLMParseError", None)>>, 0) /\ UNCHANGED <<agent, http>>
    BY <1>3 DEF Unusable
  <2>2. Ends(<<Event("LLMParseError", None)>>)
    BY EndAlone DEF Terminal
  <2>3. /\ AgentTyped(agent') /\ Bounded(agent') /\ http' \in HttpCalls
        /\ http'.attempt <= HttpRetries + 1
    BY <2>1, AgentNow
  <2> QED
    BY <1>1, <2>1, <2>2, <2>3, StopKeeps
<1>4. CASE ~http.plain
  <2>1. Onwards(agent) /\ AgentTyped(agent) /\ Len(agent.dispatched) < agent.turn
    BY <1>1, <1>4, AtAPost, AgentNow
  <2>2. /\ AgentTyped(a) /\ a.turn = agent.turn /\ a.calls = agent.calls
        /\ a.failed = agent.failed /\ a.last = agent.last
        /\ a.dispatched = agent.dispatched
    BY <2>1, ReadingARefusal
  <2>3. \/ NextTurn([a EXCEPT !.history = Append(@, Notice)], events)
        \/ /\ Emit(events) /\ Call(a, TRUE)
           /\ UNCHANGED <<mode, question, conversation, answered, exit>>
    BY <1>4 DEF Unusable
  <2> HIDE DEF a, events
  <2>4. Onwards(a)
    BY <2>1, <2>2, SameCounts DEF Onwards, LastSentIs
  <2>5. CASE NextTurn([a EXCEPT !.history = Append(@, Notice)], events)
    <3> DEFINE h == Append(a.history, Notice)
               b == [a EXCEPT !.history = h]
    <3>0. NextTurn(b, events)
      BY <2>5
    <3> HIDE DEF h
    <3>1. /\ AgentTyped(b) /\ b.turn = a.turn /\ b.calls = a.calls
          /\ b.failed = a.failed /\ b.last = a.last /\ b.dispatched = a.dispatched
      BY <2>2, GrowingTheHistory
    <3> HIDE DEF b
    <3>2. Onwards(b)
      BY <2>4, <3>1, SameCounts DEF Onwards, LastSentIs
    <3> QED
      BY <1>1, <1>2, <3>0, <3>2, NextTurnKeeps
  <2>6. CASE /\ Emit(events) /\ Call(a, TRUE)
             /\ UNCHANGED <<mode, question, conversation, answered, exit>>
    <3>1. /\ Bounded(a) /\ a.failed <= MaxRetries /\ LastSentIs(a, a.last)
          /\ Len(a.dispatched) < a.turn /\ a.calls = a.turn
      BY <2>1, <2>2, <2>4 DEF Onwards
    <3>2. a.calls + 1 = a.turn + (IF TRUE THEN 1 ELSE 0)
      BY <3>1
    <3>3. /\ pc' = "post" /\ AgentTyped(agent') /\ http' \in HttpCalls /\ Counted'
      BY <2>2, <2>6, <3>1, <3>2, CallIsCounted
    <3> QED
      BY <1>1, <1>2, <2>6, <3>3, GoingOnKeeps
  <2> QED
    BY <2>3, <2>5, <2>6
<1> QED
  BY <1>3, <1>4

\* An answer or a question back ends the run where it is.
LEMMA EndKeeps ==
  ASSUME AskInv, pc \in {"post", "tool"}, NEW type \in Terminal,
         NEW c \in Calls \cup {None}, NEW size \in Nat,
         Stop(<<Event(type, c)>>, size), UNCHANGED <<agent, http>>
  PROVE  AskInv'
<1>1. Ends(<<Event(type, c)>>)
  BY EndAlone
<1>2. /\ AgentTyped(agent') /\ Bounded(agent') /\ http' \in HttpCalls
      /\ http'.attempt <= HttpRetries + 1
  BY AgentNow
<1> QED
  BY <1>1, <1>2, StopKeeps

LEMMA AnswersKeep == AskInv /\ (AnswerText \/ Clarify) => AskInv'
<1>1. "Answer" \in Terminal /\ "Clarify" \in Terminal /\ None \in Calls \cup {None}
  BY DEF Terminal
<1>2. AskInv /\ AnswerText => AskInv'
  BY <1>1, EndKeeps DEF AnswerText
<1>3. AskInv /\ Clarify => AskInv'
  BY <1>1, EndKeeps DEF Clarify
<1> QED
  BY <1>2, <1>3

LEMMA ProposeKeeps ==
  ASSUME AskInv, NEW c \in Calls, Propose(c)
  PROVE  AskInv'
<1>1. pc = "post" /\ ~http.plain
  BY DEF Propose
<1>2. CASE Repeats(c)
  <2>1. Stop(<<Event("RepeatedAction", c)>>, 0) /\ UNCHANGED <<agent, http>>
    BY <1>2 DEF Propose
  <2>2. "RepeatedAction" \in Terminal
    BY DEF Terminal
  <2> QED
    BY <1>1, <2>1, <2>2, EndKeeps
<1>3. CASE ~Repeats(c)
  <2>1. /\ Emit(<<Event("ToolCall", c)>>) /\ agent' = [agent EXCEPT !.last = c]
        /\ pc' = "tool" /\ UNCHANGED <<mode, question, conversation, answered, http>>
    BY <1>3 DEF Propose
  <2>2. /\ AgentTyped(agent) /\ Onwards(agent) /\ Len(agent.dispatched) < agent.turn
        /\ http \in HttpCalls /\ http.attempt <= HttpRetries + 1
    BY <1>1, AtAPost, AgentNow
  <2>3. /\ AgentTyped(agent') /\ agent'.turn = agent.turn /\ agent'.calls = agent.calls
        /\ agent'.failed = agent.failed /\ agent'.last = c
        /\ agent'.dispatched = agent.dispatched
    BY <2>1, <2>2, ChoosingACall
  <2>4. Bounded(agent')
    BY <2>2, <2>3, SameCounts DEF Onwards
  <2>5. AtTool(agent')
    BY <1>3, <2>2, <2>3 DEF AtTool, Onwards, LastSentIs, Repeats
  <2>6. Counted'
    BY <1>1, <2>1, <2>2, <2>4, <2>5 DEF Counted
  <2>7. GoesOn(<<Event("ToolCall", c)>>)
    BY OneEventGoesOn
  <2> QED
    BY <1>1, <2>1, <2>2, <2>3, <2>6, <2>7, GoingOnKeeps
<1> QED
  BY <1>2, <1>3

LEMMA ObserveKeeps ==
  ASSUME AskInv, pc = "tool", NEW isError \in BOOLEAN, NEW size,
         Outcomes(agent.last) \cap ({"ok", "error"} \cup Raised) # {},
         Observe(agent.last, isError, size)
  PROVE  AskInv'
<1> DEFINE c == agent.last
           failed == IF isError THEN agent.failed + 1 ELSE agent.failed
           a == [agent EXCEPT !.failed = failed, !.dispatched = Append(@, c)]
           events == <<Event("Observation", c)>>
                       \o (IF isError THEN <<Event("Retry", None)>> ELSE <<>>)
           h == a.history \o <<Message("call", CallSize(c), 0), Message("tool", size, 0)>>
<1>1. /\ AgentTyped(agent) /\ AtTool(agent) /\ ~http.plain /\ c \in Calls
      /\ http \in HttpCalls /\ http.attempt <= HttpRetries + 1
  BY AgentNow DEF AskInv, Counted, AtTool
<1>2. failed \in Nat /\ failed <= MaxRetries + 1
  BY <1>1, BoundsGiven DEF AgentTyped, AtTool
<1>3. GoesOn(events)
  <2>1. GoesOn(<<Event("Observation", c)>>)
    BY <1>1, OneEventGoesOn
  <2>2. GoesOn(IF isError THEN <<Event("Retry", None)>> ELSE <<>>)
    <3>1. GoesOn(<<Event("Retry", None)>>)
      BY OneEventGoesOn
    <3>2. GoesOn(<<>>)
      BY DEF GoesOn
    <3> QED
      BY <3>1, <3>2
  <2> QED
    BY <2>1, <2>2, GoesOnAfter
<1>4. \/ /\ isError /\ GivesUp(failed)
         /\ Stop(Append(events, Event("RetryLimit", None)), 0)
         /\ agent' = a /\ UNCHANGED http
      \/ /\ ~(isError /\ GivesUp(failed))
         /\ NextTurn([a EXCEPT !.history = h], events)
  BY DEF Observe
<1> HIDE DEF failed, events, h
<1>5. /\ AgentTyped(a) /\ Bounded(a) /\ a.failed = failed /\ a.calls = a.turn
      /\ Len(a.dispatched) <= a.turn /\ LastSentIs(a, a.last)
  BY <1>2, Sending
<1> HIDE DEF a
<1>6. CASE /\ Stop(Append(events, Event("RetryLimit", None)), 0)
           /\ agent' = a /\ UNCHANGED http
  <2>1. "RetryLimit" \in Terminal /\ None \in Calls \cup {None}
    BY DEF Terminal
  <2>2. Ends(Append(events, Event("RetryLimit", None)))
    BY <1>3, <2>1, EndAfter
  <2> QED
    BY <1>1, <1>5, <1>6, <2>2, StopKeeps
<1>7. CASE ~(isError /\ GivesUp(failed)) /\ NextTurn([a EXCEPT !.history = h], events)
  <2>1. failed <= MaxRetries
    BY <1>1, <1>2, <1>7, BoundsGiven DEF GivesUp, failed, AtTool
  <2> DEFINE b == [a EXCEPT !.history = h]
  <2>2. /\ AgentTyped(b) /\ b.turn = a.turn /\ b.calls = a.calls
        /\ b.failed = a.failed /\ b.last = a.last /\ b.dispatched = a.dispatched
    BY <1>5, GrowingTheHistory
  <2>3. NextTurn(b, events)
    BY <1>7
  <2> HIDE DEF b
  <2>4. Onwards(b)
    BY <1>5, <2>1, <2>2, SameCounts DEF Onwards, LastSentIs
  <2> QED
    BY <1>3, <2>3, <2>4, NextTurnKeeps
<1> QED
  BY <1>4, <1>6, <1>7

LEMMA DispatchKeeps == AskInv /\ Dispatch => AskInv'
<1> SUFFICES ASSUME AskInv, Dispatch PROVE AskInv'
  OBVIOUS
<1> DEFINE c == agent.last
<1>1. pc = "tool"
  BY DEF Dispatch
<1>2. /\ AgentTyped(agent) /\ http \in HttpCalls /\ http.attempt <= HttpRetries + 1
      /\ c \in Calls /\ agent.failed \in Nat /\ agent.failed <= MaxRetries + 1
  BY <1>1, AgentNow, BoundsGiven DEF AskInv, Counted, AtTool, AgentTyped
<1>3. \/ "ok" \in Outcomes(c) /\ \E size : Observe(c, FALSE, size)
      \/ "error" \in Outcomes(c) /\ Observe(c, TRUE, 1)
      \/ Stop(<<Event("SafetyViolation", c)>>, 0) /\ UNCHANGED <<agent, http>>
      \/ \E f \in Outcomes(c) \cap Raised :
           /\ Raise(f) /\ agent' = [agent EXCEPT !.dispatched = Append(@, c)]
           /\ UNCHANGED http
  BY DEF Dispatch
<1>4. CASE "ok" \in Outcomes(c) /\ \E size : Observe(c, FALSE, size)
  <2>1. PICK size : Observe(c, FALSE, size)
    BY <1>4
  <2> QED
    BY <1>1, <1>4, <2>1, ObserveKeeps
<1>5. CASE "error" \in Outcomes(c) /\ Observe(c, TRUE, 1)
  BY <1>1, <1>5, ObserveKeeps
<1>6. CASE Stop(<<Event("SafetyViolation", c)>>, 0) /\ UNCHANGED <<agent, http>>
  <2>1. "SafetyViolation" \in Terminal
    BY DEF Terminal
  <2> QED
    BY <1>1, <1>2, <1>6, <2>1, EndKeeps
<1>7. ASSUME NEW f \in Outcomes(c) \cap Raised, Raise(f),
             agent' = [agent EXCEPT !.dispatched = Append(@, c)], UNCHANGED http
      PROVE  AskInv'
  <2> DEFINE b == [agent EXCEPT !.failed = agent.failed, !.dispatched = Append(@, c)]
  <2>1. AgentTyped(b) /\ Bounded(b)
    BY <1>1, <1>2, <1>7, Sending
  <2>2. agent' = b
    BY <1>2, <1>7 DEF AgentTyped
  <2>3. /\ pc' \in {"over", "prompt"}
        /\ UNCHANGED <<mode, question, conversation, answered, run>>
    BY <1>7 DEF Raise
  <2> HIDE DEF b
  <2> QED
    BY <1>2, <1>7, <2>1, <2>2, <2>3, LeavingKeeps
<1> QED
  BY <1>3, <1>4, <1>5, <1>6, <1>7

LEMMA ReplyKeeps == AskInv /\ Reply => AskInv'
<1> SUFFICES ASSUME AskInv, Reply PROVE AskInv'
  OBVIOUS
<1>1. question \in Questions
  BY DEF AskInv, Typed
<1>2. [question EXCEPT !.size = @ + 1, !.replies = @ + 1] \in Questions
  <2>1. question.size + 1 \in Nat /\ question.replies + 1 \in Nat
    BY <1>1 DEF Questions
  <2> QED
    BY <1>1, <2>1 DEF Questions
<1>3. CASE /\ question' = [question EXCEPT !.size = @ + 1, !.replies = @ + 1]
           /\ Call(Fresh, FALSE) /\ run' = <<>>
           /\ UNCHANGED <<mode, conversation, answered, trace, files, exit>>
  BY <1>2, <1>3, NewRunKeeps
<1>4. CASE /\ pc' = "prompt"
           /\ UNCHANGED <<mode, question, conversation, answered, agent,
                          http, run, trace, files, exit>>
  BY <1>4, AgentNow, LeavingKeeps
<1> QED
  BY <1>3, <1>4 DEF Reply

LEMMA EndsOfTheProcessKeep == AskInv /\ (Leave \/ Die) => AskInv'
<1> SUFFICES ASSUME AskInv, Leave \/ Die PROVE AskInv'
  OBVIOUS
<1>1. /\ pc' = "over"
      /\ UNCHANGED <<mode, question, conversation, answered, agent, http, run>>
  BY DEF Leave, Die
<1> QED
  BY <1>1, AgentNow, LeavingKeeps

LEMMA StepKeeps == AskInv /\ [Next]_vars => AskInv'
<1>1. AskInv /\ Work => AskInv'
  BY PostFailsKeeps, UnusableKeeps, AnswersKeep, ProposeKeeps, DispatchKeeps DEF Work
<1>2. AskInv /\ Next => AskInv'
  BY <1>1, AskQuestionKeeps, ReplyKeeps, EndsOfTheProcessKeep DEF Next
<1>3. AskInv /\ UNCHANGED vars => AskInv'
  BY DEF vars, AskInv, Typed, Counted, OneTerminalEvent, MemoryIsTheLastAnswers
<1> QED
  BY <1>2, <1>3

THEOREM AskIsInvariant == Spec => []AskInv
  BY Initially, StepKeeps, PTL DEF Spec

-----------------------------------------------------------------------------
(* The theorems. *)

\* A run of `run_agent` has at most one terminal event and nothing after it, and
\* a session that waits for a reply was asked one.
THEOREM RunsEndOnce == Spec => []OneTerminalEvent
  BY AskIsInvariant, PTL DEF AskInv

\* Whatever the model answers, `run_agent` and the client's retries make no more
\* calls than their settings allow, send no call twice in a row, give up in time,
\* and send nothing that does more than read.
THEOREM RunsAreBounded == Spec => []RunIsBounded
<1>1. AskInv => RunIsBounded
  <2> SUFFICES ASSUME AskInv PROVE RunIsBounded
    OBVIOUS
  <2>1. Bounded(agent) /\ http.attempt <= HttpRetries + 1
    BY DEF AskInv, Counted
  <2>2. pc \in {"post", "tool"} => agent.failed <= MaxRetries
    BY DEF AskInv, Counted, AtPost, AtTool
  <2>3. agent.failed > MaxRetries => pc \notin {"post", "tool"}
    BY <2>2, AgentNow, BoundsGiven DEF AgentTyped
  <2> QED
    BY <2>1, <2>3 DEF RunIsBounded, Bounded, NeverTwiceInARow, OnlyReads
<1> QED
  BY <1>1, AskIsInvariant, PTL

\* A `ChatSession` remembers its last answered questions, in order and each with
\* its answer, and nothing of a question that failed or was dropped.
THEOREM MemoryHolds == Spec => []MemoryIsTheLastAnswers
  BY AskIsInvariant, PTL DEF AskInv

-----------------------------------------------------------------------------
(* The second invariant: what the run's messages are, what question it is   *)
(* about, and what of it is on disk.                                        *)

\* What a result may cost in a message.
Shown == {1} \cup {FormatQueryResult(rows) : rows \in Results}

\* A message of a run: a notice, a call the model made or the result of one.
OfARun(m) ==
  /\ m.of = 0 /\ m.role \in {"user", "call", "tool"}
  /\ m.role = "user" => m.size = 1
  /\ m.role = "call" => \E c \in Calls : m.size = CallSize(c)
  /\ m.role = "tool" => m.size \in Shown

\* Each result follows its call.
HistoryShaped(h) ==
  /\ h \in Seq(Messages)
  /\ \A i \in DOMAIN h : OfARun(h[i])
  /\ \A i \in DOMAIN h : h[i].role = "tool" => i > 1 /\ h[i - 1].role = "call"

\* The question grows by a reply at a time, and only a question has a run.
QuestionShaped(q) ==
  /\ q \in Questions /\ q.replies <= MaxReplies /\ q.size = 1 + q.replies
  /\ pc \in {"post", "tool", "clarify"} => q.n > 0

\* The whole lines of the trace: this run's events are the last of them, and
\* what was sent, or is about to be, is among them.
Tells(t) ==
  /\ t \in Seq(Events)
  /\ trace = t \/ (pc = "over" /\ trace = Append(t, Torn))
  /\ \E p \in Seq(Events) : t = p \o run
  /\ \A i \in DOMAIN agent.dispatched :
       \E j \in DOMAIN t : t[j] = Event("ToolCall", agent.dispatched[i])
  /\ pc = "tool" => \E j \in DOMAIN t : t[j] = Event("ToolCall", agent.last)

\* A run that has written nothing yet was left room for its file.
FilesKept ==
  /\ files \in Seq(Nat) /\ Len(files) <= Keep
  /\ trace # <<>> => Contains(files, question.n)
  /\ pc \in {"post", "tool", "clarify"} /\ ~Contains(files, question.n) => Len(files) < Keep

RunInv ==
  /\ HistoryShaped(agent.history) /\ QuestionShaped(question)
  /\ (\E t \in Seq(Events) : Tells(t)) /\ FilesKept

-----------------------------------------------------------------------------
(* What a message costs. *)

LEMMA CallSizeIsNat ==
  ASSUME NEW c \in Calls
  PROVE  CallSize(c) \in Nat
<1>1. CASE c \in {"get_schema", "malformed"}
  BY <1>1 DEF CallSize
<1>2. CASE c \notin {"get_schema", "malformed"}
  <2>1. PICK q \in Queries : q.name = c
    BY <1>2 DEF Calls
  <2>2. Statement(c) = q
    BY <2>1, StatementAssumption DEF Statement
  <2> QED
    BY <1>2, <2>2, StatementAssumption DEF CallSize
<1> QED
  BY <1>1, <1>2

LEMMA LargestIsIn ==
  ASSUME NEW n \in Nat, NEW P \in SUBSET (1..n), P # {}
  PROVE  Max(P) \in P
<1>1. PICK k \in P : \A j \in P : j <= k
  BY LastPosition
<1>2. \A j \in P : k >= j
  BY <1>1
<1> QED
  BY <1>2 DEF Max

LEMMA ResultSizeIsNat ==
  ASSUME NEW rows \in Seq(Nat)
  PROVE  FormatQueryResult(rows) \in Nat
<1> DEFINE cut == [i \in DOMAIN rows |-> IF rows[i] > MaxCell THEN MaxCell + 1 ELSE rows[i]]
           First(n) == SubSeq(cut, 1, n)
           Fit(n) == cut[n] <= MaxChars - 2 - Total(First(n - 1)) - (n - 1)
           shown == {n \in DOMAIN rows : \A i \in 2..n : Fit(i)}
<1>1. MaxCell \in Nat /\ Len(rows) \in Nat /\ DOMAIN rows = 1..Len(rows)
  BY AskAssumption
<1>2. cut \in Seq(Nat) /\ Len(cut) = Len(rows)
  <2>1. \A i \in 1..Len(rows) : (IF rows[i] > MaxCell THEN MaxCell + 1 ELSE rows[i]) \in Nat
    BY <1>1
  <2>2. cut = [i \in 1..Len(rows) |-> IF rows[i] > MaxCell THEN MaxCell + 1 ELSE rows[i]]
    BY <1>1
  <2> HIDE DEF cut
  <2> QED
    BY <1>1, <2>1, <2>2
<1>3. shown \in SUBSET (1..Len(rows))
  BY <1>1
<1>4. FormatQueryResult(rows) = 3 + (IF shown = {} THEN 0 ELSE Total(First(Max(shown))))
  BY DEF FormatQueryResult
<1> HIDE DEF shown, cut
<1>5. CASE shown # {}
  <2>1. Max(shown) \in 1..Len(rows)
    BY <1>1, <1>3, <1>5, LargestIsIn
  <2>2. SubSeq(cut, 1, Max(shown)) \in Seq(Nat)
    BY <1>1, <1>2, <2>1
  <2>3. Total(First(Max(shown))) \in Nat
    BY <2>2, TotalIsNat
  <2> QED
    BY <1>4, <1>5, <2>3
<1> QED
  BY <1>4, <1>5

LEMMA ShownIsNat == Shown \subseteq Nat
  BY ResultSizeIsNat, AskAssumption DEF Shown

-----------------------------------------------------------------------------
(* What a step of a run does. *)

Exchange(c, size) == <<Message("call", CallSize(c), 0), Message("tool", size, 0)>>

\* The history is as it was, or longer by a notice or by a call and its result.
Grown(h, h2) ==
  \/ h2 = h \/ h2 = Append(h, Notice)
  \/ \E c \in Calls, size \in Shown : h2 = h \o Exchange(c, size)

LEMMA GrownIsShaped ==
  ASSUME NEW h, HistoryShaped(h), NEW h2, Grown(h, h2)
  PROVE  HistoryShaped(h2)
<1>1. /\ h \in Seq(Messages) /\ Len(h) \in Nat /\ DOMAIN h = 1..Len(h)
      /\ \A i \in 1..Len(h) : OfARun(h[i])
      /\ \A i \in 1..Len(h) : h[i].role = "tool" => i > 1 /\ h[i - 1].role = "call"
  <2>1. h \in Seq(Messages)
    BY DEF HistoryShaped
  <2>2. Len(h) \in Nat /\ DOMAIN h = 1..Len(h)
    BY <2>1
  <2> QED
    BY <2>1, <2>2 DEF HistoryShaped
<1>2. CASE h2 = h
  BY <1>2
<1>3. CASE h2 = Append(h, Notice)
  <2> DEFINE m == Notice
  <2>1. m \in Messages /\ OfARun(m) /\ m.role = "user"
    BY DEF Notice, Message, Messages, Roles, OfARun
  <2> HIDE DEF m
  <2>2. /\ h2 \in Seq(Messages) /\ DOMAIN h2 = 1..(Len(h) + 1)
        /\ \A i \in 1..Len(h) : h2[i] = h[i]
        /\ h2[Len(h) + 1] = m
    BY <1>1, <1>3, <2>1 DEF m
  <2>3. \A i \in DOMAIN h2 : i \in 1..Len(h) \/ i = Len(h) + 1
    BY <1>1, <2>2
  <2>4. \A i \in DOMAIN h2 : OfARun(h2[i])
    BY <1>1, <2>1, <2>2, <2>3
  <2>5. ASSUME NEW i \in DOMAIN h2, h2[i].role = "tool"
        PROVE  i > 1 /\ h2[i - 1].role = "call"
    <3>1. i \in 1..Len(h) /\ h2[i] = h[i]
      BY <2>1, <2>2, <2>3, <2>5
    <3>2. i > 1 /\ h[i - 1].role = "call"
      BY <1>1, <2>5, <3>1
    <3>3. i - 1 \in 1..Len(h)
      BY <1>1, <3>1, <3>2
    <3> QED
      BY <2>2, <3>2, <3>3
  <2> QED
    BY <2>2, <2>4, <2>5 DEF HistoryShaped
<1>4. ASSUME NEW c \in Calls, NEW size \in Shown, h2 = h \o Exchange(c, size)
      PROVE  HistoryShaped(h2)
  <2> DEFINE u == Message("call", CallSize(c), 0)
             v == Message("tool", size, 0)
  <2>1. CallSize(c) \in Nat /\ size \in Nat
    BY CallSizeIsNat, ShownIsNat
  <2>2. u \in Messages /\ v \in Messages /\ OfARun(u) /\ OfARun(v)
    BY <2>1 DEF Message, Messages, Roles, OfARun
  <2>3. u.role = "call" /\ v.role = "tool"
    BY DEF Message
  <2>4. h2 = h \o <<u, v>>
    BY <1>4 DEF Exchange
  <2> HIDE DEF u, v
  <2>5. /\ h2 \in Seq(Messages) /\ Len(h2) = Len(h) + 2
        /\ \A i \in 1..Len(h) : h2[i] = h[i]
        /\ h2[Len(h) + 1] = u /\ h2[Len(h) + 2] = v
    BY <1>1, <2>2, <2>4, PairAtTheEnd
  <2>6. DOMAIN h2 = 1..(Len(h) + 2)
    BY <2>5
  <2>7. \A i \in DOMAIN h2 : i \in 1..Len(h) \/ i = Len(h) + 1 \/ i = Len(h) + 2
    BY <1>1, <2>6
  <2>8. \A i \in DOMAIN h2 : OfARun(h2[i])
    BY <1>1, <2>2, <2>5, <2>7
  <2>9. ASSUME NEW i \in DOMAIN h2, h2[i].role = "tool"
        PROVE  i > 1 /\ h2[i - 1].role = "call"
    <3>1. CASE i \in 1..Len(h)
      <4>1. i > 1 /\ h[i - 1].role = "call"
        BY <1>1, <2>5, <2>9, <3>1
      <4>2. i - 1 \in 1..Len(h)
        BY <1>1, <3>1, <4>1
      <4> QED
        BY <2>5, <4>1, <4>2
    <3>2. CASE i = Len(h) + 1
      BY <2>3, <2>5, <2>9, <3>2
    <3>3. CASE i = Len(h) + 2
      <4>1. i > 1 /\ i - 1 = Len(h) + 1
        BY <1>1, <3>3
      <4> QED
        BY <2>3, <2>5, <4>1
    <3> QED
      BY <2>7, <3>1, <3>2, <3>3
  <2> QED
    BY <2>5, <2>8, <2>9 DEF HistoryShaped
<1> QED
  BY <1>2, <1>3, <1>4 DEF Grown

\* Some events are written, the history grows, and the call that was proposed is
\* sent, or another one is proposed.
RunMoves(events) ==
  /\ events \in Seq(Events) /\ question' = question
  /\ Emit(events) \/ UNCHANGED <<run, trace, files>>
  /\ Grown(agent.history, agent'.history)
  /\ \/ agent'.dispatched = agent.dispatched
     \/ pc = "tool" /\ agent'.dispatched = Append(agent.dispatched, agent.last)
  /\ pc' = "tool" =>
       Emit(events) /\ \E j \in DOMAIN events : events[j] = Event("ToolCall", agent'.last)

LEMMA CallMoves ==
  ASSUME NEW a, AgentTyped(a), NEW plain, Call(a, plain)
  PROVE  /\ agent'.history = a.history /\ agent'.dispatched = a.dispatched
         /\ pc' = "post"
  BY DEF Call, AgentTyped

LEMMA StopMoves ==
  ASSUME NEW events, Ends(events), NEW size, Stop(events, size),
         Grown(agent.history, agent'.history),
         \/ agent'.dispatched = agent.dispatched
         \/ pc = "tool" /\ agent'.dispatched = Append(agent.dispatched, agent.last)
  PROVE  RunMoves(events)
<1>1. Emit(events) /\ question' = question /\ pc' # "tool"
  BY DEF Stop
<1>2. events \in Seq(Events)
  BY DEF Ends
<1> QED
  BY <1>1, <1>2 DEF RunMoves

LEMMA RaiseMoves ==
  ASSUME NEW f, Raise(f), Grown(agent.history, agent'.history),
         \/ agent'.dispatched = agent.dispatched
         \/ pc = "tool" /\ agent'.dispatched = Append(agent.dispatched, agent.last)
  PROVE  RunMoves(<<>>)
<1>1. UNCHANGED <<run, trace, files>> /\ question' = question /\ pc' # "tool"
  BY DEF Raise
<1> QED
  BY <1>1 DEF RunMoves

LEMMA NextTurnMoves ==
  ASSUME NEW a, AgentTyped(a), NEW events, GoesOn(events), NextTurn(a, events),
         Grown(agent.history, a.history),
         \/ a.dispatched = agent.dispatched
         \/ pc = "tool" /\ a.dispatched = Append(agent.dispatched, agent.last)
  PROVE  \E more : RunMoves(more)
<1>1. CASE a.turn < MaxTurns
  <2> DEFINE b == [a EXCEPT !.turn = @ + 1]
  <2>1. Emit(events) /\ Call(b, FALSE) /\ question' = question
    BY <1>1 DEF NextTurn
  <2>2. AgentTyped(b) /\ b.dispatched = a.dispatched
    BY <1>1, TakingATurn
  <2>3. b.history = a.history
    BY DEF AgentTyped
  <2> HIDE DEF b
  <2>4. agent'.history = a.history /\ agent'.dispatched = a.dispatched /\ pc' = "post"
    BY <2>1, <2>2, <2>3, CallMoves
  <2>5. RunMoves(events)
    BY <2>1, <2>4 DEF RunMoves, GoesOn
  <2> QED
    BY <2>5
<1>2. CASE ~(a.turn < MaxTurns)
  <2> DEFINE more == events \o <<Event("MaxTurns", None)>>
  <2>1. Stop(more, 0) /\ agent' = a
    BY <1>2 DEF NextTurn
  <2>2. "MaxTurns" \in Terminal /\ None \in Calls \cup {None}
    BY DEF Terminal
  <2>3. Ends(more)
    BY <2>2, EndAfter
  <2> HIDE DEF more
  <2>4. RunMoves(more)
    BY <2>1, <2>3, StopMoves
  <2> QED
    BY <2>4
<1> QED
  BY <1>1, <1>2

LEMMA StandingStill == ASSUME NEW h PROVE Grown(h, h)
  BY DEF Grown

LEMMA UnusableMoves ==
  ASSUME AskInv, Unusable
  PROVE  \E events : RunMoves(events)
<1> DEFINE a == [agent EXCEPT !.unusable = @ + 1]
           retry == Event("Retry", None)
<1>1. AgentTyped(agent) /\ pc = "post"
  BY AgentNow DEF Unusable
<1>2. AgentTyped(a) /\ a.dispatched = agent.dispatched /\ a.history = agent.history
  <2>1. AgentTyped(a) /\ a.dispatched = agent.dispatched
    BY <1>1, ReadingARefusal
  <2>2. a.history = agent.history
    BY <1>1 DEF AgentTyped
  <2> QED
    BY <2>1, <2>2
<1>3. GoesOn(<<retry>>)
  BY OneEventGoesOn
<1>4. \/ Stop(<<Event("LLMParseError", None)>>, 0) /\ agent' = agent
      \/ NextTurn([a EXCEPT !.history = Append(@, Notice)], <<retry>>)
      \/ Emit(<<retry>>) /\ Call(a, TRUE) /\ question' = question
  BY DEF Unusable
<1> HIDE DEF a, retry
<1>5. CASE Stop(<<Event("LLMParseError", None)>>, 0) /\ agent' = agent
  <2>1. Ends(<<Event("LLMParseError", None)>>)
    BY EndAlone DEF Terminal
  <2> QED
    BY <1>5, <2>1, StandingStill, StopMoves
<1>6. CASE NextTurn([a EXCEPT !.history = Append(@, Notice)], <<retry>>)
  <2> DEFINE h == Append(a.history, Notice)
             b == [a EXCEPT !.history = h]
  <2>1. AgentTyped(b) /\ b.dispatched = a.dispatched
    <3> HIDE DEF h
    <3>1. b = [a EXCEPT !.history = h]
      OBVIOUS
    <3> HIDE DEF b
    <3> QED
      BY <1>2, <3>1, GrowingTheHistory
  <2>2. b.history = h
    BY <1>2 DEF AgentTyped
  <2>3. NextTurn(b, <<retry>>)
    BY <1>6
  <2>4. Grown(agent.history, h)
    BY <1>2 DEF Grown
  <2> HIDE DEF b, h
  <2> QED
    BY <1>2, <1>3, <2>1, <2>2, <2>3, <2>4, NextTurnMoves
<1>7. CASE Emit(<<retry>>) /\ Call(a, TRUE) /\ question' = question
  <2>1. agent'.history = agent.history /\ agent'.dispatched = agent.dispatched /\ pc' = "post"
    BY <1>2, <1>7, CallMoves
  <2>2. RunMoves(<<retry>>)
    BY <1>3, <1>7, <2>1, StandingStill DEF RunMoves, GoesOn
  <2> QED
    BY <2>2
<1> QED
  BY <1>4, <1>5, <1>6, <1>7

LEMMA SendingIsTyped ==
  ASSUME NEW a, AgentTyped(a), NEW c \in Calls, NEW n \in Nat,
         NEW b, b = [a EXCEPT !.failed = n, !.dispatched = Append(@, c)]
  PROVE  AgentTyped(b)
<1>1. Append(a.dispatched, c) \in Seq(Calls)
  BY DEF AgentTyped
<1> QED
  BY <1>1 DEF AgentTyped

LEMMA ObserveMoves ==
  ASSUME AskInv, pc = "tool", NEW isError \in BOOLEAN, NEW size \in Shown,
         Observe(agent.last, isError, size)
  PROVE  \E events : RunMoves(events)
<1> DEFINE c == agent.last
           failed == IF isError THEN agent.failed + 1 ELSE agent.failed
           a == [agent EXCEPT !.failed = failed, !.dispatched = Append(@, c)]
           events == <<Event("Observation", c)>>
                       \o (IF isError THEN <<Event("Retry", None)>> ELSE <<>>)
           h == a.history \o Exchange(c, size)
<1>1. AgentTyped(agent) /\ c \in Calls
  BY AgentNow DEF AskInv, Counted, AtTool
<1>2. GoesOn(events)
  <2>1. GoesOn(<<Event("Observation", c)>>)
    BY <1>1, OneEventGoesOn
  <2>2. GoesOn(IF isError THEN <<Event("Retry", None)>> ELSE <<>>)
    <3>1. GoesOn(<<Event("Retry", None)>>)
      BY OneEventGoesOn
    <3>2. GoesOn(<<>>)
      BY DEF GoesOn
    <3> QED
      BY <3>1, <3>2
  <2> QED
    BY <2>1, <2>2, GoesOnAfter
<1>3. \/ Stop(Append(events, Event("RetryLimit", None)), 0) /\ agent' = a
      \/ NextTurn([a EXCEPT !.history = h], events)
  BY DEF Observe, Exchange
<1>4. /\ a.history = agent.history
      /\ a.dispatched = Append(agent.dispatched, agent.last)
  BY <1>1 DEF AgentTyped
<1>5. AgentTyped(a)
  <2>1. failed \in Nat
    BY <1>1 DEF AgentTyped
  <2> HIDE DEF failed, c
  <2> QED
    BY <1>1, <2>1, SendingIsTyped
<1>6. Grown(agent.history, h)
  BY <1>1, <1>4 DEF Grown
<1> HIDE DEF failed, events, h, a
<1>7. CASE Stop(Append(events, Event("RetryLimit", None)), 0) /\ agent' = a
  <2>1. "RetryLimit" \in Terminal /\ None \in Calls \cup {None}
    BY DEF Terminal
  <2>2. Ends(Append(events, Event("RetryLimit", None)))
    BY <1>2, <2>1, EndAfter
  <2>3. Grown(agent.history, agent'.history)
    BY <1>4, <1>7, StandingStill
  <2>4. agent'.dispatched = Append(agent.dispatched, agent.last)
    BY <1>4, <1>7
  <2> HIDE DEF c
  <2> QED
    BY <1>7, <2>2, <2>3, <2>4, StopMoves
<1>8. CASE NextTurn([a EXCEPT !.history = h], events)
  <2> DEFINE b == [a EXCEPT !.history = h]
  <2>1. AgentTyped(b) /\ b.dispatched = a.dispatched
    BY <1>5, GrowingTheHistory
  <2>2. b.history = h
    BY <1>5 DEF AgentTyped
  <2>3. NextTurn(b, events)
    BY <1>8
  <2> HIDE DEF b
  <2> QED
    BY <1>2, <1>4, <1>6, <2>1, <2>2, <2>3, NextTurnMoves
<1> QED
  BY <1>3, <1>7, <1>8

LEMMA DispatchMoves ==
  ASSUME AskInv, Dispatch
  PROVE  \E events : RunMoves(events)
<1> DEFINE c == agent.last
<1>1. pc = "tool" /\ 1 \in Shown /\ AgentTyped(agent) /\ c \in Calls
  BY AgentNow DEF Dispatch, Shown, AskInv, Counted, AtTool
<1>2. \/ \E size \in Shown : Observe(c, FALSE, size)
      \/ Observe(c, TRUE, 1)
      \/ Stop(<<Event("SafetyViolation", c)>>, 0) /\ agent' = agent
      \/ \E f : Raise(f) /\ agent' = [agent EXCEPT !.dispatched = Append(@, c)]
  BY <1>1 DEF Dispatch, Shown
<1>3. ASSUME NEW size \in Shown, NEW e \in BOOLEAN, Observe(c, e, size)
      PROVE  \E events : RunMoves(events)
  BY <1>1, <1>3, ObserveMoves
<1>4. CASE Stop(<<Event("SafetyViolation", c)>>, 0) /\ agent' = agent
  <2>1. Ends(<<Event("SafetyViolation", c)>>)
    BY <1>1, EndAlone DEF Terminal
  <2> QED
    BY <1>4, <2>1, StandingStill, StopMoves
<1>5. ASSUME NEW f, Raise(f), agent' = [agent EXCEPT !.dispatched = Append(@, c)]
      PROVE  \E events : RunMoves(events)
  <2>1. /\ agent'.history = agent.history
        /\ agent'.dispatched = Append(agent.dispatched, agent.last)
    BY <1>1, <1>5 DEF AgentTyped
  <2> QED
    BY <1>1, <1>5, <2>1, StandingStill, RaiseMoves
<1> QED
  BY <1>1, <1>2, <1>3, <1>4, <1>5

LEMMA ProposeMoves ==
  ASSUME AskInv, NEW c \in Calls, Propose(c)
  PROVE  \E events : RunMoves(events)
<1>1. CASE Repeats(c)
  <2>1. Stop(<<Event("RepeatedAction", c)>>, 0) /\ agent' = agent
    BY <1>1 DEF Propose
  <2>2. Ends(<<Event("RepeatedAction", c)>>)
    BY EndAlone DEF Terminal
  <2> QED
    BY <2>1, <2>2, StandingStill, StopMoves
<1>2. CASE ~Repeats(c)
  <2> DEFINE e == Event("ToolCall", c)
  <2>1. Emit(<<e>>) /\ agent' = [agent EXCEPT !.last = c] /\ question' = question
    BY <1>2 DEF Propose
  <2>2. /\ agent'.history = agent.history /\ agent'.dispatched = agent.dispatched
        /\ agent'.last = c
    BY <2>1, AgentNow DEF AgentTyped
  <2>3. e \in Events
    BY EventIsTyped
  <2>4. <<e>> \in Seq(Events) /\ 1 \in DOMAIN <<e>> /\ <<e>>[1] = Event("ToolCall", agent'.last)
    BY <2>2, <2>3
  <2> HIDE DEF e
  <2>5. RunMoves(<<e>>)
    BY <2>1, <2>2, <2>4, StandingStill DEF RunMoves
  <2> QED
    BY <2>5
<1> QED
  BY <1>1, <1>2

LEMMA PostFailsMoves ==
  ASSUME AskInv, NEW f \in HttpFailures, PostFails(f)
  PROVE  \E events : RunMoves(events)
<1>1. pc = "post"
  BY DEF PostFails
<1>2. \/ UNCHANGED <<pc, question, agent, run, trace, files>>
      \/ Stop(<<Event("LLMParseError", None)>>, 0) /\ agent' = agent
      \/ Raise(f) /\ agent' = agent
  BY DEF PostFails
<1>3. CASE UNCHANGED <<pc, question, agent, run, trace, files>>
  <2>1. RunMoves(<<>>)
    BY <1>1, <1>3, StandingStill DEF RunMoves
  <2> QED
    BY <2>1
<1>4. CASE Stop(<<Event("LLMParseError", None)>>, 0) /\ agent' = agent
  <2>1. Ends(<<Event("LLMParseError", None)>>)
    BY EndAlone DEF Terminal
  <2> QED
    BY <1>4, <2>1, StandingStill, StopMoves
<1>5. CASE Raise(f) /\ agent' = agent
  BY <1>5, StandingStill, RaiseMoves
<1> QED
  BY <1>2, <1>3, <1>4, <1>5

LEMMA WorkMoves ==
  ASSUME AskInv, Work
  PROVE  pc \in {"post", "tool"} /\ \E events : RunMoves(events)
<1>1. pc \in {"post", "tool"}
  BY DEF Work, PostFails, Unusable, AnswerText, Clarify, Propose, Dispatch
<1>2. AnswerText \/ Clarify => \E events : RunMoves(events)
  <2>1. ASSUME NEW type \in Terminal, NEW size, Stop(<<Event(type, None)>>, size), agent' = agent
        PROVE  \E events : RunMoves(events)
    <3>1. Ends(<<Event(type, None)>>)
      BY EndAlone
    <3> QED
      BY <2>1, <3>1, StandingStill, StopMoves
  <2>2. "Answer" \in Terminal /\ "Clarify" \in Terminal
    BY DEF Terminal
  <2> QED
    BY <2>1, <2>2 DEF AnswerText, Clarify
<1> QED
  BY <1>1, <1>2, PostFailsMoves, UnusableMoves, ProposeMoves, DispatchMoves DEF Work

-----------------------------------------------------------------------------
(* The second invariant holds. *)

LEMMA ContainsAfter ==
  ASSUME NEW s \in Seq(Nat), NEW n \in Nat
  PROVE  /\ Append(s, n) \in Seq(Nat) /\ Len(Append(s, n)) = Len(s) + 1
         /\ Contains(Append(s, n), n)
<1>1. /\ Append(s, n) \in Seq(Nat) /\ Len(Append(s, n)) = Len(s) + 1
      /\ Append(s, n)[Len(s) + 1] = n
  OBVIOUS
<1>2. Len(s) + 1 \in 1..Len(Append(s, n))
  BY <1>1
<1> QED
  BY <1>1, <1>2 DEF Contains

LEMMA EmitKeepsFiles ==
  ASSUME FilesKept, pc \in {"post", "tool"}, question.n \in Nat, question' = question,
         NEW events, Emit(events)
  PROVE  FilesKept'
<1>1. /\ files \in Seq(Nat) /\ Len(files) <= Keep
      /\ ~Contains(files, question.n) => Len(files) < Keep
  BY DEF FilesKept
<1>2. Len(files) \in Nat /\ Keep \in Nat
  BY <1>1, AskAssumption
<1>3. files' = IF Contains(files, question.n) THEN files ELSE Append(files, question.n)
  BY DEF Emit
<1>4. /\ files' \in Seq(Nat) /\ Len(files') <= Keep /\ Contains(files', question.n)
  <2>1. CASE Contains(files, question.n)
    BY <1>1, <1>3, <2>1
  <2>2. CASE ~Contains(files, question.n)
    BY <1>1, <1>2, <1>3, <2>2, ContainsAfter
  <2> QED
    BY <2>1, <2>2
<1> QED
  BY <1>4 DEF FilesKept

\* What the lines name, they go on naming.
LEMMA Naming ==
  ASSUME NEW t \in Seq(Events), NEW events \in Seq(Events)
  PROVE  /\ t \o events \in Seq(Events)
         /\ \A j \in DOMAIN t : j \in DOMAIN (t \o events) /\ (t \o events)[j] = t[j]
         /\ \A e : (\E j \in DOMAIN events : events[j] = e)
              => \E j \in DOMAIN (t \o events) : (t \o events)[j] = e
<1> DEFINE u == t \o events
<1>1. /\ u \in Seq(Events) /\ Len(t) \in Nat /\ Len(events) \in Nat
      /\ DOMAIN t = 1..Len(t) /\ DOMAIN events = 1..Len(events)
      /\ DOMAIN u = 1..(Len(t) + Len(events))
      /\ \A j \in 1..Len(t) : u[j] = t[j]
      /\ \A j \in 1..Len(events) : u[Len(t) + j] = events[j]
  OBVIOUS
<1> HIDE DEF u
<1>2. \A j \in 1..Len(events) : Len(t) + j \in DOMAIN u
  BY <1>1
<1>3. \A j \in DOMAIN t : j \in DOMAIN u /\ u[j] = t[j]
  BY <1>1
<1>4. \A e : (\E j \in DOMAIN events : events[j] = e) => \E j \in DOMAIN u : u[j] = e
  BY <1>1, <1>2
<1> QED
  BY <1>1, <1>3, <1>4 DEF u

LEMMA MovesTell ==
  ASSUME AskInv, pc \in {"post", "tool"}, NEW events, RunMoves(events),
         NEW t \in Seq(Events), Tells(t)
  PROVE  \E u \in Seq(Events) : Tells(u)'
<1>1. /\ trace = t
      /\ \A i \in DOMAIN agent.dispatched :
           \E j \in DOMAIN t : t[j] = Event("ToolCall", agent.dispatched[i])
      /\ pc = "tool" => \E j \in DOMAIN t : t[j] = Event("ToolCall", agent.last)
  BY DEF Tells
<1>2. PICK p \in Seq(Events) : t = p \o run
  BY DEF Tells
<1>3. events \in Seq(Events) /\ run \in Seq(Events) /\ agent.dispatched \in Seq(Calls)
  BY DEF RunMoves, AskInv, Typed, AgentTyped
<1>4. ASSUME NEW u \in Seq(Events), trace' = u, \E q \in Seq(Events) : u = q \o run',
             \A e : (\E j \in DOMAIN t : t[j] = e) => \E j \in DOMAIN u : u[j] = e,
             pc' = "tool" => \E j \in DOMAIN u : u[j] = Event("ToolCall", agent'.last)
      PROVE  Tells(u)'
  <2>1. ASSUME NEW i \in DOMAIN agent'.dispatched
        PROVE  \E j \in DOMAIN u : u[j] = Event("ToolCall", agent'.dispatched[i])
    <3>1. CASE agent'.dispatched = agent.dispatched
      BY <1>1, <1>4, <2>1, <3>1
    <3>2. CASE pc = "tool" /\ agent'.dispatched = Append(agent.dispatched, agent.last)
      <4>1. \/ i \in DOMAIN agent.dispatched /\ agent'.dispatched[i] = agent.dispatched[i]
            \/ agent'.dispatched[i] = agent.last
        BY <1>3, <2>1, <3>2
      <4> QED
        BY <1>1, <1>4, <3>2, <4>1
    <3> QED
      BY <3>1, <3>2 DEF RunMoves
  <2> QED
    BY <1>4, <2>1 DEF Tells
<1>5. CASE Emit(events)
  <2> DEFINE u == t \o events
  <2>1. trace' = u /\ run' = run \o events
    BY <1>1, <1>5 DEF Emit, Written
  <2>2. /\ u \in Seq(Events)
        /\ \A j \in DOMAIN t : j \in DOMAIN u /\ u[j] = t[j]
        /\ \A e : (\E j \in DOMAIN events : events[j] = e) => \E j \in DOMAIN u : u[j] = e
    BY <1>3, Naming
  <2>3. u = p \o run'
    BY <1>2, <1>3, <2>1, SMTT(30)
  <2> HIDE DEF u
  <2>4. \A e : (\E j \in DOMAIN t : t[j] = e) => \E j \in DOMAIN u : u[j] = e
    BY <2>2
  <2>5. pc' = "tool" => \E j \in DOMAIN u : u[j] = Event("ToolCall", agent'.last)
    BY <2>2 DEF RunMoves
  <2>6. Tells(u)'
    BY <1>2, <1>4, <2>1, <2>2, <2>3, <2>4, <2>5
  <2> QED
    BY <2>2, <2>6
<1>6. CASE UNCHANGED <<run, trace, files>> /\ ~Emit(events)
  <2>1. pc' # "tool"
    BY <1>6 DEF RunMoves
  <2>2. Tells(t)'
    BY <1>1, <1>2, <1>4, <1>6, <2>1
  <2> QED
    BY <2>2
<1> QED
  BY <1>5, <1>6 DEF RunMoves

LEMMA WorkKeepsRunInv ==
  ASSUME AskInv, RunInv, Work
  PROVE  RunInv'
<1>1. PICK events : RunMoves(events)
  BY WorkMoves
<1>2. pc \in {"post", "tool"} /\ question' = question /\ question \in Questions
  BY <1>1, WorkMoves DEF RunMoves, AskInv, Typed
<1>3. HistoryShaped(agent.history)'
  BY <1>1, GrownIsShaped DEF RunInv, RunMoves
<1>4. QuestionShaped(question)'
  BY <1>2 DEF RunInv, QuestionShaped
<1>5. (\E t \in Seq(Events) : Tells(t))'
  BY <1>1, <1>2, MovesTell DEF RunInv
<1>6. FilesKept'
  <2>1. FilesKept /\ question.n \in Nat
    BY <1>2 DEF RunInv, Questions
  <2>2. CASE Emit(events)
    BY <1>2, <2>1, <2>2, EmitKeepsFiles
  <2>3. CASE UNCHANGED <<run, trace, files>>
    BY <1>2, <2>1, <2>3 DEF FilesKept
  <2> QED
    BY <1>1, <2>2, <2>3 DEF RunMoves
<1> QED
  BY <1>3, <1>4, <1>5, <1>6 DEF RunInv

LEMMA FreshIsShaped == HistoryShaped(Fresh.history) /\ Fresh.dispatched = <<>>
  BY DEF Fresh, HistoryShaped

LEMMA RunInvInitially == Init => RunInv
<1> SUFFICES ASSUME Init PROVE RunInv
  OBVIOUS
<1>1. HistoryShaped(agent.history)
  BY FreshIsShaped DEF Init
<1>2. QuestionShaped(question)
  BY AskAssumption DEF Init, QuestionShaped, Questions
<1>3. Tells(<<>>)
  <2>1. run = <<>> /\ trace = <<>> /\ pc = "prompt" /\ DOMAIN agent.dispatched = {}
    BY DEF Init, Fresh
  <2>2. <<>> \in Seq(Events) /\ <<>> = <<>> \o run
    BY <2>1
  <2> QED
    BY <2>1, <2>2 DEF Tells
<1>4. FilesKept
  <2>1. files = <<>> \/ files = <<0>>
    BY DEF Init
  <2>2. files \in Seq(Nat) /\ Len(files) <= 1
    <3>1. CASE files = <<>>
      BY <3>1
    <3>2. CASE files = <<0>>
      BY <3>2
    <3> QED
      BY <2>1, <3>1, <3>2
  <2>3. Keep \in Nat \ {0} /\ trace = <<>> /\ pc = "prompt"
    BY AskAssumption DEF Init
  <2> QED
    BY <2>2, <2>3 DEF FilesKept
<1>5. <<>> \in Seq(Events)
  OBVIOUS
<1> QED
  BY <1>1, <1>2, <1>3, <1>4, <1>5 DEF RunInv

\* Pruning leaves one slot free.
LEMMA PruneLeavesRoom ==
  ASSUME NEW fs \in Seq(Nat)
  PROVE  Prune(fs) \in Seq(Nat) /\ Len(Prune(fs)) < Keep
<1>1. Keep \in Nat \ {0} /\ Len(fs) \in Nat
  BY AskAssumption
<1>2. CASE Len(fs) > Keep - 1
  <2>1. Prune(fs) = SubSeq(fs, Len(fs) - (Keep - 1) + 1, Len(fs))
    BY <1>2 DEF Prune, Newest
  <2>2. Len(fs) - (Keep - 1) + 1 \in 1..(Len(fs) + 1)
    BY <1>1, <1>2
  <2> QED
    BY <1>1, <1>2, <2>1, <2>2, SMTT(30)
<1>3. CASE ~(Len(fs) > Keep - 1)
  BY <1>1, <1>3 DEF Prune
<1> QED
  BY <1>2, <1>3

LEMMA AskQuestionKeepsRunInv ==
  ASSUME AskInv, RunInv, AskQuestion
  PROVE  RunInv'
<1>1. /\ question' = [n |-> question.n + 1, size |-> 1, replies |-> 0]
      /\ Call(Fresh, FALSE) /\ files' = Prune(files) /\ run' = <<>> /\ trace' = <<>>
  BY DEF AskQuestion
<1>2. AgentTyped(Fresh)
  BY BoundsGiven DEF Fresh, AgentTyped
<1>3. agent'.history = Fresh.history /\ agent'.dispatched = <<>> /\ pc' = "post"
  BY <1>1, <1>2, CallMoves, FreshIsShaped
<1>4. QuestionShaped(question)'
  <2>1. question \in Questions
    BY DEF AskInv, Typed
  <2> QED
    BY <1>1, <2>1, AskAssumption DEF QuestionShaped, Questions
<1>5. Tells(<<>>)'
  <2>1. <<>> \in Seq(Events) /\ <<>> = <<>> \o run' /\ DOMAIN agent'.dispatched = {}
    BY <1>1, <1>3
  <2> QED
    BY <1>1, <1>3, <2>1 DEF Tells
<1>6. FilesKept'
  <2>1. files' \in Seq(Nat) /\ Len(files') < Keep
    BY <1>1, PruneLeavesRoom DEF RunInv, FilesKept
  <2>2. Len(files') \in Nat /\ Keep \in Nat
    BY <2>1, AskAssumption
  <2> QED
    BY <1>1, <2>1, <2>2 DEF FilesKept
<1>7. <<>> \in Seq(Events)
  OBVIOUS
<1> QED
  BY <1>3, <1>4, <1>5, <1>6, <1>7, FreshIsShaped DEF RunInv

LEMMA ReplyKeepsRunInv ==
  ASSUME AskInv, RunInv, Reply
  PROVE  RunInv'
<1>1. PICK t \in Seq(Events) : Tells(t)
  BY DEF RunInv
<1>2. pc = "clarify" /\ UNCHANGED <<trace, files>> /\ trace = t
  BY <1>1 DEF Reply, Tells
<1>3. CASE /\ question.replies < MaxReplies /\ Call(Fresh, FALSE) /\ run' = <<>>
           /\ question' = [question EXCEPT !.size = @ + 1, !.replies = @ + 1]
  <2>1. AgentTyped(Fresh)
    BY BoundsGiven DEF Fresh, AgentTyped
  <2>2. agent'.history = Fresh.history /\ agent'.dispatched = <<>> /\ pc' = "post"
    BY <1>3, <2>1, CallMoves, FreshIsShaped
  <2>3. /\ question \in Questions /\ question.size = 1 + question.replies /\ question.n > 0
    BY <1>2 DEF RunInv, QuestionShaped
  <2>4. /\ question' = [n |-> question.n, size |-> question.size + 1,
                        replies |-> question.replies + 1]
        /\ question.replies \in Nat /\ question.size \in Nat /\ question.n \in Nat
    BY <1>3, <2>3 DEF Questions
  <2>5. QuestionShaped(question)'
    BY <1>3, <2>3, <2>4, AskAssumption, SMTT(30) DEF QuestionShaped, Questions
  <2>6. Tells(t)'
    <3>1. t = t \o run' /\ DOMAIN agent'.dispatched = {}
      BY <1>3, <2>2
    <3> QED
      BY <1>2, <2>2, <3>1 DEF Tells
  <2>7. FilesKept'
    BY <1>2, <2>4 DEF RunInv, FilesKept
  <2> QED
    BY <2>2, <2>5, <2>6, <2>7, FreshIsShaped DEF RunInv
<1>4. CASE pc' = "prompt" /\ UNCHANGED <<question, agent, run>>
  <2>1. Tells(t)'
    BY <1>1, <1>2, <1>4 DEF Tells
  <2> QED
    BY <1>2, <1>4, <2>1 DEF RunInv, QuestionShaped, FilesKept
<1> QED
  BY <1>3, <1>4 DEF Reply

\* A process that ends may tear the last line of its trace and no other.
LEMMA EndsKeepRunInv ==
  ASSUME AskInv, RunInv, Leave \/ Die
  PROVE  RunInv'
<1>1. PICK t \in Seq(Events) : Tells(t)
  BY DEF RunInv
<1>2. /\ pc # "over" /\ pc' = "over" /\ UNCHANGED <<question, agent, run, files>>
      /\ trace' = trace \/ (trace # <<>> /\ trace' = Append(trace, Torn))
  BY DEF Leave, Die
<1>3. trace = t
  BY <1>1, <1>2 DEF Tells
<1>4. Tells(t)'
  BY <1>1, <1>2, <1>3 DEF Tells
<1>5. FilesKept'
  BY <1>2 DEF RunInv, FilesKept
<1> QED
  BY <1>2, <1>4, <1>5 DEF RunInv, QuestionShaped

LEMMA RunInvStep == AskInv /\ RunInv /\ [Next]_vars => RunInv'
<1>1. AskInv /\ RunInv /\ Next => RunInv'
  BY WorkKeepsRunInv, AskQuestionKeepsRunInv, ReplyKeepsRunInv, EndsKeepRunInv DEF Next
<1>2. RunInv /\ UNCHANGED vars => RunInv'
  BY DEF vars, RunInv, QuestionShaped, FilesKept, Tells
<1> QED
  BY <1>1, <1>2

THEOREM RunsAreTold == Spec => []RunInv
<1>1. Init => RunInv
  BY RunInvInitially
<1>2. AskInv /\ RunInv /\ [Next]_vars => RunInv'
  BY RunInvStep
<1> QED
  BY <1>1, <1>2, AskIsInvariant, PTL DEF Spec

\* Whenever the process dies, what a replay reads of a trace ends with the events of
\* the run under way, every statement that was sent is named in it, and pruning has
\* left this trace and no more than `keep` of them.
THEOREM TracesNameEveryCall == Spec => []TraceNamesEveryCall
<1>1. AskInv /\ RunInv => TraceNamesEveryCall
  <2> SUFFICES ASSUME AskInv, RunInv PROVE TraceNamesEveryCall
    OBVIOUS
  <2>1. PICK t \in Seq(Events) : Tells(t)
    BY DEF RunInv
  <2>2. PICK p \in Seq(Events) : t = p \o run
    BY <2>1 DEF Tells
  <2>3. Torn \notin Events
    BY DEF Torn, Events, Terminal
  <2>4. Readable(trace) = t
    <3>1. CASE trace = t
      BY <3>1, SiftedIsAll DEF Readable
    <3>2. CASE trace = Append(t, Torn)
      BY <2>3, <3>2, SiftedButTheLast DEF Readable
    <3> QED
      BY <2>1, <3>1, <3>2 DEF Tells
  <2>5. IsSuffix(run, Readable(trace))
    BY <2>2, <2>4, EndIsSuffix DEF AskInv, Typed
  <2>6. \A j \in DOMAIN t : j \in DOMAIN trace /\ trace[j] = t[j]
    <3>1. CASE trace = Append(t, Torn)
      BY <3>1
    <3> QED
      BY <2>1, <3>1 DEF Tells
  <2>7. \A i \in DOMAIN agent.dispatched :
          \E j \in DOMAIN trace : trace[j] = Event("ToolCall", agent.dispatched[i])
    BY <2>1, <2>6 DEF Tells
  <2> QED
    BY <2>5, <2>7 DEF RunInv, FilesKept, TraceNamesEveryCall
<1> QED
  BY <1>1, AskIsInvariant, RunsAreTold, PTL

-----------------------------------------------------------------------------
(* What trimming leaves. *)

Rest(s, d) == SubSeq(s, d + 1, Len(s))

LEMMA RestFacts ==
  ASSUME NEW s \in Seq(Messages), NEW d \in 0..Len(s)
  PROVE  /\ Rest(s, d) \in Seq(Messages) /\ Len(Rest(s, d)) = Len(s) - d
         /\ \A i \in 1..(Len(s) - d) : Rest(s, d)[i] = s[d + i]
         /\ Rest(s, 0) = s
         /\ Rest(s, d) = <<>> <=> d = Len(s)
         /\ IsSuffix(Rest(s, d), s)
<1>1. Len(s) \in Nat /\ d \in Nat /\ d <= Len(s)
  OBVIOUS
<1>2. /\ Rest(s, d) \in Seq(Messages) /\ Len(Rest(s, d)) = Len(s) - d
      /\ \A i \in 1..(Len(s) - d) : Rest(s, d)[i] = s[d + i]
  BY <1>1 DEF Rest
<1>3. Rest(s, 0) = s
  BY <1>1 DEF Rest
<1>4. Rest(s, d) = <<>> <=> d = Len(s)
  BY <1>1, <1>2
<1>5. IsSuffix(Rest(s, d), s)
  <2> DEFINE p == SubSeq(s, 1, d)
             t == Rest(s, d)
  <2>1. p \in Seq(Messages)
    BY <1>1
  <2>2. SubSeq(s, 1, d) \o SubSeq(s, d + 1, Len(s)) = SubSeq(s, 1, Len(s))
    <3>1. 1 \in 1..(Len(s) + 1) /\ d \in (1 - 1)..Len(s) /\ Len(s) \in d..Len(s)
      BY <1>1
    <3> QED
      BY <3>1, ConcatAdjacentSubSeq
  <2>3. p \o t = s
    BY <2>2, SubSeqFull DEF Rest
  <2> HIDE DEF p, t
  <2>4. t \in Seq(Messages)
    BY <1>2 DEF t
  <2>5. IsSuffix(t, p \o t)
    BY <2>1, <2>4, EndIsSuffix
  <2> QED
    BY <2>3, <2>5 DEF t
<1> QED
  BY <1>2, <1>3, <1>4, <1>5

LEMMA RestIsShorter ==
  ASSUME NEW s \in Seq(Messages), NEW d \in Nat, d < Len(s)
  PROVE  /\ Tail(Rest(s, d)) = Rest(s, d + 1)
         /\ Rest(s, d) = <<s[d + 1]>> \o Rest(s, d + 1)
         /\ d + 2 <= Len(s) => SubSeq(Rest(s, d), 3, Len(Rest(s, d))) = Rest(s, d + 2)
<1> DEFINE r == Rest(s, d)
           t == Rest(s, d + 1)
<1>1. Len(s) \in Nat /\ d \in 0..Len(s) /\ d + 1 \in 0..Len(s) /\ s[d + 1] \in Messages
  OBVIOUS
<1>2. /\ r \in Seq(Messages) /\ Len(r) = Len(s) - d
      /\ \A i \in 1..(Len(s) - d) : r[i] = s[d + i]
  BY <1>1, RestFacts
<1>3. /\ t \in Seq(Messages) /\ Len(t) = Len(s) - (d + 1)
      /\ \A i \in 1..(Len(s) - (d + 1)) : t[i] = s[(d + 1) + i]
  BY <1>1, RestFacts
<1> HIDE DEF r, t
<1>4. Tail(r) = t
  <2>1. d + 1 \in 1..Len(s) /\ Len(s) \in (d + 1)..Len(s)
    BY <1>1
  <2> QED
    BY <2>1, HeadTailOfSubSeq DEF r, t, Rest
<1>5. r = <<s[d + 1]>> \o t
  <2>1. d + 1 \in 1..Len(s) /\ Len(s) \in (d + 1)..Len(s)
    BY <1>1
  <2> QED
    BY <2>1, SubSeqRecursiveFirst DEF r, t, Rest
<1>6. ASSUME d + 2 <= Len(s) PROVE SubSeq(r, 3, Len(r)) = Rest(s, d + 2)
  <2> DEFINE u == Rest(s, d + 2)
             v == SubSeq(r, 3, Len(r))
  <2>1. d + 2 \in 0..Len(s)
    BY <1>1, <1>6
  <2>2. /\ u \in Seq(Messages) /\ Len(u) = Len(s) - (d + 2)
        /\ \A i \in 1..(Len(s) - (d + 2)) : u[i] = s[(d + 2) + i]
    BY <2>1, RestFacts
  <2>3. /\ v \in Seq(Messages) /\ Len(v) = Len(s) - (d + 2)
        /\ \A i \in 1..(Len(s) - (d + 2)) : v[i] = r[i + 2]
    BY <1>1, <1>2, <1>6
  <2> HIDE DEF u, v
  <2>4. ASSUME NEW i \in 1..(Len(s) - (d + 2)) PROVE u[i] = v[i]
    <3>1. i + 2 \in 1..(Len(s) - d) /\ d + (i + 2) = (d + 2) + i
      BY <1>1
    <3> QED
      BY <1>2, <2>2, <2>3, <3>1
  <2>5. u = v
    BY <2>2, <2>3, <2>4
  <2> QED
    BY <2>5 DEF u, v
<1> QED
  BY <1>4, <1>5, <1>6 DEF r, t

\* The step that left d messages dropped: with e of them dropped the list did not
\* fit, and the oldest went, with the message that answers it.
DroppedAt(s, follower, beside, e, d) ==
  /\ e \in Nat /\ e < Len(s) /\ ~Fits(Rest(s, e), beside)
  /\ \/ d = e + 2 /\ d <= Len(s) /\ s[d].role = follower
     \/ d = e + 1 /\ (e + 2 <= Len(s) => s[e + 2].role # follower)

TrimmedBy(s, follower, beside, d) ==
  /\ d \in 0..Len(s)
  /\ d > 0 => ~Fits(s, beside) /\ \E e : DroppedAt(s, follower, beside, e, d)

\* The function Trim is a value of.
TrimsTo(s, follower, beside, n, g) ==
  g = [i \in 0..n |->
         IF i = 0 THEN s
         ELSE LET before == g[i - 1] IN
              IF Fits(before, beside) THEN before ELSE DropOldestPair(before, follower)]

TrimStep(s, follower, beside, g, i) ==
  g[i] = IF i = 0 THEN s
         ELSE IF Fits(g[i - 1], beside) THEN g[i - 1]
         ELSE DropOldestPair(g[i - 1], follower)

LEMMA TrimEquation ==
  ASSUME NEW s, NEW follower, NEW beside, NEW n \in Nat, NEW g,
         g = [i \in 0..n |-> g[i]], \A i \in 0..n : TrimStep(s, follower, beside, g, i)
  PROVE  TrimsTo(s, follower, beside, n, g)
  BY DEF TrimsTo, TrimStep

LEMMA TrimExists ==
  ASSUME NEW s, NEW follower, NEW beside, NEW n \in Nat
  PROVE  \E g : TrimsTo(s, follower, beside, n, g)
<1> DEFINE L == {m \in Nat : \E g : TrimsTo(s, follower, beside, m, g)}
<1>1. 0 \in L
  <2>1. TrimsTo(s, follower, beside, 0, [i \in 0..0 |-> s])
    BY DEF TrimsTo
  <2> QED
    BY <2>1
<1>2. ASSUME NEW m \in L PROVE m + 1 \in L
  <2>1. PICK g : TrimsTo(s, follower, beside, m, g)
    OBVIOUS
  <2> DEFINE next == IF Fits(g[m], beside) THEN g[m] ELSE DropOldestPair(g[m], follower)
             h == [i \in 0..(m + 1) |-> IF i = m + 1 THEN next ELSE g[i]]
  <2>2. m \in Nat /\ m + 1 \in Nat
    OBVIOUS
  <2>3. \A i \in 0..m : h[i] = g[i] /\ TrimStep(s, follower, beside, g, i)
    <3>1. ASSUME NEW i \in 0..m PROVE h[i] = g[i]
      BY <2>2
    <3>2. ASSUME NEW i \in 0..m PROVE TrimStep(s, follower, beside, g, i)
      BY <2>1, <2>2 DEF TrimsTo, TrimStep
    <3> QED
      BY <3>1, <3>2
  <2>4. h = [i \in 0..(m + 1) |-> h[i]] /\ h[m + 1] = next
    BY <2>2
  <2> HIDE DEF h
  <2>5. ASSUME NEW i \in 0..m PROVE TrimStep(s, follower, beside, h, i)
    <3>1. CASE i = 0
      BY <2>3, <3>1 DEF TrimStep
    <3>2. CASE i # 0
      <4>1. i - 1 \in 0..m
        BY <2>2, <3>2
      <4> QED
        BY <2>3, <4>1 DEF TrimStep
    <3> QED
      BY <3>1, <3>2
  <2>6. TrimStep(s, follower, beside, h, m + 1)
    <3>1. m + 1 # 0 /\ (m + 1) - 1 = m /\ h[m] = g[m]
      BY <2>2, <2>3
    <3> QED
      BY <2>4, <3>1 DEF TrimStep
  <2>7. \A i \in 0..(m + 1) : TrimStep(s, follower, beside, h, i)
    <3>1. \A i \in 0..(m + 1) : i \in 0..m \/ i = m + 1
      BY <2>2
    <3> QED
      BY <2>5, <2>6, <3>1
  <2> QED
    BY <2>2, <2>4, <2>7, TrimEquation
<1> HIDE DEF L
<1>3. L = Nat
  <2>1. L \in SUBSET Nat
    BY DEF L
  <2> QED
    BY <1>1, <1>2, <2>1, NatSetInduction
<1> QED
  BY <1>3 DEF L

LEMMA TrimIsAStep ==
  ASSUME NEW s \in Seq(Messages), NEW follower, NEW beside
  PROVE  \E g : /\ \A i \in 0..Len(s) : TrimStep(s, follower, beside, g, i)
                /\ Trim(s, follower, beside) = g[Len(s)]
<1>1. \E g : TrimsTo(s, follower, beside, Len(s), g)
  <2>1. Len(s) \in Nat
    OBVIOUS
  <2> QED
    BY <2>1, TrimExists
<1> DEFINE k == CHOOSE g : TrimsTo(s, follower, beside, Len(s), g)
<1>2. TrimsTo(s, follower, beside, Len(s), k)
  BY <1>1
<1>3. Trim(s, follower, beside) = k[Len(s)]
  BY DEF Trim, TrimsTo
<1> HIDE DEF k
<1>4. \A i \in 0..Len(s) : TrimStep(s, follower, beside, k, i)
  BY <1>2 DEF TrimsTo, TrimStep
<1> QED
  BY <1>3, <1>4

\* One round of the loop.
LEMMA OneRound ==
  ASSUME NEW s \in Seq(Messages), NEW follower, NEW beside, NEW d,
         TrimmedBy(s, follower, beside, d), ~Fits(Rest(s, d), beside)
  PROVE  \E d2 : /\ TrimmedBy(s, follower, beside, d2) /\ d2 > d
                 /\ DropOldestPair(Rest(s, d), follower) = Rest(s, d2)
<1>1. d \in 0..Len(s) /\ Len(s) \in Nat /\ d \in Nat
  BY DEF TrimmedBy
<1>2. d < Len(s)
  <2>1. Rest(s, d) # <<>>
    BY DEF Fits
  <2> QED
    BY <1>1, <2>1, RestFacts
<1>3. ~Fits(s, beside)
  <2>1. CASE d = 0
    <3>1. Rest(s, d) = s
      BY <1>1, <2>1, RestFacts
    <3> QED
      BY <3>1
  <2>2. CASE d # 0
    BY <1>1, <2>2 DEF TrimmedBy
  <2> QED
    BY <2>1, <2>2
<1>4. /\ Len(Rest(s, d)) = Len(s) - d
      /\ d + 2 <= Len(s) => Rest(s, d)[2] = s[d + 2]
  <2>1. /\ Len(Rest(s, d)) = Len(s) - d
        /\ \A i \in 1..(Len(s) - d) : Rest(s, d)[i] = s[d + i]
    BY <1>1, RestFacts
  <2>2. d + 2 <= Len(s) => 2 \in 1..(Len(s) - d)
    BY <1>1
  <2> QED
    BY <2>1, <2>2
<1>5. CASE d + 2 <= Len(s) /\ s[d + 2].role = follower
  <2>1. Len(Rest(s, d)) > 1 /\ Rest(s, d)[2].role = follower
    BY <1>1, <1>4, <1>5
  <2>2. DropOldestPair(Rest(s, d), follower) = Rest(s, d + 2)
    <3>1. SubSeq(Rest(s, d), 3, Len(Rest(s, d))) = Rest(s, d + 2)
      BY <1>1, <1>2, <1>5, RestIsShorter, Zenon
    <3> QED
      BY <2>1, <3>1, Zenon DEF DropOldestPair
  <2>3. DroppedAt(s, follower, beside, d, d + 2)
    BY <1>1, <1>2, <1>5 DEF DroppedAt
  <2>4. d + 2 \in 0..Len(s) /\ d + 2 > d
    BY <1>1, <1>5
  <2>5. TrimmedBy(s, follower, beside, d + 2)
    BY <1>3, <2>3, <2>4 DEF TrimmedBy
  <2> QED
    BY <2>2, <2>4, <2>5
<1>6. CASE ~(d + 2 <= Len(s) /\ s[d + 2].role = follower)
  <2>1. ~(Len(Rest(s, d)) > 1 /\ Rest(s, d)[2].role = follower)
    BY <1>1, <1>4, <1>6
  <2>2. DropOldestPair(Rest(s, d), follower) = Rest(s, d + 1)
    <3>1. Tail(Rest(s, d)) = Rest(s, d + 1)
      BY <1>1, <1>2, RestIsShorter, Zenon
    <3> QED
      BY <2>1, <3>1, Zenon DEF DropOldestPair
  <2>3. DroppedAt(s, follower, beside, d, d + 1)
    BY <1>1, <1>2, <1>6 DEF DroppedAt
  <2>4. d + 1 \in 0..Len(s) /\ d + 1 > d
    BY <1>1, <1>2
  <2>5. TrimmedBy(s, follower, beside, d + 1)
    BY <1>3, <2>3, <2>4 DEF TrimmedBy
  <2> QED
    BY <2>2, <2>4, <2>5
<1> QED
  BY <1>5, <1>6

\* What trimming leaves fits, is the end of the list, and the step before it did
\* not fit: a list that fits is left as it is.
LEMMA TrimFacts ==
  ASSUME NEW s \in Seq(Messages), NEW follower, NEW beside
  PROVE  \E d : /\ TrimmedBy(s, follower, beside, d)
                /\ Trim(s, follower, beside) = Rest(s, d)
                /\ Fits(Rest(s, d), beside)
<1>1. PICK g : /\ \A i \in 0..Len(s) : TrimStep(s, follower, beside, g, i)
               /\ Trim(s, follower, beside) = g[Len(s)]
  BY TrimIsAStep
<1>2. Len(s) \in Nat
  OBVIOUS
<1> DEFINE Done(n, d) == /\ TrimmedBy(s, follower, beside, d) /\ g[n] = Rest(s, d)
                         /\ Fits(Rest(s, d), beside) \/ d >= n
           L == {n \in Nat : n <= Len(s) => \E d : Done(n, d)}
<1>3. 0 \in L
  <2>1. g[0] = s
    BY <1>1, <1>2 DEF TrimStep
  <2>2. 0 \in 0..Len(s) /\ Rest(s, 0) = s
    BY <1>2, RestFacts
  <2>3. Done(0, 0)
    BY <2>1, <2>2 DEF TrimmedBy
  <2> QED
    BY <2>3
<1>4. ASSUME NEW n \in L PROVE n + 1 \in L
  <2>1. n \in Nat /\ n + 1 \in Nat
    OBVIOUS
  <2>2. SUFFICES ASSUME n + 1 <= Len(s) PROVE \E d : Done(n + 1, d)
    BY <2>1
  <2>3. PICK d : Done(n, d)
    BY <1>2, <2>1, <2>2
  <2>4. n + 1 \in 0..Len(s) /\ n + 1 # 0 /\ (n + 1) - 1 = n /\ d \in Nat
    BY <1>2, <2>1, <2>2, <2>3 DEF TrimmedBy
  <2>5. g[n + 1] = IF Fits(g[n], beside) THEN g[n] ELSE DropOldestPair(g[n], follower)
    BY <1>1, <2>4 DEF TrimStep
  <2>6. CASE Fits(Rest(s, d), beside)
    <3>1. Done(n + 1, d)
      BY <2>3, <2>5, <2>6
    <3> QED
      BY <3>1
  <2>7. CASE ~Fits(Rest(s, d), beside)
    <3>1. PICK d2 : /\ TrimmedBy(s, follower, beside, d2) /\ d2 > d
                    /\ DropOldestPair(Rest(s, d), follower) = Rest(s, d2)
      BY <2>3, <2>7, OneRound
    <3>2. d2 \in Nat /\ d >= n
      BY <2>3, <2>7, <3>1 DEF TrimmedBy
    <3>3. d2 >= n + 1
      BY <2>1, <2>4, <3>1, <3>2
    <3>4. g[n + 1] = Rest(s, d2)
      BY <2>3, <2>5, <2>7, <3>1
    <3>5. Done(n + 1, d2)
      BY <3>1, <3>3, <3>4
    <3> QED
      BY <3>5
  <2> QED
    BY <2>6, <2>7
<1> HIDE DEF L
<1>5. L = Nat
  <2>1. L \in SUBSET Nat
    BY DEF L
  <2> QED
    BY <1>3, <1>4, <2>1, NatSetInduction
<1>6. PICK d : Done(Len(s), d)
  <2>1. Len(s) \in L /\ Len(s) <= Len(s)
    BY <1>2, <1>5
  <2> QED
    BY <2>1 DEF L
<1>7. Fits(Rest(s, d), beside)
  <2>1. CASE d >= Len(s)
    <3>1. d = Len(s) /\ d \in 0..Len(s)
      BY <1>2, <1>6, <2>1 DEF TrimmedBy
    <3>2. Rest(s, d) = <<>>
      BY <3>1, RestFacts
    <3> QED
      BY <3>2 DEF Fits
  <2> QED
    BY <1>6, <2>1
<1> QED
  BY <1>1, <1>6, <1>7

\* Where an answer follows something else, trimming leaves none in front.
LEMMA TrimKeepsPairs ==
  ASSUME NEW s \in Seq(Messages), NEW follower, NEW beside,
         \A i \in DOMAIN s : s[i].role = follower => i > 1 /\ s[i - 1].role # follower,
         NEW d, TrimmedBy(s, follower, beside, d), d < Len(s)
  PROVE  s[d + 1].role # follower
<1>1. Len(s) \in Nat /\ d \in Nat /\ DOMAIN s = 1..Len(s)
  BY DEF TrimmedBy
<1>2. SUFFICES ASSUME s[d + 1].role = follower PROVE FALSE
  OBVIOUS
<1>3. d + 1 > 1 /\ s[d].role # follower
  <2>1. d + 1 \in DOMAIN s /\ (d + 1) - 1 = d
    BY <1>1
  <2> QED
    BY <1>2, <2>1
<1>4. PICK e : DroppedAt(s, follower, beside, e, d)
  BY <1>1, <1>3 DEF TrimmedBy
<1> QED
  BY <1>1, <1>2, <1>3, <1>4 DEF DroppedAt

-----------------------------------------------------------------------------
(* What a model call carries. *)

Prompt == Message("system", SystemTokens, 0)
Asking == Message("user", question.size, question.n)
Fixed == SystemTokens + question.size

\* The memory without its oldest d messages, and the run's history without its
\* oldest c, are what Sent is built of.
Parts(d, c) ==
  /\ TrimmedBy(conversation, "assistant", Fixed + Tokens(agent.history), d)
  /\ Fits(Rest(conversation, d), Fixed + Tokens(agent.history))
  /\ TrimmedBy(agent.history, "tool", Fixed + Tokens(Rest(conversation, d)), c)
  /\ Fits(Rest(agent.history, c), Fixed + Tokens(Rest(conversation, d)))
  /\ Sent = <<Prompt>> \o Rest(conversation, d) \o <<Asking>> \o Rest(agent.history, c)

LEMMA SentHasParts ==
  ASSUME AskInv, RunInv
  PROVE  \E d, c : Parts(d, c)
<1>1. conversation \in Seq(Messages) /\ agent.history \in Seq(Messages)
  BY DEF AskInv, Typed, RunInv, HistoryShaped
<1>2. Asking.size = question.size
  BY DEF Asking, Message
<1>3. PICK d : /\ TrimmedBy(conversation, "assistant", Fixed + Tokens(agent.history), d)
               /\ Trim(conversation, "assistant", Fixed + Tokens(agent.history))
                    = Rest(conversation, d)
               /\ Fits(Rest(conversation, d), Fixed + Tokens(agent.history))
  BY <1>1, TrimFacts
<1>4. PICK c : /\ TrimmedBy(agent.history, "tool", Fixed + Tokens(Rest(conversation, d)), c)
               /\ Trim(agent.history, "tool", Fixed + Tokens(Rest(conversation, d)))
                    = Rest(agent.history, c)
               /\ Fits(Rest(agent.history, c), Fixed + Tokens(Rest(conversation, d)))
  BY <1>1, TrimFacts
<1>5. Sent = <<Prompt>> \o Rest(conversation, d) \o <<Asking>> \o Rest(agent.history, c)
  BY <1>2, <1>3, <1>4 DEF Sent, Build, Fixed, Prompt, Asking
<1> QED
  BY <1>3, <1>4, <1>5 DEF Parts

LEMMA Placed ==
  ASSUME NEW u \in Messages, NEW past \in Seq(Messages), NEW v \in Messages,
         NEW current \in Seq(Messages), NEW sent, sent = <<u>> \o past \o <<v>> \o current
  PROVE  /\ sent \in Seq(Messages) /\ Len(sent) = (Len(past) + 2) + Len(current)
         /\ sent[1] = u /\ sent[Len(past) + 2] = v
         /\ \A i \in 1..Len(past) : sent[i + 1] = past[i]
         /\ \A i \in 1..Len(current) : sent[(Len(past) + 2) + i] = current[i]
<1> DEFINE a == <<u>> \o past
           b == a \o <<v>>
<1>0. Len(past) \in Nat /\ Len(current) \in Nat
  OBVIOUS
<1>1. /\ a \in Seq(Messages) /\ Len(a) = Len(past) + 1 /\ a[1] = u
      /\ \A i \in 1..Len(past) : a[i + 1] = past[i]
  <2> DEFINE one == <<u>>
  <2>1. one \in Seq(Messages) /\ Len(one) = 1 /\ one[1] = u
    OBVIOUS
  <2> HIDE DEF one
  <2>2. /\ one \o past \in Seq(Messages) /\ Len(one \o past) = Len(one) + Len(past)
        /\ \A i \in 1..(Len(one) + Len(past)) :
             (one \o past)[i] = IF i <= Len(one) THEN one[i] ELSE past[i - Len(one)]
    BY <2>1, ConcatProperties
  <2>3. a = one \o past
    BY DEF one
  <2> HIDE DEF a
  <2>4. \A i \in 1..Len(past) : i + 1 \in 1..(1 + Len(past)) /\ ~(i + 1 <= 1) /\ (i + 1) - 1 = i
    BY <1>0
  <2> QED
    BY <1>0, <2>1, <2>2, <2>3, <2>4
<1>2. sent = b \o current
  OBVIOUS
<1> HIDE DEF a
<1>3. /\ b \in Seq(Messages) /\ Len(b) = Len(past) + 2 /\ b[Len(past) + 2] = v
      /\ \A i \in 1..(Len(past) + 1) : b[i] = a[i]
  <2>1. b = Append(a, v)
    BY <1>1
  <2>2. /\ Append(a, v) \in Seq(Messages) /\ Len(Append(a, v)) = Len(a) + 1
        /\ Append(a, v)[Len(a) + 1] = v
        /\ \A i \in 1..Len(a) : Append(a, v)[i] = a[i]
    BY <1>1
  <2>3. Len(a) + 1 = Len(past) + 2
    BY <1>0, <1>1
  <2> HIDE DEF b
  <2> QED
    BY <1>1, <2>1, <2>2, <2>3
<1> HIDE DEF b
<1>4. /\ b \o current \in Seq(Messages) /\ Len(b \o current) = Len(b) + Len(current)
      /\ \A i \in 1..(Len(b) + Len(current)) :
           (b \o current)[i] = IF i <= Len(b) THEN b[i] ELSE current[i - Len(b)]
  BY <1>3, ConcatProperties
<1>5. \A i \in 1..(Len(past) + 2) : sent[i] = b[i]
  BY <1>0, <1>2, <1>3, <1>4
<1>6. \A i \in 1..Len(current) : sent[(Len(past) + 2) + i] = current[i]
  <2>1. \A i \in 1..Len(current) :
          /\ Len(b) + i \in 1..(Len(b) + Len(current)) /\ ~(Len(b) + i <= Len(b))
          /\ (Len(b) + i) - Len(b) = i
    BY <1>0, <1>3
  <2> QED
    BY <1>2, <1>3, <1>4, <2>1
<1>7. \A i \in 1..Len(past) : sent[i + 1] = past[i]
  <2>1. \A i \in 1..Len(past) : i + 1 \in 1..(Len(past) + 2) /\ i + 1 \in 1..(Len(past) + 1)
    BY <1>0
  <2> QED
    BY <1>1, <1>3, <1>5, <2>1
<1>8. sent[1] = u /\ sent[Len(past) + 2] = v
  <2>1. 1 \in 1..(Len(past) + 2) /\ 1 \in 1..(Len(past) + 1) /\ Len(past) + 2 \in 1..(Len(past) + 2)
    BY <1>0
  <2> QED
    BY <1>1, <1>3, <1>5, <2>1
<1> QED
  BY <1>2, <1>3, <1>4, <1>6, <1>7, <1>8

LEMMA EvenOrOdd ==
  ASSUME NEW n \in Nat
  PROVE  \E k \in Nat : n = 2 * k \/ n = 2 * k + 1
<1> DEFINE S == {m \in Nat : \E k \in Nat : m = 2 * k \/ m = 2 * k + 1}
<1>1. 0 \in S
  BY 0 = 2 * 0
<1>2. ASSUME NEW m \in S PROVE m + 1 \in S
  <2>1. PICK k \in Nat : m = 2 * k \/ m = 2 * k + 1
    OBVIOUS
  <2>2. k + 1 \in Nat /\ 2 * (k + 1) = (2 * k + 1) + 1 /\ m \in Nat /\ m + 1 \in Nat
    OBVIOUS
  <2>3. CASE m = 2 * k
    BY <2>2, <2>3
  <2>4. CASE m = 2 * k + 1
    BY <2>2, <2>4
  <2> QED
    BY <2>1, <2>3, <2>4
<1> HIDE DEF S
<1>3. S = Nat
  <2>1. S \in SUBSET Nat
    BY DEF S
  <2> QED
    BY <1>1, <1>2, <2>1, NatSetInduction
<1> QED
  BY <1>3 DEF S

\* Each answer in the memory follows its question.
LEMMA MemoryIsPaired ==
  ASSUME AskInv
  PROVE  \A i \in DOMAIN conversation :
           /\ conversation[i].role \in {"user", "assistant"}
           /\ conversation[i].role = "assistant" =>
                /\ i > 1 /\ conversation[i - 1].role = "user"
                /\ conversation[i - 1].of = conversation[i].of
<1> DEFINE K == Len(Kept(answered))
<1>1. conversation \in Seq(Messages) /\ answered \in Seq(Nat) /\ MemoryIsTheLastAnswers
  BY DEF AskInv, Typed
<1>2. /\ K \in Nat /\ Len(conversation) = 2 * K /\ DOMAIN Kept(answered) = 1..K
      /\ \A k \in 1..K : RemembersOne(conversation, k, Kept(answered)[k])
  BY <1>1, MemoryNow, KeptIsNewest
<1>0. DOMAIN conversation = 1..(2 * K)
  <2> HIDE DEF K
  <2>1. DOMAIN conversation = 1..Len(conversation)
    BY <1>1
  <2> QED
    BY <1>2, <2>1
<1> HIDE DEF K
<1>3. SUFFICES ASSUME NEW i \in 1..(2 * K)
               PROVE  /\ conversation[i].role \in {"user", "assistant"}
                      /\ conversation[i].role = "assistant" =>
                           /\ i > 1 /\ conversation[i - 1].role = "user"
                           /\ conversation[i - 1].of = conversation[i].of
  BY <1>0
<1>4. PICK k \in Nat : i = 2 * k \/ i = 2 * k + 1
  <2>1. i \in Nat
    BY <1>2
  <2> QED
    BY <2>1, EvenOrOdd
<1>5. CASE i = 2 * k
  <2>1. k \in 1..K /\ i > 1
    BY <1>2, <1>5
  <2> QED
    BY <1>2, <1>5, <2>1 DEF RemembersOne
<1>6. CASE i = 2 * k + 1
  <2>1. k + 1 \in 1..K /\ 2 * (k + 1) - 1 = i
    BY <1>2, <1>6
  <2>2. conversation[i].role = "user"
    BY <1>2, <2>1 DEF RemembersOne
  <2> QED
    BY <2>2
<1> QED
  BY <1>4, <1>5, <1>6

LEMMA PartsAreTyped ==
  ASSUME AskInv, RunInv, NEW d, NEW c, Parts(d, c)
  PROVE  /\ conversation \in Seq(Messages) /\ agent.history \in Seq(Messages)
         /\ d \in 0..Len(conversation) /\ c \in 0..Len(agent.history)
         /\ Rest(conversation, d) \in Seq(Messages) /\ Rest(agent.history, c) \in Seq(Messages)
         /\ Prompt \in Messages /\ Asking \in Messages
         /\ Prompt.role = "system" /\ Prompt.size = SystemTokens /\ Prompt.of = 0
         /\ Asking.role = "user" /\ Asking.size = question.size /\ Asking.of = question.n
         /\ question.size \in Nat /\ question.n \in Nat /\ SystemTokens \in Nat
<1>1. conversation \in Seq(Messages) /\ agent.history \in Seq(Messages)
  BY DEF AskInv, Typed, RunInv, HistoryShaped
<1>2. d \in 0..Len(conversation) /\ c \in 0..Len(agent.history)
  BY DEF Parts, TrimmedBy
<1>3. Rest(conversation, d) \in Seq(Messages) /\ Rest(agent.history, c) \in Seq(Messages)
  BY <1>1, <1>2, RestFacts
<1>4. question.size \in Nat /\ question.n \in Nat /\ SystemTokens \in Nat
  BY ContextAssumption DEF AskInv, Typed, Questions
<1> QED
  BY <1>1, <1>2, <1>3, <1>4 DEF Prompt, Asking, Message, Messages, Roles

\* Whatever `ContextBuilder` drops to fit the budget, an answer it sends follows its
\* question and a tool's result the call it belongs to.
THEOREM PairsAreSentWhole == Spec => []NothingIsOrphaned
<1>1. AskInv /\ RunInv => NothingIsOrphaned
  <2> SUFFICES ASSUME AskInv, RunInv, NEW i \in DOMAIN Sent
               PROVE  /\ Sent[i].role = "tool" => Sent[i - 1].role = "call"
                      /\ Sent[i].role = "assistant" =>
                           Sent[i - 1].role = "user" /\ Sent[i - 1].of = Sent[i].of
    BY DEF NothingIsOrphaned
  <2> DEFINE conv == conversation
             h == agent.history
  <2>1. PICK d, c : Parts(d, c)
    BY SentHasParts
  <2> DEFINE past == Rest(conv, d)
             current == Rest(h, c)
             P == Len(past)
             C == Len(current)
  <2>2. /\ conv \in Seq(Messages) /\ h \in Seq(Messages) /\ d \in 0..Len(conv) /\ c \in 0..Len(h)
        /\ past \in Seq(Messages) /\ current \in Seq(Messages)
        /\ Prompt \in Messages /\ Asking \in Messages
        /\ Prompt.role = "system" /\ Asking.role = "user"
    BY <2>1, PartsAreTyped
  <2>3. /\ Sent \in Seq(Messages) /\ Len(Sent) = (P + 2) + C
        /\ Sent[1] = Prompt /\ Sent[P + 2] = Asking
        /\ \A j \in 1..P : Sent[j + 1] = past[j]
        /\ \A j \in 1..C : Sent[(P + 2) + j] = current[j]
    BY <2>1, <2>2, Placed DEF Parts
  <2>4. P = Len(conv) - d /\ \A j \in 1..P : past[j] = conv[d + j]
    <3> HIDE DEF conv
    <3>1. /\ Len(Rest(conv, d)) = Len(conv) - d
          /\ \A j \in 1..(Len(conv) - d) : Rest(conv, d)[j] = conv[d + j]
      BY <2>2, RestFacts, Zenon
    <3> QED
      BY <3>1
  <2>5. C = Len(h) - c /\ \A j \in 1..C : current[j] = h[c + j]
    <3> HIDE DEF h
    <3>1. /\ Len(Rest(h, c)) = Len(h) - c
          /\ \A j \in 1..(Len(h) - c) : Rest(h, c)[j] = h[c + j]
      BY <2>2, RestFacts, Zenon
    <3> QED
      BY <3>1
  <2>9. Len(conv) \in Nat /\ Len(h) \in Nat /\ DOMAIN conv = 1..Len(conv) /\ DOMAIN h = 1..Len(h)
    BY <2>2
  <2>6. \A j \in 1..Len(conv) :
          /\ conv[j].role \in {"user", "assistant"}
          /\ conv[j].role = "assistant" =>
               j > 1 /\ conv[j - 1].role = "user" /\ conv[j - 1].of = conv[j].of
    BY <2>9, MemoryIsPaired, Zenon
  <2>7. \A j \in 1..Len(h) :
          /\ h[j].role \in {"user", "call", "tool"}
          /\ h[j].role = "tool" => j > 1 /\ h[j - 1].role = "call"
    BY <2>9, Zenon DEF RunInv, HistoryShaped, OfARun
  <2>8. /\ TrimmedBy(conv, "assistant", Fixed + Tokens(h), d)
        /\ TrimmedBy(h, "tool", Fixed + Tokens(past), c)
    BY <2>1 DEF Parts
  <2>10. d < Len(conv) => conv[d + 1].role # "assistant"
    <3>1. \A j \in DOMAIN conv : conv[j].role = "assistant" =>
            j > 1 /\ conv[j - 1].role # "assistant"
      BY <2>6, <2>9
    <3> HIDE DEF conv, h
    <3> QED
      BY <2>2, <2>8, <3>1, TrimKeepsPairs
  <2>11. c < Len(h) => h[c + 1].role # "tool"
    <3>1. \A j \in DOMAIN h : h[j].role = "tool" => j > 1 /\ h[j - 1].role # "tool"
      BY <2>7, <2>9
    <3> HIDE DEF conv, h, past
    <3> QED
      BY <2>2, <2>8, <3>1, TrimKeepsPairs
  <2> HIDE DEF conv, h, past, current, P, C
  <2>12. P \in Nat /\ C \in Nat /\ d \in Nat /\ c \in Nat /\ i \in 1..((P + 2) + C)
    BY <2>2, <2>3, <2>4, <2>5, <2>9, SMTT(30)
  <2>13. CASE i = 1 \/ i = P + 2
    BY <2>2, <2>3, <2>13
  <2>14. ASSUME NEW j \in 1..P, i = j + 1
         PROVE  /\ Sent[i].role # "tool"
                /\ Sent[i].role = "assistant" =>
                     Sent[i - 1].role = "user" /\ Sent[i - 1].of = Sent[i].of
    <3>0. d + j \in 1..Len(conv)
      BY <2>4, <2>9, <2>12, <2>14
    <3>1. Sent[i] = conv[d + j] /\ d + j \in 1..Len(conv)
      BY <2>3, <2>4, <2>14, <3>0
    <3>2. conv[d + j].role # "tool"
      BY <2>6, <3>1
    <3>3. ASSUME conv[d + j].role = "assistant"
          PROVE  Sent[i - 1] = conv[(d + j) - 1]
      <4>1. j # 1
        <5>1. d < Len(conv)
          BY <2>9, <2>12, <3>1
        <5> QED
          BY <2>10, <3>3, <5>1
      <4>2. j - 1 \in 1..P /\ (j - 1) + 1 = i - 1 /\ d + (j - 1) = (d + j) - 1
        BY <2>12, <2>14, <4>1
      <4>3. Sent[(j - 1) + 1] = past[j - 1] /\ past[j - 1] = conv[d + (j - 1)]
        BY <2>3, <2>4, <4>2
      <4> QED
        BY <4>2, <4>3
    <3> QED
      BY <2>6, <3>1, <3>2, <3>3
  <2>15. ASSUME NEW j \in 1..C, i = (P + 2) + j
         PROVE  /\ Sent[i].role # "assistant"
                /\ Sent[i].role = "tool" => Sent[i - 1].role = "call"
    <3>0. c + j \in 1..Len(h)
      BY <2>5, <2>9, <2>12, <2>15
    <3>1. Sent[i] = h[c + j] /\ c + j \in 1..Len(h)
      BY <2>3, <2>5, <2>15, <3>0
    <3>2. h[c + j].role # "assistant"
      BY <2>7, <3>1
    <3>3. ASSUME h[c + j].role = "tool"
          PROVE  Sent[i - 1] = h[(c + j) - 1]
      <4>1. j # 1
        <5>1. c < Len(h)
          BY <2>9, <2>12, <3>1
        <5> QED
          BY <2>11, <3>3, <5>1
      <4>2. j - 1 \in 1..C /\ (P + 2) + (j - 1) = i - 1 /\ c + (j - 1) = (c + j) - 1
        BY <2>12, <2>15, <4>1
      <4>3. Sent[(P + 2) + (j - 1)] = current[j - 1] /\ current[j - 1] = h[c + (j - 1)]
        BY <2>3, <2>5, <4>2
      <4> QED
        BY <4>2, <4>3
    <3> QED
      BY <2>7, <3>1, <3>2, <3>3
  <2>16. \/ i = 1 \/ i = P + 2
         \/ \E j \in 1..P : i = j + 1
         \/ \E j \in 1..C : i = (P + 2) + j
    <3>1. CASE i > 1 /\ i < P + 2
      <4>1. i - 1 \in 1..P /\ i = (i - 1) + 1
        BY <2>12, <3>1
      <4> QED
        BY <4>1
    <3>2. CASE i > P + 2
      <4>1. i - (P + 2) \in 1..C /\ i = (P + 2) + (i - (P + 2))
        BY <2>12, <3>2
      <4> QED
        BY <4>1
    <3> QED
      BY <2>12, <3>1, <3>2
  <2> QED
    BY <2>13, <2>14, <2>15, <2>16
<1> QED
  BY <1>1, AskIsInvariant, RunsAreTold, PTL

-----------------------------------------------------------------------------
(* What the budget is spent on. *)

Sizes(s) == [i \in DOMAIN s |-> s[i].size]

LEMMA SizesFacts ==
  ASSUME NEW s \in Seq(Messages)
  PROVE  /\ Sizes(s) \in Seq(Nat) /\ Len(Sizes(s)) = Len(s)
         /\ \A i \in 1..Len(s) : Sizes(s)[i] = s[i].size
         /\ Tokens(s) = Total(Sizes(s)) /\ Cost(s) = Tokens(s)
<1>1. Len(s) \in Nat /\ DOMAIN s = 1..Len(s) /\ \A i \in 1..Len(s) : s[i].size \in Nat
  <2>1. Len(s) \in Nat /\ DOMAIN s = 1..Len(s) /\ \A i \in 1..Len(s) : s[i] \in Messages
    OBVIOUS
  <2>2. ASSUME NEW m \in Messages PROVE m.size \in Nat
    BY DEF Messages
  <2> QED
    BY <2>1, <2>2
<1>2. Sizes(s) = [i \in 1..Len(s) |-> s[i].size]
  BY <1>1 DEF Sizes
<1>3. Tokens(s) = Total(Sizes(s)) /\ Cost(s) = Tokens(s)
  BY DEF Tokens, Cost, Sizes, MessageTokens
<1> QED
  BY <1>1, <1>2, <1>3

LEMMA TokensIsNat ==
  ASSUME NEW s \in Seq(Messages)
  PROVE  Tokens(s) \in Nat
  BY SizesFacts, TotalIsNat

LEMMA TokensOfBoth ==
  ASSUME NEW s \in Seq(Messages), NEW t \in Seq(Messages)
  PROVE  Tokens(s \o t) = Tokens(s) + Tokens(t)
<1> DEFINE r == s \o t
           a == Sizes(s)
           b == Sizes(t)
<1>1. /\ r \in Seq(Messages) /\ Len(r) = Len(s) + Len(t)
      /\ \A i \in 1..Len(s) + Len(t) : r[i] = IF i <= Len(s) THEN s[i] ELSE t[i - Len(s)]
  BY ConcatProperties
<1> HIDE DEF r, a, b
<1>2. /\ a \in Seq(Nat) /\ Len(a) = Len(s) /\ \A i \in 1..Len(s) : a[i] = s[i].size
      /\ b \in Seq(Nat) /\ Len(b) = Len(t) /\ \A i \in 1..Len(t) : b[i] = t[i].size
  BY SizesFacts DEF a, b
<1>3. /\ Sizes(r) \in Seq(Nat) /\ Len(Sizes(r)) = Len(r)
      /\ \A i \in 1..Len(r) : Sizes(r)[i] = r[i].size
  BY <1>1, SizesFacts
<1>4. /\ a \o b \in Seq(Nat) /\ Len(a \o b) = Len(a) + Len(b)
      /\ \A i \in 1..Len(a) + Len(b) : (a \o b)[i] = IF i <= Len(a) THEN a[i] ELSE b[i - Len(a)]
  BY <1>2, ConcatProperties
<1>5. Len(s) \in Nat /\ Len(t) \in Nat
  OBVIOUS
<1>6. ASSUME NEW i \in 1..Len(r) PROVE Sizes(r)[i] = (a \o b)[i]
  <2>1. CASE i <= Len(s)
    <3>1. i \in 1..Len(s) /\ i \in 1..Len(s) + Len(t)
      BY <1>1, <1>5, <2>1
    <3>2. Sizes(r)[i] = s[i].size /\ (a \o b)[i] = a[i]
      BY <1>1, <1>2, <1>3, <1>4, <2>1, <3>1
    <3> QED
      BY <1>2, <3>1, <3>2
  <2>2. CASE ~(i <= Len(s))
    <3>1. i - Len(s) \in 1..Len(t) /\ i \in 1..Len(s) + Len(t)
      BY <1>1, <1>5, <2>2
    <3>2. Sizes(r)[i] = t[i - Len(s)].size /\ (a \o b)[i] = b[i - Len(s)]
      BY <1>1, <1>2, <1>3, <1>4, <2>2, <3>1
    <3> QED
      BY <1>2, <3>1, <3>2
  <2> QED
    BY <2>1, <2>2
<1>7. Sizes(r) = a \o b
  <2>1. Len(Sizes(r)) = Len(a \o b) /\ \A i \in 1..Len(Sizes(r)) : Sizes(r)[i] = (a \o b)[i]
    BY <1>1, <1>2, <1>3, <1>4, <1>6
  <2> QED
    BY <1>3, <1>4, <2>1, SeqEqual
<1>8. Tokens(r) = Total(a \o b) /\ Tokens(s) = Total(a) /\ Tokens(t) = Total(b)
  BY <1>1, <1>7, SizesFacts DEF a, b
<1> QED
  BY <1>2, <1>8, TotalOfBoth DEF r

LEMMA TokensOfFew ==
  ASSUME NEW m \in Messages
  PROVE  Tokens(<<m>>) = m.size /\ Tokens(<<>>) = 0 /\ m.size \in Nat
<1>1. m.size \in Nat
  BY DEF Messages
<1>2. Tokens(<<m>>) = m.size
  <2> DEFINE s == <<m>>
  <2>1. s \in Seq(Messages) /\ Len(s) = 1 /\ s[1] = m
    OBVIOUS
  <2> HIDE DEF s
  <2>2. /\ Sizes(s) \in Seq(Nat) /\ Len(Sizes(s)) = 1 /\ Sizes(s)[1] = m.size
        /\ Tokens(s) = Total(Sizes(s))
    BY <2>1, SizesFacts
  <2>3. Sizes(s) = <<m.size>>
    BY <1>1, <2>2
  <2> QED
    BY <1>1, <2>2, <2>3, TotalOfFew DEF s
<1>3. Tokens(<<>>) = 0
  <2> DEFINE s == <<>>
  <2>1. s \in Seq(Messages) /\ Len(s) = 0
    OBVIOUS
  <2> HIDE DEF s
  <2>2. Sizes(s) \in Seq(Nat) /\ Len(Sizes(s)) = 0 /\ Tokens(s) = Total(Sizes(s))
    BY <2>1, SizesFacts
  <2>3. Sizes(s) = <<>>
    BY <2>2
  <2>4. Tokens(s) = 0
    BY <1>1, <2>2, <2>3, TotalOfFew
  <2> QED
    BY <2>4 DEF s
<1> QED
  BY <1>1, <1>2, <1>3

LEMMA TokensOfRest ==
  ASSUME NEW s \in Seq(Messages), NEW d \in Nat, d < Len(s)
  PROVE  /\ s[d + 1].size \in Nat /\ Tokens(Rest(s, d + 1)) \in Nat
         /\ Tokens(Rest(s, d)) = s[d + 1].size + Tokens(Rest(s, d + 1))
<1> DEFINE one == <<s[d + 1]>>
           t == Rest(s, d + 1)
<1>1. s[d + 1] \in Messages /\ d + 1 \in 0..Len(s)
  OBVIOUS
<1>2. one \in Seq(Messages) /\ Tokens(one) = s[d + 1].size /\ s[d + 1].size \in Nat
  BY <1>1, TokensOfFew
<1>3. t \in Seq(Messages) /\ Rest(s, d) = one \o t
  BY <1>1, RestFacts, RestIsShorter
<1> HIDE DEF one, t
<1>4. Tokens(Rest(s, d)) = Tokens(one) + Tokens(t) /\ Tokens(t) \in Nat
  BY <1>2, <1>3, TokensOfBoth, TokensIsNat
<1> QED
  BY <1>2, <1>4 DEF t

\* What went last, with its partner if it answers one.
LastPair(whole, d) ==
  IF d > 1 /\ whole[d].role \in {"assistant", "tool"}
    THEN whole[d - 1].size + whole[d].size ELSE whole[d].size

\* What went last would not have fitted.
LEMMA LastPairDidNotFit ==
  ASSUME NEW s \in Seq(Messages), NEW follower \in {"assistant", "tool"}, NEW beside \in Nat,
         NEW e, NEW d, DroppedAt(s, follower, beside, e, d)
  PROVE  (beside + Tokens(Rest(s, d))) + LastPair(s, d) > TokenBudget
<1>1. e \in Nat /\ e < Len(s) /\ Len(s) \in Nat /\ TokenBudget \in Nat
  BY ContextAssumption DEF DroppedAt
<1>2. beside + Tokens(Rest(s, e)) > TokenBudget
  <2>1. Rest(s, e) \in Seq(Messages)
    BY <1>1, RestFacts
  <2>2. ~(beside + Tokens(Rest(s, e)) <= TokenBudget) /\ Tokens(Rest(s, e)) \in Nat
    BY <2>1, TokensIsNat DEF DroppedAt, Fits
  <2> QED
    BY <1>1, <2>2
<1>3. /\ s[e + 1].size \in Nat /\ Tokens(Rest(s, e + 1)) \in Nat
      /\ Tokens(Rest(s, e)) = s[e + 1].size + Tokens(Rest(s, e + 1))
  BY <1>1, TokensOfRest
<1>4. CASE d = e + 2 /\ d <= Len(s) /\ s[d].role = follower
  <2>1. e + 1 \in Nat /\ e + 1 < Len(s) /\ (e + 1) + 1 = d /\ d - 1 = e + 1 /\ d > 1
    BY <1>1, <1>4
  <2>2. /\ s[(e + 1) + 1].size \in Nat /\ Tokens(Rest(s, (e + 1) + 1)) \in Nat
        /\ Tokens(Rest(s, e + 1)) = s[(e + 1) + 1].size + Tokens(Rest(s, (e + 1) + 1))
    BY <2>1, TokensOfRest
  <2>3. /\ s[d].size \in Nat /\ Tokens(Rest(s, d)) \in Nat
        /\ Tokens(Rest(s, e + 1)) = s[d].size + Tokens(Rest(s, d))
    BY <2>1, <2>2
  <2>4. LastPair(s, d) = s[e + 1].size + s[d].size
    BY <1>4, <2>1 DEF LastPair
  <2>5. \A x, y, z, B \in Nat :
          beside + (x + (y + z)) > B => (beside + z) + (x + y) > B
    OBVIOUS
  <2>6. beside + (s[e + 1].size + (s[d].size + Tokens(Rest(s, d)))) > TokenBudget
    BY <1>2, <1>3, <2>3
  <2>7. (beside + Tokens(Rest(s, d))) + (s[e + 1].size + s[d].size) > TokenBudget
    BY <1>1, <1>3, <2>3, <2>5, <2>6
  <2> QED
    BY <2>4, <2>7
<1>5. CASE d = e + 1
  <2>1. LastPair(s, d) \in Nat /\ LastPair(s, d) >= s[d].size
    <3>1. CASE d > 1
      <4>1. d - 1 \in 1..Len(s)
        BY <1>1, <1>5, <3>1
      <4>2. s[d - 1].size \in Nat
        <5>1. s[d - 1] \in Messages
          BY <4>1
        <5> QED
          BY <5>1 DEF Messages
      <4>3. LastPair(s, d) = s[d - 1].size + s[d].size \/ LastPair(s, d) = s[d].size
        BY DEF LastPair
      <4>4. s[d].size \in Nat
        BY <1>3, <1>5
      <4> QED
        BY <4>2, <4>3, <4>4
    <3>2. CASE ~(d > 1)
      BY <1>3, <1>5, <3>2 DEF LastPair
    <3> QED
      BY <3>1, <3>2
  <2> QED
    BY <1>1, <1>2, <1>3, <1>5, <2>1
<1> QED
  BY <1>4, <1>5 DEF DroppedAt

LEMMA SentCosts ==
  ASSUME AskInv, RunInv, NEW d, NEW c, Parts(d, c)
  PROVE  /\ Fixed \in Nat /\ TokenBudget \in Nat
         /\ Tokens(Rest(conversation, d)) \in Nat /\ Tokens(Rest(agent.history, c)) \in Nat
         /\ Tokens(agent.history) \in Nat
         /\ Cost(Sent) = (Fixed + Tokens(Rest(conversation, d))) + Tokens(Rest(agent.history, c))
<1> DEFINE past == Rest(conversation, d)
           current == Rest(agent.history, c)
           a == <<Prompt>>
           b == <<Asking>>
<1>1. /\ past \in Seq(Messages) /\ current \in Seq(Messages) /\ agent.history \in Seq(Messages)
      /\ a \in Seq(Messages) /\ b \in Seq(Messages)
      /\ Tokens(a) = SystemTokens /\ Tokens(b) = question.size
      /\ SystemTokens \in Nat /\ question.size \in Nat
  <2>1. /\ past \in Seq(Messages) /\ current \in Seq(Messages) /\ agent.history \in Seq(Messages)
        /\ Prompt \in Messages /\ Asking \in Messages
    BY PartsAreTyped
  <2>2. a \in Seq(Messages) /\ b \in Seq(Messages)
    BY <2>1
  <2>3. /\ Tokens(a) = Prompt.size /\ Prompt.size \in Nat
        /\ Tokens(b) = Asking.size /\ Asking.size \in Nat
    <3> HIDE DEF a, b
    <3> QED
      BY <2>1, TokensOfFew DEF a, b
  <2>4. Prompt.size = SystemTokens /\ Asking.size = question.size
    BY PartsAreTyped
  <2> QED
    BY <2>1, <2>2, <2>3, <2>4
<1>2. Sent = a \o past \o b \o current
  BY DEF Parts
<1> HIDE DEF past, current, a, b
<1>3. a \o past \in Seq(Messages) /\ Tokens(a \o past) = Tokens(a) + Tokens(past)
  BY <1>1, TokensOfBoth, ConcatProperties
<1>4. /\ a \o past \o b \in Seq(Messages)
      /\ Tokens(a \o past \o b) = Tokens(a \o past) + Tokens(b)
  BY <1>1, <1>3, TokensOfBoth, ConcatProperties
<1>5. /\ Sent \in Seq(Messages) /\ Tokens(Sent) = Tokens(a \o past \o b) + Tokens(current)
  BY <1>1, <1>2, <1>4, TokensOfBoth, ConcatProperties
<1>6. Cost(Sent) = Tokens(Sent) /\ Tokens(past) \in Nat /\ Tokens(current) \in Nat
        /\ Tokens(agent.history) \in Nat
  BY <1>1, <1>5, SizesFacts, TokensIsNat
<1>7. Fixed = SystemTokens + question.size /\ Fixed \in Nat /\ TokenBudget \in Nat
  BY <1>1, ContextAssumption DEF Fixed
<1>8. Cost(Sent) = ((Tokens(a) + Tokens(past)) + Tokens(b)) + Tokens(current)
  BY <1>3, <1>4, <1>5, <1>6
<1>9. \A x, y, p, q \in Nat : ((x + p) + y) + q = ((x + y) + p) + q
  OBVIOUS
<1>10. Cost(Sent) = (Fixed + Tokens(past)) + Tokens(current)
  BY <1>1, <1>6, <1>7, <1>8, <1>9, SMTT(30)
<1> QED
  BY <1>6, <1>7, <1>10 DEF past, current

\* TrimmingIsFrugal of the parts of what is sent.
Frugal(past, current) ==
  /\ IsSuffix(past, conversation) /\ IsSuffix(current, agent.history)
  /\ Cost(Sent) > TokenBudget => past = <<>> /\ current = <<>>
  /\ Len(agent.history) - Len(current) > 0 =>
       /\ past = <<>>
       /\ Cost(Sent) + LastPair(agent.history, Len(agent.history) - Len(current)) > TokenBudget
  /\ Len(agent.history) - Len(current) = 0 /\ Len(conversation) - Len(past) > 0 =>
       Cost(Sent) + LastPair(conversation, Len(conversation) - Len(past)) > TokenBudget

\* This run's messages go only when no past turn is left.
LEMMA PastGoesFirst ==
  ASSUME AskInv, RunInv, NEW d, NEW c, Parts(d, c), c > 0
  PROVE  Rest(conversation, d) = <<>>
<1> DEFINE past == Rest(conversation, d)
           h == agent.history
<1>1. /\ Fixed \in Nat /\ TokenBudget \in Nat /\ Tokens(past) \in Nat /\ Tokens(h) \in Nat
  BY SentCosts
<1>2. ~Fits(h, Fixed + Tokens(past)) /\ Fits(past, Fixed + Tokens(h))
  BY DEF Parts, TrimmedBy
<1> HIDE DEF past, h
<1>3. ~((Fixed + Tokens(past)) + Tokens(h) <= TokenBudget)
  BY <1>2 DEF Fits
<1>4. ~((Fixed + Tokens(h)) + Tokens(past) <= TokenBudget)
  BY <1>1, <1>3
<1> QED
  BY <1>2, <1>4 DEF Fits, past

LEMMA PartsAreFrugal ==
  ASSUME AskInv, RunInv, NEW d, NEW c, Parts(d, c)
  PROVE  Frugal(Rest(conversation, d), Rest(agent.history, c))
<1> DEFINE conv == conversation
           h == agent.history
           past == Rest(conv, d)
           current == Rest(h, c)
<1>1. /\ conv \in Seq(Messages) /\ h \in Seq(Messages) /\ d \in 0..Len(conv) /\ c \in 0..Len(h)
  BY PartsAreTyped
<1>2. /\ IsSuffix(past, conv) /\ Len(past) = Len(conv) - d
      /\ IsSuffix(current, h) /\ Len(current) = Len(h) - c
      /\ c = 0 => current = h
  <2> HIDE DEF conv, h
  <2> QED
    BY <1>1, RestFacts
<1>3. /\ Fixed \in Nat /\ TokenBudget \in Nat /\ Tokens(past) \in Nat /\ Tokens(current) \in Nat
      /\ Tokens(h) \in Nat /\ Cost(Sent) = (Fixed + Tokens(past)) + Tokens(current)
  BY SentCosts
<1>4. c > 0 => past = <<>>
  BY PastGoesFirst
<1>5. /\ TrimmedBy(conv, "assistant", Fixed + Tokens(h), d) /\ Fits(past, Fixed + Tokens(h))
      /\ TrimmedBy(h, "tool", Fixed + Tokens(past), c) /\ Fits(current, Fixed + Tokens(past))
  BY DEF Parts
<1> HIDE DEF conv, h, past, current
<1>6. Len(h) \in Nat /\ Len(conv) \in Nat /\ c \in Nat /\ d \in Nat
  BY <1>1
<1>7. Len(h) - Len(current) = c /\ Len(conv) - Len(past) = d
  BY <1>2, <1>6
<1>8. ASSUME Cost(Sent) > TokenBudget PROVE past = <<>> /\ current = <<>>
  <2>1. current = <<>>
    BY <1>3, <1>5, <1>8 DEF Fits
  <2>2. CASE c = 0
    <3>1. ~((Fixed + Tokens(h)) + Tokens(past) <= TokenBudget)
      BY <1>2, <1>3, <1>8, <2>2
    <3> QED
      BY <1>5, <2>1, <3>1 DEF Fits
  <2>3. CASE c > 0
    BY <1>4, <2>1, <2>3
  <2> QED
    BY <1>6, <2>2, <2>3
<1>9. ASSUME c > 0 PROVE Cost(Sent) + LastPair(h, c) > TokenBudget
  <2>1. PICK e : DroppedAt(h, "tool", Fixed + Tokens(past), e, c)
    BY <1>5, <1>9 DEF TrimmedBy
  <2>2. Fixed + Tokens(past) \in Nat
    BY <1>3
  <2>3. ((Fixed + Tokens(past)) + Tokens(Rest(h, c))) + LastPair(h, c) > TokenBudget
    BY <1>1, <2>1, <2>2, LastPairDidNotFit
  <2> QED
    BY <1>3, <2>3 DEF current
<1>10. ASSUME c = 0, d > 0 PROVE Cost(Sent) + LastPair(conv, d) > TokenBudget
  <2>1. PICK e : DroppedAt(conv, "assistant", Fixed + Tokens(h), e, d)
    BY <1>5, <1>10 DEF TrimmedBy
  <2>2. Fixed + Tokens(h) \in Nat
    BY <1>3
  <2>3. ((Fixed + Tokens(h)) + Tokens(Rest(conv, d))) + LastPair(conv, d) > TokenBudget
    BY <1>1, <2>1, <2>2, LastPairDidNotFit
  <2>4. Cost(Sent) = (Fixed + Tokens(h)) + Tokens(past)
    BY <1>2, <1>3, <1>10
  <2> QED
    BY <2>3, <2>4 DEF past
<1> QED
  BY <1>2, <1>4, <1>7, <1>8, <1>9, <1>10 DEF Frugal, conv, h, past, current

\* The question stands where it does not matter what the rest is about.
QuestionAt(sent) ==
  CHOOSE i \in DOMAIN sent :
    /\ sent[i].of = question.n
    /\ sent[i].role = "user"
    /\ \A j \in i+1..Len(sent) : sent[j].of # question.n

LEMMA FrugalByParts ==
  TrimmingIsFrugal <=>
    (pc = "post" => Frugal(SubSeq(Sent, 2, QuestionAt(Sent) - 1),
                           SubSeq(Sent, QuestionAt(Sent) + 1, Len(Sent))))
  BY DEF TrimmingIsFrugal, Frugal, QuestionAt, LastPair

LEMMA QuestionIsFound ==
  ASSUME AskInv, RunInv, pc = "post", NEW d, NEW c, Parts(d, c)
  PROVE  /\ QuestionAt(Sent) = Len(Rest(conversation, d)) + 2
         /\ SubSeq(Sent, 2, QuestionAt(Sent) - 1) = Rest(conversation, d)
         /\ SubSeq(Sent, QuestionAt(Sent) + 1, Len(Sent)) = Rest(agent.history, c)
<1> DEFINE past == Rest(conversation, d)
           current == Rest(agent.history, c)
           P == Len(past)
           C == Len(current)
           n == question.n
<1>1. /\ past \in Seq(Messages) /\ current \in Seq(Messages)
      /\ Prompt \in Messages /\ Asking \in Messages /\ Asking.role = "user" /\ Asking.of = n
      /\ agent.history \in Seq(Messages) /\ c \in 0..Len(agent.history)
  BY PartsAreTyped
<1>2. /\ Sent \in Seq(Messages) /\ Len(Sent) = (P + 2) + C
      /\ Sent[P + 2] = Asking
      /\ \A j \in 1..P : Sent[j + 1] = past[j]
      /\ \A j \in 1..C : Sent[(P + 2) + j] = current[j]
  BY <1>1, Placed DEF Parts
<1>3. \A j \in 1..C : current[j].of # n
  <2>1. \A i \in DOMAIN agent.history : agent.history[i].of = 0
    BY DEF RunInv, HistoryShaped, OfARun
  <2>2. n > 0 /\ n \in Nat
    BY PartsAreTyped DEF RunInv, QuestionShaped
  <2>3. /\ C = Len(agent.history) - c
        /\ \A j \in 1..(Len(agent.history) - c) : current[j] = agent.history[c + j]
    BY <1>1, RestFacts
  <2>4. \A j \in 1..C : c + j \in DOMAIN agent.history
    BY <1>1, <2>3
  <2> QED
    BY <2>1, <2>2, <2>3, <2>4
<1>4. P \in Nat /\ C \in Nat
  BY <1>1
<1> HIDE DEF past, current, P, C, n
<1>5. \A j \in (P + 2) + 1..Len(Sent) : Sent[j].of # n
  <2> SUFFICES ASSUME NEW j \in (P + 2) + 1..Len(Sent) PROVE Sent[j].of # n
    OBVIOUS
  <2>1. j - (P + 2) \in 1..C /\ (P + 2) + (j - (P + 2)) = j
    BY <1>2, <1>4
  <2> QED
    BY <1>2, <1>3, <2>1
<1>6. P + 2 \in DOMAIN Sent /\ DOMAIN Sent = 1..((P + 2) + C)
  BY <1>2, <1>4
<1>7. ASSUME NEW i \in DOMAIN Sent, Sent[i].of = n, \A j \in i+1..Len(Sent) : Sent[j].of # n
      PROVE  i = P + 2
  <2>1. CASE i < P + 2
    <3>1. P + 2 \in i+1..Len(Sent)
      BY <1>2, <1>4, <1>6, <2>1
    <3> QED
      BY <1>1, <1>2, <1>7, <3>1
  <2>2. CASE i > P + 2
    <3>1. i \in (P + 2) + 1..Len(Sent)
      BY <1>2, <1>4, <1>6, <2>2
    <3> QED
      BY <1>5, <1>7, <3>1
  <2> QED
    BY <1>4, <1>6, <2>1, <2>2
<1>8. QuestionAt(Sent) = P + 2
  <2>1. /\ Sent[P + 2].of = question.n /\ Sent[P + 2].role = "user"
        /\ \A j \in (P + 2) + 1..Len(Sent) : Sent[j].of # question.n
    BY <1>1, <1>2, <1>5 DEF n
  <2>2. \A i \in DOMAIN Sent :
          (/\ Sent[i].of = question.n /\ Sent[i].role = "user"
           /\ \A j \in i+1..Len(Sent) : Sent[j].of # question.n) => i = P + 2
    BY <1>7 DEF n
  <2> QED
    BY <1>6, <2>1, <2>2 DEF QuestionAt
<1>9. SubSeq(Sent, 2, (P + 2) - 1) = past
  <2> DEFINE t == SubSeq(Sent, 2, (P + 2) - 1)
  <2>1. t \in Seq(Messages) /\ Len(t) = P /\ \A i \in 1..P : t[i] = Sent[i + 1]
    BY <1>2, <1>4
  <2> HIDE DEF t
  <2>2. Len(t) = Len(past) /\ \A i \in 1..Len(t) : t[i] = past[i]
    BY <1>2, <2>1 DEF P
  <2>3. t = past
    BY <1>1, <2>1, <2>2, SeqEqual DEF past
  <2> QED
    BY <2>3 DEF t
<1>10. SubSeq(Sent, (P + 2) + 1, Len(Sent)) = current
  <2> DEFINE t == SubSeq(Sent, (P + 2) + 1, Len(Sent))
  <2>1. t \in Seq(Messages) /\ Len(t) = C /\ \A i \in 1..C : t[i] = Sent[(P + 2) + i]
    BY <1>2, <1>4
  <2> HIDE DEF t
  <2>2. Len(t) = Len(current) /\ \A i \in 1..Len(t) : t[i] = current[i]
    BY <1>2, <2>1 DEF C
  <2>3. t = current
    BY <1>1, <2>1, <2>2, SeqEqual DEF current
  <2> QED
    BY <2>3 DEF t
<1> QED
  BY <1>8, <1>9, <1>10 DEF past, current, P

\* `ContextBuilder` drops no more than it must: what it sends fits the budget unless
\* nothing but the prompt and the question is left, past turns go before this run's
\* calls, and what was dropped last would not have fitted.
THEOREM TrimmingLosesLittle == Spec => []TrimmingIsFrugal
<1>1. AskInv /\ RunInv => TrimmingIsFrugal
  <2> SUFFICES ASSUME AskInv, RunInv, pc = "post"
               PROVE  Frugal(SubSeq(Sent, 2, QuestionAt(Sent) - 1),
                             SubSeq(Sent, QuestionAt(Sent) + 1, Len(Sent)))
    BY FrugalByParts
  <2>1. PICK d, c : Parts(d, c)
    BY SentHasParts
  <2>2. Frugal(Rest(conversation, d), Rest(agent.history, c))
    BY <2>1, PartsAreFrugal
  <2> QED
    BY <2>1, <2>2, QuestionIsFound
<1> QED
  BY <1>1, AskIsInvariant, RunsAreTold, PTL

\* A prompt, the question with every reply it may carry, one call and its result fit
\* the budget together.
RoomForATurn ==
  \A c \in Calls, shown \in Shown :
    (SystemTokens + (1 + MaxReplies)) + (CallSize(c) + shown) <= TokenBudget

\* Where one turn fits beside the prompt and the question, the result of the call just
\* made is in front of the model when it goes on.
THEOREM ResultsAreSeen == ASSUME RoomForATurn PROVE Spec => []LastResultIsSeen
<1>1. AskInv /\ RunInv => LastResultIsSeen
  <2> SUFFICES ASSUME AskInv, RunInv, pc = "post", agent.history # <<>>
               PROVE  Last(Sent) = Last(agent.history)
    BY DEF LastResultIsSeen
  <2> DEFINE h == agent.history
  <2>1. PICK d, c : Parts(d, c)
    BY SentHasParts
  <2> DEFINE past == Rest(conversation, d)
             current == Rest(h, c)
             P == Len(past)
             C == Len(current)
  <2>2. /\ past \in Seq(Messages) /\ current \in Seq(Messages)
        /\ Prompt \in Messages /\ Asking \in Messages
        /\ h \in Seq(Messages) /\ c \in 0..Len(h) /\ SystemTokens \in Nat
    BY <2>1, PartsAreTyped
  <2>3. Fixed \in Nat /\ Fixed <= SystemTokens + (1 + MaxReplies) /\ MaxReplies \in Nat
    <3>1. question.replies \in Nat /\ question.replies <= MaxReplies
            /\ question.size = 1 + question.replies
      BY DEF RunInv, QuestionShaped, Questions
    <3> QED
      BY <2>2, <3>1, AskAssumption DEF Fixed
  <2>4. \A i \in 1..Len(h) :
          /\ OfARun(h[i]) /\ h[i] \in Messages
          /\ h[i].role = "tool" => i > 1 /\ h[i - 1].role = "call"
    <3>1. DOMAIN h = 1..Len(h) /\ \A i \in 1..Len(h) : h[i] \in Messages
      BY <2>2
    <3>2. \A i \in DOMAIN h :
            /\ OfARun(h[i])
            /\ h[i].role = "tool" => i > 1 /\ h[i - 1].role = "call"
      BY DEF RunInv, HistoryShaped
    <3> HIDE DEF h
    <3> QED
      BY <3>1, <3>2, Zenon
  <2>5. Len(h) \in Nat \ {0} /\ c \in Nat /\ c <= Len(h)
    BY <2>2
  <2>6. "get_schema" \in Calls /\ 1 \in Shown /\ TokenBudget \in Nat
    BY ContextAssumption DEF Calls, Shown
  <2>7. ASSUME NEW i \in 1..Len(h) PROVE Fixed + h[i].size <= TokenBudget /\ h[i].size \in Nat
    <3>1. h[i].size \in Nat
      BY <2>4 DEF Messages
    <3>2. \E a \in Calls, shown \in Shown : h[i].size = CallSize(a) \/ h[i].size = shown
      BY <2>4, <2>6 DEF OfARun
    <3>3. PICK a \in Calls, shown \in Shown : h[i].size = CallSize(a) \/ h[i].size = shown
      BY <3>2
    <3>4. CallSize(a) \in Nat /\ shown \in Nat
      BY CallSizeIsNat, ShownIsNat
    <3>5. (SystemTokens + (1 + MaxReplies)) + (CallSize(a) + shown) <= TokenBudget
      BY DEF RoomForATurn
    <3> HIDE DEF h
    <3>6. CASE h[i].size = CallSize(a)
      BY <2>2, <2>3, <2>6, <3>1, <3>4, <3>5, <3>6
    <3>7. CASE h[i].size = shown
      BY <2>2, <2>3, <2>6, <3>1, <3>4, <3>5, <3>7
    <3> QED
      BY <3>3, <3>6, <3>7
  <2>8. c < Len(h)
    <3> SUFFICES ASSUME c = Len(h) PROVE FALSE
      BY <2>5
    <3>1. past = <<>> /\ Tokens(past) = 0
      <4>1. c > 0
        BY <2>5
      <4>2. Rest(conversation, d) = <<>>
        BY <2>1, <4>1, PastGoesFirst
      <4>3. Tokens(<<>>) = 0
        BY <2>2, TokensOfFew
      <4> QED
        BY <4>2, <4>3
    <3>2. PICK e : DroppedAt(h, "tool", Fixed + Tokens(past), e, c)
      BY <2>1, <2>5 DEF Parts, TrimmedBy
    <3>3. /\ e \in Nat /\ e < Len(h) /\ ~Fits(Rest(h, e), Fixed)
          /\ \/ c = e + 2 /\ h[c].role = "tool"
             \/ c = e + 1
      BY <2>3, <3>1, <3>2 DEF DroppedAt
    <3> HIDE DEF h, past
    <3>4. Fixed + Tokens(Rest(h, e)) > TokenBudget
      <4>1. Rest(h, e) \in Seq(Messages)
        BY <2>2, <3>3, RestFacts
      <4>2. ~(Fixed + Tokens(Rest(h, e)) <= TokenBudget) /\ Tokens(Rest(h, e)) \in Nat
        BY <3>3, <4>1, TokensIsNat DEF Fits
      <4> QED
        BY <2>3, <2>6, <4>2
    <3>5. Tokens(Rest(h, c)) = 0
      <4>1. Rest(h, c) = <<>>
        BY <2>2, RestFacts
      <4> QED
        BY <2>2, <4>1, TokensOfFew
    <3>6. /\ h[e + 1].size \in Nat
          /\ Tokens(Rest(h, e)) = h[e + 1].size + Tokens(Rest(h, e + 1))
      BY <2>2, <3>3, TokensOfRest
    <3>7. CASE c = e + 1
      <4>1. e + 1 \in 1..Len(h)
        BY <2>5, <3>3
      <4> QED
        BY <2>3, <2>6, <2>7, <3>4, <3>5, <3>6, <3>7, <4>1
    <3>8. CASE c = e + 2 /\ h[c].role = "tool"
      <4>1. e + 1 \in Nat /\ e + 1 < Len(h) /\ (e + 1) + 1 = c /\ c - 1 = e + 1 /\ c \in 1..Len(h)
        BY <2>5, <3>3, <3>8
      <4>2. Tokens(Rest(h, e + 1)) = h[(e + 1) + 1].size + Tokens(Rest(h, (e + 1) + 1))
        BY <2>2, <4>1, TokensOfRest
      <4>3. Tokens(Rest(h, e)) = h[e + 1].size + h[c].size
        BY <2>7, <3>5, <3>6, <4>1, <4>2
      <4>4. h[c].size \in Shown /\ h[e + 1].role = "call"
        BY <2>4, <3>8, <4>1 DEF OfARun
      <4>5. PICK a \in Calls : h[e + 1].size = CallSize(a)
        <5>1. e + 1 \in 1..Len(h)
          BY <2>5, <3>3, <4>1
        <5> QED
          BY <2>4, <4>4, <5>1 DEF OfARun
      <4>6. (SystemTokens + (1 + MaxReplies)) + (h[e + 1].size + h[c].size) <= TokenBudget
        BY <4>4, <4>5 DEF RoomForATurn
      <4>7. h[c].size \in Nat
        BY <2>7, <4>1
      <4> QED
        BY <2>2, <2>3, <2>6, <3>4, <3>6, <4>3, <4>6, <4>7
    <3> QED
      BY <3>3, <3>7, <3>8
  <2>9. /\ Len(Sent) = (P + 2) + C /\ \A j \in 1..C : Sent[(P + 2) + j] = current[j]
    BY <2>1, <2>2, Placed DEF Parts
  <2>10. C = Len(h) - c /\ \A j \in 1..(Len(h) - c) : current[j] = h[c + j]
    <3> HIDE DEF h
    <3> QED
      BY <2>2, RestFacts
  <2>11. C \in 1..C /\ c + C = Len(h)
    BY <2>5, <2>8, <2>10
  <2> HIDE DEF past, current, P, C
  <2>12. Sent[Len(Sent)] = h[Len(h)]
    BY <2>9, <2>10, <2>11
  <2> QED
    BY <2>12 DEF Last
<1> QED
  BY <1>1, AskIsInvariant, RunsAreTold, PTL
=============================================================================
