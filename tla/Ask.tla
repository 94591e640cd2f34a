-------------------------------- MODULE Ask ---------------------------------
(***************************************************************************)
(* One process of `queryagent ask` or `queryagent chat`: the agent's loop  *)
(* over model calls and tool calls, the retries of one model call, the     *)
(* session's memory, the trace on disk and the exit code.  A run is a      *)
(* generator: its consumer writes each event to the trace before the loop  *)
(* goes on.  Thinking and usage events carry no decision and are left out. *)
(***************************************************************************)
EXTENDS Context, Failures, FiniteSets

CONSTANTS
  Queries,             \* the statements the model may propose
  MaxTurns,            \* run_agent's max_turns
  MaxRetries,          \* run_agent's max_retries
  HttpRetries,         \* the backend's max_retries
  MaxRememberedTurns,  \* the session's memory
  Keep,                \* traces kept in the directory
  Results,             \* what a statement may return: the widths of its rows
  MaxCell, MaxChars,   \* what of them the model is shown
  MaxQuestions, MaxReplies   \* bounds

ASSUME AskAssumption ==
  /\ \A r \in Results : r \in Seq(Nat)
  /\ MaxCell \in Nat /\ MaxChars \in Nat
  /\ MaxTurns \in Nat \ {0} /\ MaxRetries \in Nat /\ HttpRetries \in Nat
  /\ MaxRememberedTurns \in Nat \ {0} /\ Keep \in Nat \ {0}
  /\ MaxQuestions \in Nat /\ MaxReplies \in Nat

\* The calls a model proposes: a statement, the schema, or one that the
\* registry does not know or whose arguments it refuses.
Calls == {q.name : q \in Queries} \cup {"get_schema", "malformed"}
None == "none"
Statement(c) == CHOOSE q \in Queries : q.name = c
CallSize(c) == IF c \in {"get_schema", "malformed"} THEN 1 ELSE Statement(c).size

Terminal == {"Answer", "Clarify", "MaxTurns", "RepeatedAction",
             "SafetyViolation", "RetryLimit", "LLMParseError"}
Errors == Terminal \ {"Answer", "Clarify"}
Event(type, call) == [type |-> type, call |-> call]
Events == [type : Terminal \cup {"ToolCall", "Observation", "Retry"},
           call : Calls \cup {None}]
Torn == [type |-> "torn", call |-> None]
Lines == Events \cup {Torn}

VARIABLES
  mode,          \* "ask" or "chat"
  pc,            \* what the process waits for
  question,      \* the question: its number, its cost, the replies it carries
  conversation,  \* the session's memory, as the messages it sends
  answered,      \* the numbers of this session's answered questions
  agent,         \* run_agent's locals
  http,          \* the model call under way and its attempts
  run,           \* the events of the current run
  trace,         \* the lines of this question's trace
  files,         \* the questions whose traces are on disk, oldest first
  exit           \* the exit code of the last process

vars == <<mode, pc, question, conversation, answered, agent, http,
          run, trace, files, exit>>

Fresh == [history |-> <<>>, last |-> None, unusable |-> 0, failed |-> 0,
          turn |-> 1, dispatched |-> <<>>, calls |-> 0]
NoCall == [attempt |-> 0, plain |-> FALSE, failure |-> None]
Killed == 137   \* what the shell sees of a killed process

Init ==
  /\ mode \in {"ask", "chat"} /\ pc = "prompt"
  /\ question = [n |-> 0, size |-> 1, replies |-> 0]
  /\ conversation = <<>> /\ answered = <<>>
  /\ agent = Fresh /\ http = NoCall
  /\ run = <<>> /\ trace = <<>> /\ exit = OK
  /\ files \in {<<>>, <<0>>}   \* 0 is an earlier command's question

(***************************************************************************)
(* The trace.                                                              *)
(***************************************************************************)
Newest(s, n) == SubSeq(s, Len(s) - n + 1, Len(s))

\* One slot is left free for the trace about to be written.
Prune(fs) == IF Len(fs) > Keep - 1 THEN Newest(fs, Keep - 1) ELSE fs

WrittenAtTheEnd(lines, events) ==
  IF \E i \in DOMAIN events : events[i].type \in Terminal THEN lines \o events ELSE lines

\* Each event is written and flushed before the loop sees its next line.
Written(lines, events) == lines \o events

Emit(events) ==
  /\ run' = run \o events
  /\ trace' = Written(trace, events)
  /\ files' = IF Contains(files, question.n) THEN files ELSE Append(files, question.n)

\* What a replay shows: the lines that parse.
Readable(lines) == Sifted(lines, Events)

(***************************************************************************)
(* The end of a run, as its consumer takes it.                             *)
(***************************************************************************)
ExitAfter(type) == IF type \in Errors THEN UserError ELSE OK

RememberedByMessage(size) ==
  LET all == conversation \o <<Message("user", question.size, question.n),
                               Message("assistant", size, question.n)>>
      most == 2 * MaxRememberedTurns - 1
  IN IF Len(all) > most THEN Newest(all, most) ELSE all

\* An answered question joins the memory with the replies it carried.
Remembered(size) ==
  LET all == conversation \o <<Message("user", question.size, question.n),
                               Message("assistant", size, question.n)>>
      most == 2 * MaxRememberedTurns
  IN IF Len(all) > most THEN Newest(all, most) ELSE all

Stop(events, size) ==
  LET type == Last(events).type IN
  /\ Emit(events)
  /\ IF mode = "ask"
       THEN /\ pc' = "over" /\ exit' = ExitAfter(type)
            /\ UNCHANGED <<conversation, answered>>
       ELSE /\ pc' = IF type = "Clarify" THEN "clarify" ELSE "prompt"
            /\ UNCHANGED exit
            /\ IF type = "Answer"
                 THEN /\ conversation' = Remembered(size)
                      /\ answered' = Append(answered, question.n)
                 ELSE UNCHANGED <<conversation, answered>>
  /\ UNCHANGED <<mode, question>>

\* An exception ends the command; a session reports it and goes on.
Raise(failure) ==
  /\ IF mode = "ask" THEN pc' = "over" /\ exit' = ExitCode(failure)
                     ELSE pc' = "prompt" /\ UNCHANGED exit
  /\ UNCHANGED <<mode, question, conversation, answered, run, trace, files>>

(***************************************************************************)
(* Model calls.                                                            *)
(***************************************************************************)
\* What the call under way carries.
Sent == Build(Message("user", question.size, question.n), agent.history, conversation)

\* The model is called for what the agent has by then; plainly, without tools,
\* as the last resort.
Call(a, plain) ==
  /\ pc' = "post"
  /\ agent' = [a EXCEPT !.calls = @ + 1]
  /\ http' = [NoCall EXCEPT !.plain = plain]

\* A turn of the loop that is not the last is followed by another call.
NextTurn(a, events) ==
  IF a.turn < MaxTurns
    THEN /\ Emit(events)
         /\ Call([a EXCEPT !.turn = @ + 1], FALSE)
         /\ UNCHANGED <<mode, question, conversation, answered, exit>>
    ELSE /\ Stop(events \o <<Event("MaxTurns", None)>>, 0)
         /\ agent' = a /\ UNCHANGED http

\* The question is read, old traces are pruned and the first run starts.
AskQuestion ==
  /\ pc = "prompt" /\ question.n < MaxQuestions
  /\ LET q == [n |-> question.n + 1, size |-> 1, replies |-> 0] IN
     /\ question' = q
     /\ Call(Fresh, FALSE)
  /\ files' = Prune(files)
  /\ run' = <<>> /\ trace' = <<>>
  /\ UNCHANGED <<mode, conversation, answered, exit>>

Again == http.attempt < HttpRetries

\* The request fails: what is temporary is tried again, the rest raises.
PostFails(f) ==
  /\ pc = "post"
  /\ IF IsTransient(f) /\ Again
       THEN /\ http' = [http EXCEPT !.attempt = @ + 1]
            /\ UNCHANGED <<mode, pc, question, conversation, answered,
                           agent, run, trace, files, exit>>
       ELSE /\ http' = [http EXCEPT !.attempt = @ + 1, !.failure = f]
            /\ UNCHANGED agent
            /\ IF http.plain
                 THEN Stop(<<Event("LLMParseError", None)>>, 0)
                 ELSE Raise(f)

Notice == Message("user", 1, 0)

\* Nothing usable came back: the model is told once, then asked plainly.
Unusable ==
  /\ pc = "post"
  /\ LET a == [agent EXCEPT !.unusable = @ + 1]
         retry == Event("Retry", None)
     IN IF http.plain
          THEN /\ Stop(<<Event("LLMParseError", None)>>, 0)
               /\ UNCHANGED <<agent, http>>
          ELSE IF a.unusable <= 1
          THEN NextTurn([a EXCEPT !.history = Append(@, Notice)], <<retry>>)
          ELSE /\ Emit(<<retry>>)
               /\ Call(a, TRUE)
               /\ UNCHANGED <<mode, question, conversation, answered, exit>>

AnswerText ==
  /\ pc = "post"
  /\ Stop(<<Event("Answer", None)>>, 1)
  /\ UNCHANGED <<agent, http>>

\* Only the first call of a reply counts; asking the user needs no tool.
Clarify ==
  /\ pc = "post" /\ ~http.plain
  /\ Stop(<<Event("Clarify", None)>>, 0)
  /\ UNCHANGED <<agent, http>>

RepeatsAStatement(c) == agent.last = c /\ c # "malformed"

Repeats(c) == agent.last = c

Propose(c) ==
  /\ pc = "post" /\ ~http.plain
  /\ IF Repeats(c)
       THEN /\ Stop(<<Event("RepeatedAction", c)>>, 0)
            /\ UNCHANGED <<agent, http>>
       ELSE /\ Emit(<<Event("ToolCall", c)>>)
            /\ agent' = [agent EXCEPT !.last = c]
            /\ pc' = "tool"
            /\ UNCHANGED <<mode, question, conversation, answered, http, exit>>

(***************************************************************************)
(* Tool calls.                                                             *)
(***************************************************************************)
Allowed == {"SELECT", "WITH"}
Forbidden == {"INSERT", "UPDATE", "DELETE", "DROP", "INTO", "SET", "CALL"}

StartsAsSelect(q) == q.statements = 1 /\ q.first \in Allowed /\ q.type = "SELECT"

\* One statement, read by how it begins, by its type (a WITH may introduce a
\* DELETE) and by every keyword in it (FOR UPDATE locks, INTO writes a file).
EnsureSafeSelect(q) ==
  /\ q.statements = 1
  /\ q.first \in Allowed
  /\ q.type = "SELECT"
  /\ q.keywords \cap Forbidden = {}

\* A statement has one name, and one that does more than read shows it: more
\* than one statement, a type other than SELECT or a keyword that is forbidden.
ASSUME StatementAssumption ==
  /\ \A q, r \in Queries : q.name = r.name => q = r
  /\ \A q \in Queries :
       /\ q.name \notin {"get_schema", "malformed"} /\ q.size \in Nat
       /\ \/ q.effect = "read" \/ q.statements # 1 \/ q.type # "SELECT"
          \/ q.keywords \cap Forbidden # {}

\* A statement that no timeout ends.
OutcomesWithoutTimeout(c) ==
  IF c = "malformed" THEN {"error"}
  ELSE IF c = "get_schema" THEN {"ok", "error", "connector"}
  ELSE IF ~EnsureSafeSelect(Statement(c)) THEN {"unsafe"}
  ELSE {}

\* What the registry and the handler may make of a call: an unknown name or
\* bad arguments never reach a handler, an unsafe statement no database.
Outcomes(c) ==
  IF c = "malformed" THEN {"error"}
  ELSE IF c = "get_schema" THEN {"ok", "error", "connector"}
  ELSE IF ~EnsureSafeSelect(Statement(c)) THEN {"unsafe"}
  ELSE {"ok", "error", "connector", "defect"}

FormatWhole(rows) == 3 + Total(rows)

\* What the model is shown of a result costs: a header of two lines, a footer and
\* the rows from the first one on, cells cut, while they fit; the first always
\* does.
FormatQueryResult(rows) ==
  LET cut == [i \in DOMAIN rows |-> IF rows[i] > MaxCell THEN MaxCell + 1 ELSE rows[i]]
      First(n) == SubSeq(cut, 1, n)
      Fit(n) == cut[n] <= MaxChars - 2 - Total(First(n - 1)) - (n - 1)
      shown == {n \in DOMAIN rows : \A i \in 2..n : Fit(i)}
  IN 3 + (IF shown = {} THEN 0 ELSE Total(First(Max(shown))))

GivesUp(failed) == failed > MaxRetries

ObserveWithoutReturn(c, isError, size) ==
  LET failed == IF isError THEN agent.failed + 1 ELSE agent.failed
      a == [agent EXCEPT !.failed = failed, !.dispatched = Append(@, c)]
      events == <<Event("Observation", c)>>
                  \o (IF isError /\ failed > MaxRetries
                        THEN <<Event("RetryLimit", None)>> ELSE <<>>)
  IN NextTurn([a EXCEPT !.history =
                 @ \o <<Message("call", CallSize(c), 0), Message("tool", size, 0)>>], events)

Observe(c, isError, size) ==
  LET failed == IF isError THEN agent.failed + 1 ELSE agent.failed
      a == [agent EXCEPT !.failed = failed, !.dispatched = Append(@, c)]
      events == <<Event("Observation", c)>>
                  \o (IF isError THEN <<Event("Retry", None)>> ELSE <<>>)
  IN IF isError /\ GivesUp(failed)
       THEN /\ Stop(Append(events, Event("RetryLimit", None)), 0)
            /\ agent' = a /\ UNCHANGED http
       ELSE NextTurn([a EXCEPT !.history =
                        @ \o <<Message("call", CallSize(c), 0), Message("tool", size, 0)>>], events)

Dispatch ==
  /\ pc = "tool"
  /\ LET c == agent.last IN
     \/ /\ "ok" \in Outcomes(c)
        /\ IF c = "get_schema" THEN Observe(c, FALSE, 1)
           ELSE \E rows \in Results : Observe(c, FALSE, FormatQueryResult(rows))
     \/ "error" \in Outcomes(c) /\ Observe(c, TRUE, 1)
     \/ /\ "unsafe" \in Outcomes(c)
        /\ Stop(<<Event("SafetyViolation", c)>>, 0)
        /\ UNCHANGED <<agent, http>>
     \/ \E f \in Outcomes(c) \cap Raised :
          /\ Raise(f)
          /\ agent' = [agent EXCEPT !.dispatched = Append(@, c)]
          /\ UNCHANGED http

(***************************************************************************)
(* The person, and the end of a process.                                   *)
(***************************************************************************)
\* The reply joins the question; an empty one, or the end of input, drops it.
Reply ==
  /\ pc = "clarify"
  /\ \/ /\ question.replies < MaxReplies
        /\ LET q == [question EXCEPT !.size = @ + 1, !.replies = @ + 1] IN
           /\ question' = q
           /\ Call(Fresh, FALSE)
        /\ run' = <<>>
        /\ UNCHANGED <<mode, conversation, answered, trace, files, exit>>
     \/ /\ pc' = "prompt"
        /\ UNCHANGED <<mode, question, conversation, answered, agent,
                       http, run, trace, files, exit>>

Leave ==
  /\ pc = "prompt" /\ mode = "chat"
  /\ pc' = "over" /\ exit' = OK
  /\ UNCHANGED <<mode, question, conversation, answered, agent, http,
                 run, trace, files>>

\* Ctrl-C ends a session too; a kill may leave half a line in the trace.
Die ==
  /\ pc # "over"
  /\ \/ exit' = Interrupted /\ UNCHANGED trace
     \/ /\ exit' = Killed
        /\ trace' = IF pc \in {"post", "tool"} /\ trace # <<>>
                      THEN Append(trace, Torn) ELSE trace
  /\ pc' = "over"
  /\ UNCHANGED <<mode, question, conversation, answered, agent, http,
                 run, files>>

Work ==
  \/ \E f \in HttpFailures : PostFails(f)
  \/ Unusable \/ AnswerText \/ Clarify
  \/ \E c \in Calls : Propose(c)
  \/ Dispatch

Next == AskQuestion \/ Work \/ Reply \/ Leave \/ Die

\* A request and a statement have timeouts, so the process always gets on;
\* nothing makes a person type.
Spec == Init /\ [][Next]_vars /\ WF_vars(Work)

(***************************************************************************)
(* Properties.                                                             *)
(***************************************************************************)
Messages == [role : Roles, size : Nat, of : Nat]

TypeOK ==
  /\ mode \in {"ask", "chat"}
  /\ pc \in {"prompt", "post", "tool", "clarify", "over"}
  /\ question \in [n : 0..MaxQuestions, size : Nat \ {0}, replies : 0..MaxReplies]
  /\ conversation \in Seq(Messages) /\ answered \in Seq(1..MaxQuestions)
  /\ agent \in [history : Seq(Messages), last : Calls \cup {None}, unusable : 0..2,
                failed : 0..(MaxRetries + 1), turn : 1..MaxTurns,
                dispatched : Seq(Calls), calls : 0..(MaxTurns + 1)]
  /\ http \in [attempt : 0..(HttpRetries + 1), plain : BOOLEAN,
               failure : HttpFailures \cup {None}]
  /\ run \in Seq(Events) /\ trace \in Seq(Lines)
  /\ files \in Seq(0..MaxQuestions)
  /\ exit \in {OK, UserError, Defect, Temporary, Interrupted, Killed}

Cost(messages) == Total([i \in DOMAIN messages |-> messages[i].size])

\* What a model call carries is never cut inside a pair: an answer follows its
\* question and a tool's result its call (a provider refuses the latter alone),
\* whatever was dropped to fit the budget.
NothingIsOrphaned ==
  pc = "post" => \A i \in DOMAIN Sent :
    LET m == Sent[i] IN
    /\ m.role = "tool" => Sent[i - 1].role = "call"
    /\ m.role = "assistant" => Sent[i - 1].role = "user" /\ Sent[i - 1].of = m.of

\* Trimming drops no more than it must and old turns first: the list fits the
\* budget unless all but the prompt and the question is gone, this run's calls
\* lose nothing while a past turn is left, and the pair dropped last would not
\* have fitted.
TrimmingIsFrugal ==
  pc = "post" =>
    LET sent == Sent
        q == CHOOSE i \in DOMAIN sent :
               /\ sent[i].of = question.n
               /\ sent[i].role = "user"
               /\ \A j \in i+1..Len(sent) : sent[j].of # question.n
        past == SubSeq(sent, 2, q - 1)
        current == SubSeq(sent, q + 1, Len(sent))
        Dropped(whole, kept) == Len(whole) - Len(kept)
        PairBefore(whole, kept) ==
          LET d == Dropped(whole, kept) IN
          IF d > 1 /\ whole[d].role \in {"assistant", "tool"}
            THEN whole[d - 1].size + whole[d].size ELSE whole[d].size
    IN /\ IsSuffix(past, conversation) /\ IsSuffix(current, agent.history)
       /\ Cost(sent) > TokenBudget => past = <<>> /\ current = <<>>
       /\ Dropped(agent.history, current) > 0 =>
            /\ past = <<>>
            /\ Cost(sent) + PairBefore(agent.history, current) > TokenBudget
       /\ Dropped(agent.history, current) = 0 /\ Dropped(conversation, past) > 0 =>
            Cost(sent) + PairBefore(conversation, past) > TokenBudget

\* Whatever the model answers, a run calls it at most once more than it has
\* turns, posts each call at most HttpRetries + 1 times, sends no call twice in
\* a row, gives up at the failure after MaxRetries, and sends nothing that does
\* more than read.
RunIsBounded ==
  /\ agent.calls <= MaxTurns + 1
  /\ http.attempt <= HttpRetries + 1
  /\ Len(agent.dispatched) <= MaxTurns
  /\ \A i \in 2..Len(agent.dispatched) : agent.dispatched[i - 1] # agent.dispatched[i]
  /\ agent.failed <= MaxRetries + 1
  /\ agent.failed > MaxRetries => pc \notin {"post", "tool"}
  /\ \A i \in DOMAIN agent.dispatched :
       \A q \in Queries : q.name = agent.dispatched[i] => q.effect = "read"

\* The result of the call just made is in front of the model when it goes on:
\* a long result is cut while it is shown, so that the budget, which drops whole
\* messages, does not take the very rows that were asked for.
LastResultIsSeen ==
  pc = "post" /\ agent.history # <<>> => Last(Sent) = Last(agent.history)

\* A run has at most one terminal event and nothing after it, and the consumer
\* that stops because of a run's end has seen one.
OneTerminalEvent ==
  /\ \A i \in DOMAIN run : run[i].type \in Terminal => i = Len(run)
  /\ pc = "clarify" => run # <<>> /\ Last(run).type = "Clarify"
  /\ pc \in {"post", "tool"} => run = <<>> \/ Last(run).type \notin Terminal

\* The memory is the last MaxRememberedTurns answered questions in order, each
\* with its answer, and a question that failed or was dropped is not in it.
MemoryIsTheLastAnswers ==
  LET kept == IF Len(answered) > MaxRememberedTurns
                THEN Newest(answered, MaxRememberedTurns) ELSE answered
  IN /\ Len(conversation) = 2 * Len(kept)
     /\ \A i \in DOMAIN kept :
          /\ conversation[2 * i - 1].role = "user" /\ conversation[2 * i].role = "assistant"
          /\ conversation[2 * i - 1].of = kept[i] /\ conversation[2 * i].of = kept[i]

\* Whenever the process dies, the trace names every statement that was sent,
\* and what can be read of it is a beginning of what happened: it ends with the
\* events of the current run.  Pruning never takes the trace being written, and
\* leaves no more files than are to be kept.
TraceNamesEveryCall ==
  /\ IsSuffix(run, Readable(trace)) /\ Len(files) <= Keep
  /\ trace # <<>> => Contains(files, question.n)
  /\ \A i \in DOMAIN agent.dispatched :
       \E j \in DOMAIN trace : trace[j] = Event("ToolCall", agent.dispatched[i])

\* Every question that was asked ends: with an answer, an error, a question
\* back, or the command's end.
EveryQuestionEnds == pc \in {"post", "tool"} ~> pc \in {"prompt", "clarify", "over"}
=============================================================================
