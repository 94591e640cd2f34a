------------------------------ MODULE Context -------------------------------
(***************************************************************************)
(* ContextBuilder: the message list of one model call, trimmed to a budget *)
(* of estimated tokens.  A message is its role, its estimated cost and the *)
(* question it belongs to (0 for none); an assistant message that carries  *)
(* a tool call has the role "call".                                        *)
(***************************************************************************)
EXTENDS Sift, SequencesExt

CONSTANTS TokenBudget,   \* the estimated tokens one list may cost
          SystemTokens   \* what the prompt with the schema and metrics costs

ASSUME ContextAssumption == TokenBudget \in Nat /\ SystemTokens \in Nat

Roles == {"system", "user", "assistant", "call", "tool"}

ContentTokens(m) == IF m.role = "call" THEN 1 ELSE m.size

\* The cost counts the call a message carries, not its text alone.
MessageTokens(m) == m.size

Tokens(messages) == Total([i \in DOMAIN messages |-> MessageTokens(messages[i])])

DropOldest(messages, follower) == Tail(messages)

\* The oldest message goes, with the message that answers it.
DropOldestPair(messages, follower) ==
  IF Len(messages) > 1 /\ messages[2].role = follower
    THEN SubSeq(messages, 3, Len(messages))
    ELSE Tail(messages)

Fits(messages, beside) ==
  messages = <<>> \/ beside + Tokens(messages) <= TokenBudget

\* What is left of messages when what stands beside them costs beside: after
\* as many rounds as there are messages the loop has ended.
Trim(messages, follower, beside) ==
  LET left[n \in 0..Len(messages)] ==
        IF n = 0 THEN messages
        ELSE LET before == left[n - 1] IN
             IF Fits(before, beside) THEN before ELSE DropOldestPair(before, follower)
  IN left[Len(messages)]

Message(role, size, of) == [role |-> role, size |-> size, of |-> of]

\* [system, past turns, question, this run's calls]: past turns go first.
Build(asking, history, conversation) ==
  LET fixed == SystemTokens + asking.size
      past == Trim(conversation, "assistant", fixed + Tokens(history))
      current == Trim(history, "tool", fixed + Tokens(past))
  IN <<Message("system", SystemTokens, 0)>> \o past \o <<asking>> \o current
=============================================================================
