\* Two questions of one process, with a memory of one turn, a budget that a
\* long turn overruns and room for two traces.
CONSTANTS
  Queries <- SomeQueries
  Results <- SomeResults
  MaxCell = 2
  MaxChars = 4
  MaxTurns = 3
  MaxRetries = 1
  HttpRetries = 1
  MaxRememberedTurns = 1
  Keep = 2
  MaxQuestions = 2
  MaxReplies = 1
  TokenBudget = 9
  SystemTokens = 1
SPECIFICATION Spec
INVARIANTS
  NothingIsOrphaned
  TrimmingIsFrugal
  LastResultIsSeen
  RunIsBounded
  OneTerminalEvent
  MemoryIsTheLastAnswers
  TraceNamesEveryCall
PROPERTIES
  EveryQuestionEnds
CHECK_DEADLOCK FALSE
