\* Two people, two drafts one after the other, one amendment in all.
CONSTANTS
  Subjects = {ana, bo}
  Dialect = "sqlite"
  Dims <- SomeDims
  Tables <- SomeTables
  Metrics <- SomeMetrics
  Menu <- SomeMenu
  Quotes <- SomeQuotes
  Values <- SomeValues
  Questions <- SomeQuestions
  Starts <- SomeStarts
  Amendments <- SomeAmendments
  Mappings <- SomeMappings
  WorkDays <- SomeDays
  MaxAge = 1
  MaxAmendments = 1
  MaxChanges = 1
SYMMETRY Anyone
SPECIFICATION Spec
INVARIANTS
  QuestionsAreReadInFull
  AnswersCountTheConfirmedRows
  DocumentsOnlyExplain
  RememberedChoicesOnlyFillGaps
  CoverageIsNotOverstated
CHECK_DEADLOCK FALSE
