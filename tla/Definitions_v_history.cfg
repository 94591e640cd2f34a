\* One person, three drafts of one metric.
CONSTANTS
  Subjects = {ana}
  Dialect = "sqlite"
  Dims <- SomeDims
  Tables <- SomeTables
  Metrics <- SomeMetrics
  Menu <- SomeMenu
  Quotes <- SomeQuotes
  Values <- SomeValues
  Questions <- ThreeQuestions
  Starts <- SomeStarts
  Amendments <- SomeAmendments
  Mappings <- SomeMappings
  WorkDays <- NewYear
  MaxAge = 1
  MaxAmendments = 1
  MaxChanges = 1
SPECIFICATION Spec
INVARIANT RecalledReadingsLapseWithTheirDocument
CHECK_DEADLOCK FALSE
