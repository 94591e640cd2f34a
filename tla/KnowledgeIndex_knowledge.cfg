\* Two imports of a handbook and a shared glossary that are edited, beside one
\* question; endpoint, imports and access may fail anywhere.
CONSTANTS
  sales = sales
  ops = ops
  handbook = handbook
  glossary = glossary
  users = users
  refunds = refunds
  registered = registered
  ordered = ordered
  excluded = excluded
  tested = tested
  Docs = {handbook, glossary}
  Contents <- Editions
  Sources <- Directories
  Questions <- Asked
  Embedding = TRUE
  BatchSize = 1
  Limit = 1
  MaxEdits = 1
  MaxImports = 2
  MaxSearches = 1
  MaxRevocations = 1
SPECIFICATION Spec
CHECK_DEADLOCK FALSE
INVARIANTS
  ScopeHolds
  CitationsSurviveImports
  VectorsDescribeTheirText
  FinishedImportsAreSearchable
