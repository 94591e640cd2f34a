\* A cited section is edited in place and imported again.
CONSTANTS
  sales = sales
  ops = ops
  handbook = handbook
  glossary = glossary
  users = users
  refunds = refunds
  registered = registered
  ordered = ordered
  excluded = excluded
  tested = tested
  Docs = {handbook, glossary}
  Contents <- EditionsInPlace
  Sources <- Directories
  Questions <- AskedOnce
  Embedding = FALSE
  BatchSize = 1
  Limit = 2
  MaxEdits = 1
  MaxImports = 2
  MaxSearches = 1
  MaxRevocations = 0
SPECIFICATION Spec
CHECK_DEADLOCK FALSE
INVARIANT
  EditedCitationsLapse
