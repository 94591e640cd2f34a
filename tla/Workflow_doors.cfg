\* One person's page beside one agent, over one draft with a citation.
CONSTANTS
  alice = alice
  bob = bob
  sales = sales
  ops = ops
  Subjects = {alice}
  Workspaces = {sales}
  WorkspaceOf <- AllSales
  SubjectOf <- AllAlice
  RuleKeys = {variant}
  Values = {paid}
  Docs = {doc1}
  Flows = {}
  Confirmers = {}
  Pages = {page}
  Agents = {agent}
  Checkers = {page, agent}
  Probing = TRUE
  Guessing = FALSE
  MaxDrafts = 1
  MaxVersion = 2
  MaxConfs = 2
  MaxAdvisories = 1
  MaxCrashes = 1
  MaxDocChanges = 1
SPECIFICATION Spec
INVARIANTS
  TypeOK
  RunsOnlyWhatAPersonConfirmed
  NothingProceedsOnWithdrawnEvidence
  PendingAgreesWithProgress
PROPERTIES
  AmendmentsBuildOnEachOther
  ImplementsGate
