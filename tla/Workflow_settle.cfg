\* A flow, a confirming terminal and an agent that may pass any version:
\* with nobody killed, every claimed run settles.
CONSTANTS
  alice = alice
  bob = bob
  sales = sales
  ops = ops
  Subjects = {alice}
  Workspaces = {sales}
  WorkspaceOf <- AllSales
  SubjectOf <- AllAlice
  RuleKeys = {variant}
  Values = {paid}
  Docs = {}
  Flows = {flow}
  Confirmers = {term}
  Pages = {}
  Agents = {agent}
  Checkers = {}
  Probing = FALSE
  Guessing = TRUE
  MaxDrafts = 1
  MaxVersion = 2
  MaxConfs = 1
  MaxAdvisories = 0
  MaxCrashes = 0
  MaxDocChanges = 0
SPECIFICATION FairSpec
PROPERTY
  ClaimedRunsSettle
