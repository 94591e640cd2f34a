\* The flow and the agent run the same confirmation.
CONSTANTS
  alice = alice
  bob = bob
  sales = sales
  ops = ops
  Subjects = {alice}
  Workspaces = {sales}
  WorkspaceOf <- AllSales
  SubjectOf <- AllAlice
  RuleKeys = {variant}
  Values = {paid}
  Docs = {}
  Flows = {flow}
  Confirmers = {}
  Pages = {}
  Agents = {agent}
  Checkers = {}
  Probing = FALSE
  Guessing = FALSE
  MaxDrafts = 1
  MaxVersion = 1
  MaxConfs = 1
  MaxAdvisories = 0
  MaxCrashes = 0
  MaxDocChanges = 0
SPECIFICATION Spec
INVARIANT
  OneRunPerConfirmation
