\* A terminal flow and two agents racing to run what one person confirmed,
\* beside another person's page and agent.
CONSTANTS
  alice = alice
  bob = bob
  agent1 = agent1
  agent2 = agent2
  other = other
  sales = sales
  ops = ops
  Subjects = {alice, bob}
  Workspaces = {sales}
  WorkspaceOf <- AllSales
  SubjectOf <- RacersAreAlices
  RuleKeys = {variant}
  Values = {paid}
  Docs = {}
  Flows = {flow}
  Confirmers = {}
  Pages = {page}
  Agents = {agent1, agent2, other}
  Checkers = {}
  Probing = FALSE
  Guessing = FALSE
  MaxDrafts = 1
  MaxVersion = 1
  MaxConfs = 1
  MaxAdvisories = 0
  MaxCrashes = 1
  MaxDocChanges = 0
SPECIFICATION Spec
INVARIANTS
  OneQueryPerKey
  PeopleKeepToTheirDrafts
SYMMETRY RacerSymmetry
