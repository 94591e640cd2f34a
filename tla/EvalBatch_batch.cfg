\* Two workers, a guard of two, two processes of two signatures.
CONSTANTS
  Suite <- SomeSuite
  Case <- SomeCases
  Runs <- SomeRuns
  Models = {"m1"}
  Concurrency = 2
  Limit = 2
  MaxProcesses = 2
SPECIFICATION Spec
INVARIANTS
  EveryCaseIsReportedOnce
  PaidResultsSurvive
  AResumeContinuesItsRun
  OutagesStopTheBatch
PROPERTIES
  EveryBatchEnds
CHECK_DEADLOCK FALSE
