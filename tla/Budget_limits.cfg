\* A run and an ask of one person for one slot, past a midnight, in units of ten
\* seconds: of connecting and waiting up to one each, of the lease's margin none.
CONSTANTS
  alice = alice
  Subjects = {alice}
  Runners = {run}
  Askers = {ask}
  SubjectOf <- AllAlice
  MaxQueriesPerRequest = 2
  MaxQueriesPerDay = 4
  MaxSecondsPerDay = 1
  MaxConcurrent = 1
  Timeout = 1
  Connecting = 1
  Waiting = 1
  Margin = 0
  DayLength = 6
  MaxTime = 7
  MaxCrashes = 1
SPECIFICATION Spec
INVARIANTS
  TypeOK
  LedgerNeverUndercounts
  DailyLimitHolds
  SecondsOvershootBounded
  LeasesAreSlots
  LeasesAreOutlivedBriefly
