\* One thread beside the worker, two names for one slot, every outcome class.
SPECIFICATION FairSpec
CONSTANTS
  Threads = {t1}
  Worker = w
  NoThread = none
  Names = {n1, n2}
  Durations = {1, 3}
  MaxTransactions = 1
  MaxFailures = 2
  MaxRecords = 3
  MaxTime = 1
  Statuses = {0, 204, 403}
INVARIANTS
  TalliesMatchRecords
  MaxNeverUnderstates
  PeriodsPartitionRecords
PROPERTIES
  EveryTallySettles
