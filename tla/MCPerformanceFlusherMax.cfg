\* The claim of performance.c about the max it leaves behind.
SPECIFICATION Spec
CONSTANTS
  Threads = {t1}
  Worker = w
  NoThread = none
  Names = {n1}
  Durations = {1, 3}
  MaxTransactions = 1
  MaxFailures = 2
  MaxRecords = 3
  MaxTime = 1
  Statuses = {0, 204, 403}
INVARIANTS
  MaxNeverOverstates
