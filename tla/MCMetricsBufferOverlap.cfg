\* The claim of metrics.h about what a flush removes, against two flushers.
SPECIFICATION Spec
CONSTANTS
  Threads = {t1}
  Worker = w
  NoThread = none
  MaxEntries = 2
  MaxFailures = 2
  MaxRecords = 2
  Statuses = {0, 204, 403}
PROPERTIES
  RemovesExactlyItsBatch
