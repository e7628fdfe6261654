\* Liveness: one application thread beside the worker, no symmetry.
SPECIFICATION FairSpec
CONSTANTS
  Threads = {t1}
  Worker = w
  NoThread = none
  MaxEntries = 2
  MaxFailures = 3
  MaxRecords = 3
  Statuses = {0, 204, 403}
PROPERTIES
  EveryCaptureSettles
