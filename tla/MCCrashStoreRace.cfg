\* The file names of two threads, and of two runs.
SPECIFICATION Spec
CONSTANTS
  Threads = {t1, t2}
  NoThread = none
  Signals = {}
  MaxPending = 2
  MaxAge = 2
  FirstDir = "directory"
  MaxReports = 2
  MaxTime = 2
  MaxRuns = 2
  Statuses = {0, 204, 403}
INVARIANTS
  WritesNeverCollide
