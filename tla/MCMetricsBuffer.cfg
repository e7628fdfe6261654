\* Two application threads and the worker; every outcome class of a delivery
\* (204 delivered, 403 rejected, 0 and 429 failed for now).
SPECIFICATION Spec
CONSTANTS
  Threads = {t1, t2}
  Worker = w
  NoThread = none
  MaxEntries = 3
  MaxFailures = 2
  MaxRecords = 4
  Statuses = {0, 204, 403, 429}
SYMMETRY Symmetry
CONSTRAINT UpToOverlap
INVARIANTS
  TypeOK
  BatchStaysInFront
  BufferedUntilSettled
  RetriesBounded
  ExitOffersEveryCapture
PROPERTIES
  GivesUpOnlyWhenEarned
