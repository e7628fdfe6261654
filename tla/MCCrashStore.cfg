\* Two threads and three runs: captures, passes and fatal signals at once;
\* crashes, kills, exits, restarts, time and age, three reports and a cap of two.
SPECIFICATION Spec
CONSTANTS
  Threads = {t1, t2}
  NoThread = none
  Signals = {11}
  MaxPending = 2
  MaxAge = 0
  FirstDir = "nothing"
  MaxReports = 3
  MaxTime = 2
  MaxRuns = 3
  Statuses = {0, 204, 403}
SYMMETRY Symmetry
CONSTRAINTS
  UpToReuseOrTear
  ThirdAtExit
INVARIANTS
  StoredReportsSurvive
  AnsweredReportsGo
  ExitUploadsEverything
  ExitWaitsForOneFailure
