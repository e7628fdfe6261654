CONSTANTS
  Threads = {"main", "other"}
  Environments <- MCEnvironments
  Changes <- MCChanges
  ContextKeys = {"page", "plan", "password"}
  AllowedFields = {"plan"}
  UserKeys = {"id", "email"}
  Programs <- MCPrograms
  MaxRuns = 2
SPECIFICATION Spec
INVARIANTS
  StrictTextNeverLeaves
  WarnsOnceWhenDue
  ExitLeavesNothingBehind
