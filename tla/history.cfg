\* Canceling and cleaning, when threads may not start.
SPECIFICATION Spec
CONSTANTS
  MaxJobs = 2
  MaxEntries = 2
  Threads = {t1, t2}
  StaticThread = FALSE
  Clients = {c1}
  MaxActive = 0
  MaxCompleted = 1
  MaxPreserved = 1
  MaxDocs = 1
  MultiDocument = FALSE
  KeepOpen = TRUE
  SpawnMayFail = TRUE
  Infrastructure = FALSE
  OpenMayFail = FALSE
  t1 = t1
  t2 = t2
  c1 = c1
  Requests = {"print-file", "web-cancel", "cancel-jobs", "clean-jobs"}
  HoldOptions <- NoHold
SYMMETRY ThreadSymmetry
CHECK_DEADLOCK FALSE
INVARIANTS
  ListsAgree
PROPERTIES
  HistoryTrimmed
