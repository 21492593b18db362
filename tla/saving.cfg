\* What was printed reaches the file, when saving works.
SPECIFICATION FairRestartSpec
CONSTANTS
  MaxJobs = 1
  MaxEntries = 2
  Threads = {t1}
  StaticThread = FALSE
  Clients = {c1}
  MaxActive = 1
  MaxCompleted = 1
  MaxPreserved = 0
  MaxDocs = 1
  MultiDocument = FALSE
  KeepOpen = TRUE
  SpawnMayFail = FALSE
  Infrastructure = FALSE
  OpenMayFail = FALSE
  MaxRestarts = 1
  MultiQueue = TRUE
  SaveMayFail = TRUE
  t1 = t1
  c1 = c1
  Requests = {"print-job", "cancel-job", "shutdown", "hold-new"}
  HoldOptions <- NoHold
CHECK_DEADLOCK FALSE
PROPERTIES
  EndsAreSaved
