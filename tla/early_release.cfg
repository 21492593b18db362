\* Any check of the queue releases a job held until a time.
SPECIFICATION Spec
CONSTANTS
  MaxJobs = 2
  MaxEntries = 2
  Threads = {t1}
  StaticThread = TRUE
  Clients = {c1}
  MaxActive = 0
  MaxCompleted = 1
  MaxPreserved = 0
  MaxDocs = 1
  MultiDocument = FALSE
  KeepOpen = FALSE
  SpawnMayFail = FALSE
  Infrastructure = FALSE
  OpenMayFail = FALSE
  t1 = t1
  c1 = c1
  Requests = {"print-file"}
  HoldOptions <- BothHolds
CHECK_DEADLOCK FALSE
PROPERTIES
  NoEarlyRelease
