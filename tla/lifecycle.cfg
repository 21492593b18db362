\* Deletion, shutdown and cancellation of a job that is printed or
\* waits for the device.
SPECIFICATION FairSpec
CONSTANTS
  MaxJobs = 1
  MaxEntries = 2
  Threads = {t1, t2}
  StaticThread = FALSE
  Clients = {c1}
  MaxActive = 1
  MaxCompleted = 1
  MaxPreserved = 0
  MaxDocs = 1
  MultiDocument = FALSE
  KeepOpen = FALSE
  SpawnMayFail = FALSE
  Infrastructure = FALSE
  OpenMayFail = TRUE
  t1 = t1
  t2 = t2
  c1 = c1
  Requests = {"print-file", "cancel-job", "delete-printer",
              "shutdown", "resume", "open-device", "close-device"}
  HoldOptions <- NoHold
CHECK_DEADLOCK FALSE
PROPERTIES
  CancelTakesEffect
  ShutdownDrains
  DeletionHappens
