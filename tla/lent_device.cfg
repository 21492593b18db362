\* A job that ends closes a device that is lent to a client.
SPECIFICATION Spec
CONSTANTS
  MaxJobs = 2
  MaxEntries = 2
  Threads = {t1}
  StaticThread = TRUE
  Clients = {c1}
  MaxActive = 1
  MaxCompleted = 1
  MaxPreserved = 0
  MaxDocs = 1
  MultiDocument = FALSE
  KeepOpen = FALSE
  SpawnMayFail = FALSE
  Infrastructure = FALSE
  OpenMayFail = FALSE
  t1 = t1
  c1 = c1
  Requests = {"print-file", "open-device", "close-device"}
  HoldOptions <- NoHold
CHECK_DEADLOCK FALSE
INVARIANTS
  DeviceStaysOpen
