\* Printing, pausing, lending the device, suspending and resuming jobs, with
\* two threads that may run at once and a device that may not open.
SPECIFICATION Spec
CONSTANTS
  MaxJobs = 2
  MaxEntries = 2
  Threads = {t1, t2}
  StaticThread = FALSE
  Clients = {c1}
  MaxActive = 0
  MaxCompleted = 1
  MaxPreserved = 0
  MaxDocs = 1
  MultiDocument = FALSE
  KeepOpen = FALSE
  SpawnMayFail = FALSE
  Infrastructure = FALSE
  OpenMayFail = TRUE
  t1 = t1
  t2 = t2
  c1 = c1
  Requests = {"print-file", "pause", "resume", "open-device",
              "close-device", "suspend-job", "resume-job"}
  HoldOptions <- NoHold
SYMMETRY ThreadSymmetry
CHECK_DEADLOCK FALSE
INVARIANTS
  BusyHasThread
  ProcessingHasThread
  NoStrandedJob
