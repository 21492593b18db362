\* Saving, crashing and starting again, with two jobs.
SPECIFICATION RestartSpec
CONSTANTS
  MaxJobs = 2
  MaxEntries = 2
  Threads = {t1}
  StaticThread = FALSE
  Clients = {c1}
  MaxActive = 1
  MaxCompleted = 1
  MaxPreserved = 0
  MaxDocs = 1
  MultiDocument = FALSE
  KeepOpen = TRUE
  SpawnMayFail = FALSE
  Infrastructure = FALSE
  OpenMayFail = FALSE
  MaxRestarts = 1
  MultiQueue = FALSE
  SaveMayFail = FALSE
  t1 = t1
  c1 = c1
  Requests = {"print-job", "cancel-job", "shutdown"}
  HoldOptions <- NoHold
CHECK_DEADLOCK FALSE
INVARIANTS
  RestartTypeOK
  ListsAgree
  AttrsThere
  NumbersFresh
  NothingForgotten
PROPERTIES
  NotPrintedAgain
  SavedWorkKept
