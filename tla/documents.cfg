\* Jobs created without data, their documents, holding and releasing,
\* on the Zephyr build with its one static thread.
SPECIFICATION Spec
CONSTANTS
  MaxJobs = 2
  MaxEntries = 2
  Threads = {t1}
  StaticThread = TRUE
  Clients = {c1}
  MaxActive = 1
  MaxCompleted = 1
  MaxPreserved = 0
  MaxDocs = 1
  MultiDocument = TRUE
  KeepOpen = TRUE
  SpawnMayFail = FALSE
  Infrastructure = FALSE
  OpenMayFail = FALSE
  t1 = t1
  c1 = c1
  Requests = {"create-job", "print-job", "send-document", "hold-job",
              "release-job", "hold-new", "release-new"}
  HoldOptions <- AllHolds
CHECK_DEADLOCK FALSE
INVARIANTS
  TypeOK
PROPERTIES
  LedgerSpec
