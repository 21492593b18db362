\* One job, two output devices, two proxy requests at a time.
SPECIFICATION InfraSpec
CONSTANTS
  MaxJobs = 1
  MaxEntries = 1
  Threads = {}
  StaticThread = FALSE
  Clients = {c1}
  MaxActive = 1
  MaxCompleted = 1
  MaxPreserved = 0
  MaxDocs = 1
  MultiDocument = FALSE
  KeepOpen = FALSE
  SpawnMayFail = FALSE
  Infrastructure = TRUE
  OpenMayFail = FALSE
  c1 = c1
  Devices = {d1, d2}
  Proxies = {p1, p2}
  d1 = d1
  d2 = d2
  p1 = p1
  p2 = p2
  NoDevice = NoDevice
  Requests = {"print-job", "web-cancel", "delete-printer"}
  HoldOptions <- NoHold
SYMMETRY DeviceSymmetry
CHECK_DEADLOCK FALSE

  
PROPERTIES
  EndedStays
  LedgerSpec
