\* One of seven parts at a time.
SPECIFICATION PartsSpec
CONSTANTS
  BufSize = 3
  MaxWrite = 4
  MaxBytes = 7
  MaxFailures = 2
  Devices = {d1, d2}
  Handlers = {h1, h2}
  DeviceAttrs = {a1}
  MaxBody = 2
  MaxRequests = 2
  NumListeners = 2
  Conns = {c1, c2, c3}
  MaxClients = 1
  NumSources = 2
  Drivers <- SomeDrivers
  Attrs <- SomeAttrs
  DocAttrs <- SomeDocAttrs
  Cols <- SomeCols
  MaxEdits = 2
  Filters <- SomeFilters
  MultiDocument = TRUE
  Width = 3
  Height = 4
  Margins = {0, 1}
  Resolution = 200
  Images <- SomeImages
  Heights = {0, 3, 5}
  NumDocs = 1
  NumCopies = 2
  MaxPages = 2
  PrinterNames <- TwoNames
  PathOf <- OnePath
  Creators = {t1, t2}
  MaxInstance = 2
  MaxPrinters = 3
CHECK_DEADLOCK FALSE
INVARIANTS
  PartsTypeOK
  IdentifyKept
  CapabilitiesCurrent
  StreamKept
  InStep
  ClientsServed
  
  DriverServed
PROPERTIES
  ListensAgain
