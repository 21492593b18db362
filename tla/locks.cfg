CONSTANTS
  Threads = {t1, t2, t3}
  WriterPreference = TRUE
  Scripts <- AllScripts
  Inverted <- KnownInverted
SPECIFICATION Spec
SYMMETRY ThreadSymmetry
CHECK_DEADLOCK FALSE
INVARIANTS
  AcquiresInOrder
  DeadlockCause
  PairCause
