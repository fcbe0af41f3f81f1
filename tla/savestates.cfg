SPECIFICATION FairSpec
CONSTANTS
  WORKERS = {"w1"}
  WORK <- MCWork
  FILES = {"f"}
  SLOTS = 2
  AUTOINC = TRUE
  FAILURES = {}
  MAX_SAVES = 2
CHECK_DEADLOCK FALSE
INVARIANTS
  TypeOK
  NoLostWakeup
  NothingLeftBehind
  NoTornLoad
  LatestOnDisk
PROPERTIES
  WritesInOrder
  LoadEnds
  SavesWritten
