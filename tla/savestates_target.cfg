SPECIFICATION Spec
CONSTANTS
  WORKERS = {"w1"}
  WORK <- MCWork
  FILES = {"f"}
  SLOTS = 1
  AUTOINC = FALSE
  FAILURES = {}
  MAX_SAVES = 2
CHECK_DEADLOCK FALSE
PROPERTIES
  SavedAsAsked
