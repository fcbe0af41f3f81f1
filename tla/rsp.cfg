SPECIFICATION FairSpec
CONSTANTS
  PATIENT = TRUE
  QUIET = TRUE
  CPU_UNFREEZES = TRUE
  MAX_DP = 2
  MAX_COMMANDS = 4
INVARIANTS TypeOK WaitsServed NeverStalls OneInterrupt
PROPERTIES EndSeenWithInterrupt Completes
CHECK_DEADLOCK FALSE
