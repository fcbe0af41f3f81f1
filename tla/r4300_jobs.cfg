SPECIFICATION FairSpec
CONSTANTS
  HALF = 3
  POOL_CAPACITY = 8
  DEVICES = {"SP_INT"}
  REPEATABLE = {}
  CANCELABLE = {"SP_INT"}
  SIGNALS = {}
  DELAYS = {1}
  VI_DELAY = 2
  STEPS = {0, 1}
  MAX_LATE = 1
  MAX_CHECKS = 1
  COUNT_WRITES = {}
  COMPARE_WRITES = {}
  MASK_WRITES = {}
  IM_WRITES = {}
  POWERON_COUNT = 2
  TRAPS = {}
  TASKS = {TRUE}
  NMI_DELAY = 2
  JOBS = {"hard", "soft", "save"}
PROPERTIES
  ResetServed
  SaveServed
  NmiServed
