SPECIFICATION SSpec
CONSTANTS
  HALF = 8
  POOL_CAPACITY = 8
  DEVICES = {}
  REPEATABLE = {}
  CANCELABLE = {}
  SIGNALS = {}
  DELAYS = {}
  VI_DELAY = 3
  STEPS = {0, 1}
  MAX_LATE = 1
  MAX_CHECKS = 1
  COUNT_WRITES = {}
  COMPARE_WRITES = {}
  MASK_WRITES = {}
  IM_WRITES = {}
  POWERON_COUNT = 2
  TRAPS = {TRUE}
  TASKS = {}
  NMI_DELAY = 3
  JOBS = {"save", "load"}
ACTION_CONSTRAINT LoadsSucceed
PROPERTIES
  JumpAbandonedOnce
