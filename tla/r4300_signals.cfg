SPECIFICATION Spec
CONSTANTS
  HALF = 4
  POOL_CAPACITY = 8
  DEVICES = {"SP_INT"}
  REPEATABLE = {}
  CANCELABLE = {}
  SIGNALS = {"SP_INT"}
  DELAYS = {}
  VI_DELAY = 3
  STEPS = {0, 1}
  MAX_LATE = 1
  MAX_CHECKS = 1
  COUNT_WRITES = {}
  COMPARE_WRITES = {3}
  MASK_WRITES <- MCMasks
  IM_WRITES <- MCTimerRCP
  POWERON_COUNT = 2
  TRAPS = {TRUE}
  TASKS = {}
  NMI_DELAY = 3
  JOBS = {}
INVARIANTS
  TypeOK
  NoLostInterrupt
