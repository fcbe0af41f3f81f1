SPECIFICATION SSpec
CONSTANTS
  HALF = 6
  POOL_CAPACITY = 4
  DEVICES = {"PI_INT"}
  REPEATABLE = {"PI_INT"}
  CANCELABLE = {}
  SIGNALS = {}
  DELAYS = {1, 4}
  VI_DELAY = 3
  STEPS = {0, 1}
  MAX_LATE = 1
  MAX_CHECKS = 1
  COUNT_WRITES = {}
  COMPARE_WRITES = {6}
  MASK_WRITES = {}
  IM_WRITES = {}
  POWERON_COUNT = 2
  TRAPS = {}
  TASKS = {}
  NMI_DELAY = 3
  JOBS = {"save", "load"}
ACTION_CONSTRAINT QuietUntilLoad
INVARIANTS
  TimersQueued
PROPERTIES
  LoadRestores
