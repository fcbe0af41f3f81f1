SPECIFICATION Spec
CONSTANTS
  HALF = 8
  POOL_CAPACITY = 6
  DEVICES = {"PI_INT"}
  REPEATABLE = {"PI_INT"}
  CANCELABLE = {}
  SIGNALS = {}
  DELAYS = {1, 4}
  VI_DELAY = 3
  STEPS = {0, 1}
  MAX_LATE = 1
  MAX_CHECKS = 1
  COUNT_WRITES = {10}
  COMPARE_WRITES = {6}
  MASK_WRITES = {}
  IM_WRITES <- MCTimer
  POWERON_COUNT = 2
  TRAPS = {}
  TASKS = {}
  NMI_DELAY = 3
  JOBS = {}
ACTION_CONSTRAINT AwayFromCompare
CONSTRAINT NodeLeft
INVARIANTS
  CycleTracksHead
  DevicesInOrder
  CompareArmed
  HeadWithinHalf
PROPERTIES
  TimerOnTime
