SPECIFICATION FairSpec
CONSTANTS
  COMMANDS = {c1}
  NoCommand = none
  DRAM_BLOCKS = 2
  ADDR_BLOCKS = 4
  POLITE = TRUE
  MAX_SI = 2
  MAX_PI = 2
  ADDRESSES = {a1, a2}
  MAX_LEN = 3
  RATES = {1, 2}
  PLUGIN_RATE = 1
  SP_BLOCKS = 2
  SP_POLITE = TRUE
  QUIET = TRUE
CONSTRAINT OneEngine
INVARIANTS
  TypeOK
  BusyServed
  FormatPassedOn
PROPERTIES
  SiQueueSpec
  StreamSpec
  SpQueueSpec
  RoomAgain
