SPECIFICATION FairSpec
CONSTANTS
  Clients = {host, guest}
  NPlayers = 2
  Keys = {0, 1}
  MAX_TRIES = 1
  MAX_COUNT = 2
INVARIANTS TypeOK BufferExact
PROPERTIES InputsSpec NeverHangs
CHECK_DEADLOCK FALSE
