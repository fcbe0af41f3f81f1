SPECIFICATION FairSpec
CONSTANT HABITS = {"in_game", "stop_last"}
PROPERTY StopServed
CHECK_DEADLOCK FALSE
