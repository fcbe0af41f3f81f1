SPECIFICATION FairSpec
CONSTANT HABITS = {"in_game", "whole_frames", "stop_last"}
INVARIANTS TypeOK PauseAsAsked
PROPERTY StopServed
CHECK_DEADLOCK FALSE
