-------------------------- MODULE Emulation_proofs --------------------------
(***************************************************************************)
(* Proofs about Emulation.                                                 *)
(***************************************************************************)
EXTENDS Emulation, TLAPS

AllHabits == {"in_game", "whole_frames", "stop_last"}

(* The type of the flags and that of the rest.                             *)
FlagTypes ==
  /\ running \in BOOLEAN /\ stop \in BOOLEAN
  /\ pause \in BOOLEAN /\ advance \in BOOLEAN
PlaceTypes ==
  /\ emu \in EmuPoints
  /\ fe = <<>> \/ \E s \in Steps : fe = <<s>>
  /\ wish \in Wishes /\ frames \in 0 .. 2

LEMMA InitType == Init => TypeOK
<1>1. Init => FlagTypes
  BY Zenon DEF Init, FlagTypes
<1>2. Init => PlaceTypes
  BY SMT DEF Init, PlaceTypes, EmuPoints, Wishes
<1>3. QED
  BY <1>1, <1>2 DEF TypeOK, FlagTypes, PlaceTypes

LEMMA EmulationType == TypeOK /\ EmulationThread => TypeOK'
<1> SUFFICES ASSUME FlagTypes, PlaceTypes, EmulationThread PROVE FlagTypes' /\ PlaceTypes'
  BY DEF TypeOK, FlagTypes, PlaceTypes
<1> USE DEF EmulationThread, SetRunning, RunR4300, TestStop, NewVi, NewFrame, EndAdvance,
            PauseLoop, Close
<1>1. FlagTypes'
  BY Zenon DEF FlagTypes
<1>2. PlaceTypes'
  BY SMT DEF PlaceTypes, EmuPoints, Wishes
<1>3. QED
  BY <1>1, <1>2

LEMMA FrontEndType == TypeOK /\ FrontEndStep => TypeOK'
<1> SUFFICES ASSUME FlagTypes, PlaceTypes, FrontEndStep PROVE FlagTypes' /\ PlaceTypes'
  BY DEF TypeOK, FlagTypes, PlaceTypes
<1> USE DEF FrontEndStep, Step, MainStop, StopDevice, PauseTest, ResumeTest, Toggle, ToggleDone,
            Continue, IsPaused
<1>1. FlagTypes'
  BY Zenon DEF FlagTypes
<1>2. PlaceTypes'
  BY SMT DEF PlaceTypes, Steps
<1>3. QED
  BY <1>1, <1>2

LEMMA CommandType ==
  TypeOK /\ (Execute \/ CloseWindow \/ Stop \/ Pause \/ Resume \/ Advance) => TypeOK'
<1> SUFFICES ASSUME FlagTypes, PlaceTypes,
                    Execute \/ CloseWindow \/ Stop \/ Pause \/ Resume \/ Advance
             PROVE  FlagTypes' /\ PlaceTypes'
  BY DEF TypeOK, FlagTypes, PlaceTypes
<1> USE DEF Execute, CloseWindow, Stop, Pause, Resume, Advance, Command
<1>1. FlagTypes'
  BY Zenon DEF FlagTypes
<1>2. PlaceTypes'
  BY SMT DEF PlaceTypes, EmuPoints, Steps, Wishes
<1>3. QED
  BY <1>1, <1>2

(* Whatever front ends do: every flag and every place of the two threads   *)
(* has its type.                                                           *)
THEOREM TypeCorrect == Spec => []TypeOK
<1>1. TypeOK /\ [Next]_vars => TypeOK'
  <2>1. TypeOK /\ UNCHANGED vars => TypeOK'
    BY DEF TypeOK, vars
  <2>2. QED
    BY <2>1, EmulationType, FrontEndType, CommandType DEF Next
<1>2. QED
  BY <1>1, InitType, PTL DEF Spec

-----------------------------------------------------------------------------
(* Of front ends that keep to all the habits. The flags of the game.       *)
Flags ==
  /\ running <=> emu \notin {"idle", "opening"}
  /\ emu \notin InGame => fe = <<>>
  /\ emu = "closing" => wish = "stop"
  /\ emu \in InGame /\ stop => wish = "stop" /\ fe = <<>>

(* A frame advance, from its command to the pause that ends it.            *)
Advancing ==
  \/ fe = <<"continue">> /\ frames = 0 /\ advance /\ pause /\ emu = "pause_loop"
  \/ /\ fe = <<>>
     /\ \/ frames = 0 /\ advance /\ ~pause /\ emu \in {"pause_loop", "test", "code"}
        \/ frames = 1 /\ advance /\ ~pause /\ emu = "new_frame"
        \/ frames = 1 /\ advance /\ pause /\ emu = "advanced"
        \/ frames = 1 /\ ~advance /\ pause /\ emu = "pause_loop"

(* What each command leaves of itself until it is done.                    *)
Underway ==
  CASE wish = "advance" -> Advancing
    [] wish = "stop" ->
         /\ ~advance
         /\ \/ fe = <<"main_stop">>
            \/ fe \in {<<>>, <<"stop_device">>} /\ ~pause
    [] wish = "pause" ->
         /\ ~advance
         /\ emu \in InGame
         /\ \/ fe = <<"pause">>
            \/ fe = <<"toggle">> /\ ~pause
            \/ fe \in {<<>>, <<"end_advance">>} /\ pause
    [] OTHER ->
         /\ ~advance
         /\ \/ fe = <<"resume">>
            \/ fe = <<"toggle">> /\ pause
            \/ fe \in {<<>>, <<"end_advance">>} /\ ~pause

PauseInv == TypeOK /\ Flags /\ Underway

LEMMA InitPause == Init => PauseInv
BY InitType DEF Init, PauseInv, Flags, Underway, InGame

LEMMA EmulationPause == PauseInv /\ EmulationThread => PauseInv'
<1> SUFFICES ASSUME PauseInv, EmulationThread PROVE Flags' /\ Underway'
  BY EmulationType DEF PauseInv
<1> USE DEF PauseInv, TypeOK, EmuPoints, Wishes, Flags, InGame
<1>1. Flags'
  BY DEF EmulationThread, SetRunning, RunR4300, TestStop, NewVi, NewFrame, EndAdvance,
         PauseLoop, Close
<1>2. CASE wish = "advance"
  BY <1>1, <1>2 DEF Underway, Advancing, EmulationThread, SetRunning, RunR4300, TestStop, NewVi,
         NewFrame, EndAdvance, PauseLoop, Close
<1>3. CASE wish # "advance"
  BY <1>1, <1>3 DEF Underway, EmulationThread, SetRunning, RunR4300, TestStop, NewVi,
         NewFrame, EndAdvance, PauseLoop, Close
<1>4. QED
  BY <1>1, <1>2, <1>3

LEMMA FrontEndPause == PauseInv /\ FrontEndStep => PauseInv'
<1> SUFFICES ASSUME PauseInv, FrontEndStep PROVE Flags' /\ Underway'
  BY FrontEndType DEF PauseInv
<1> USE DEF PauseInv, TypeOK, Flags, InGame, Underway, Advancing, Step
<1>1. CASE MainStop
  <2>1. running /\ fe' = <<"stop_device">> /\ fe # <<>>
    BY <1>1 DEF MainStop
  <2>2. ~pause'
    BY <1>1, <2>1, Zenon DEF MainStop
  <2>3. QED
    BY <1>1, <2>1, <2>2 DEF MainStop
<1>2. CASE StopDevice
  BY <1>2 DEF StopDevice
<1>3. CASE PauseTest \/ ResumeTest
  BY <1>3 DEF PauseTest, ResumeTest, IsPaused
<1>4. CASE Toggle \/ ToggleDone
  BY <1>4 DEF Toggle, ToggleDone
<1>5. CASE Continue
  BY <1>5 DEF Continue
<1>6. QED
  BY <1>1, <1>3, <1>4, <1>5, <1>2 DEF FrontEndStep

LEMMA CommandPause ==
  ASSUME HABITS = AllHabits, PauseInv,
         Execute \/ CloseWindow \/ Stop \/ Pause \/ Resume \/ Advance
  PROVE  PauseInv'
<1> SUFFICES Flags' /\ Underway'
  BY CommandType DEF PauseInv
<1> USE DEF PauseInv, TypeOK, Flags, InGame, Underway, Advancing, AllHabits, Patient, FrameRun
<1>1. CASE Execute
  BY <1>1 DEF Execute
<1>2. CASE CloseWindow
  BY <1>2 DEF CloseWindow
<1>3. CASE Stop
  BY <1>3 DEF Stop, Command
<1>4. CASE Pause
  BY <1>4 DEF Pause, Command
<1>5. CASE Resume
  BY <1>5 DEF Resume, Command
<1>6. CASE Advance
  BY <1>6 DEF Advance, Command
<1>7. QED
  BY <1>1, <1>2, <1>3, <1>4, <1>5, <1>6

(* A game is paused exactly as the last command asked: of front ends that  *)
(* wait for the game to run, advance frame by frame and stop last.         *)
THEOREM AlwaysPausedAsAsked == HABITS = AllHabits => (Spec => []PauseAsAsked)
<1> SUFFICES ASSUME HABITS = AllHabits PROVE Spec => []PauseAsAsked
  OBVIOUS
<1>1. PauseInv /\ [Next]_vars => PauseInv'
  <2>1. PauseInv /\ UNCHANGED vars => PauseInv'
    BY DEF PauseInv, TypeOK, Flags, Underway, Advancing, vars
  <2>2. QED
    BY <2>1, EmulationPause, FrontEndPause, CommandPause DEF Next
<1>2. PauseInv => PauseAsAsked
  BY DEF PauseInv, Flags, TypeOK, Underway, Advancing, PauseAsAsked, InGame, Wishes
<1>3. QED
  BY <1>1, <1>2, InitPause, PTL DEF Spec
=============================================================================
