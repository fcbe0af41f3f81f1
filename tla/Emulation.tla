------------------------------ MODULE Emulation ------------------------------
(***************************************************************************)
(* The life of a game: the emulation thread, which M64CMD_EXECUTE runs     *)
(* from main_run to its return, and the commands of the front end's thread *)
(* meanwhile. The two share four variables without a lock: whether the     *)
(* emulator runs (g_EmulatorRunning), stop of the R4300, g_rom_pause and   *)
(* l_FrameAdvance. A command is a sequence of accesses to them, and so is  *)
(* the vertical interrupt, at whose end the emulation thread waits while   *)
(* the game is paused.                                                     *)
(***************************************************************************)
EXTENDS Naturals

CONSTANT HABITS    (* what the front ends keep to, see Patient             *)

ASSUME HabitsAssumption == HABITS \subseteq {"in_game", "whole_frames", "stop_last"}

VARIABLES
  emu,       (* where the emulation thread is, see EmuPoints               *)
  running,   (* g_EmulatorRunning                                          *)
  stop,      (* r4300.stop                                                 *)
  pause,     (* g_rom_pause                                                *)
  advance,   (* l_FrameAdvance                                             *)
  fe,        (* the command the front end is in the middle of: what is left*)
  wish,      (* history: the last command accepted in this game            *)
  frames     (* history: frames since then, up to 2                        *)

vars == <<emu, running, stop, pause, advance, fe, wish, frames>>

EmuPoints ==
  {"idle",       (* no game                                                *)
   "opening",    (* main_run, before g_EmulatorRunning is set              *)
   "starting",   (* main_run, from there to run_r4300                      *)
   "test",       (* the test of stop in the loop of run_r4300              *)
   "code",       (* the program of the game                                *)
   "new_frame",  (* new_vi: new_frame, and where it goes on                *)
   "advanced",
   "pause_loop", (* new_vi: pause_loop                                     *)
   "closing"}    (* main_run, after the loop                               *)
InGame == {"test", "code", "new_frame", "advanced", "pause_loop"}
Steps == {"main_stop", "stop_device", "pause", "resume", "toggle", "end_advance", "continue"}
Wishes == {"run", "stop", "pause", "advance"}

-----------------------------------------------------------------------------
Init ==
  /\ emu = "idle" /\ running = FALSE /\ stop = FALSE /\ pause = FALSE
  /\ advance = FALSE /\ fe = <<>> /\ wish = "run" /\ frames = 0

(* The emulation thread: main_run.                                         *)
Execute ==
  /\ emu = "idle" /\ ~running
  /\ emu' = "opening"
  /\ wish' = "run" /\ frames' = 0
  /\ UNCHANGED <<running, stop, pause, advance, fe>>

SetRunning ==
  /\ emu = "opening"
  /\ emu' = "starting" /\ running' = TRUE
  /\ UNCHANGED <<stop, pause, advance, fe, wish, frames>>

RunR4300 ==
  /\ emu = "starting"
  /\ emu' = "test" /\ stop' = FALSE /\ pause' = FALSE
  /\ UNCHANGED <<running, advance, fe, wish, frames>>

TestStop ==
  /\ emu = "test"
  /\ emu' = IF stop THEN "closing" ELSE "code"
  /\ UNCHANGED <<running, stop, pause, advance, fe, wish, frames>>

(* The vertical interrupt, whatever stop is by then.                       *)
BadNewVi ==
  /\ emu = "code"
  /\ emu' = "new_vi"
  /\ frames' = IF frames = 2 THEN 2 ELSE frames + 1
  /\ UNCHANGED <<running, stop, pause, advance, fe, wish>>

NewVi ==
  /\ emu = "code"
  /\ emu' = "new_frame"
  /\ frames' = IF frames = 2 THEN 2 ELSE frames + 1
  /\ UNCHANGED <<running, stop, pause, advance, fe, wish>>

(* new_frame: a frame advance ends.                                        *)
NewFrame ==
  /\ emu = "new_frame"
  /\ emu' = IF advance THEN "advanced" ELSE "pause_loop"
  /\ pause' = (pause \/ advance)
  /\ UNCHANGED <<running, stop, advance, fe, wish, frames>>

BadEndAdvance ==
  /\ emu = "advanced"
  /\ emu' = "pause_loop"
  /\ UNCHANGED <<running, stop, pause, advance, fe, wish, frames>>

EndAdvance ==
  /\ emu = "advanced"
  /\ emu' = "pause_loop" /\ advance' = FALSE
  /\ UNCHANGED <<running, stop, pause, fe, wish, frames>>

PauseLoop ==
  /\ emu = "pause_loop" /\ ~pause
  /\ emu' = "test"
  /\ UNCHANGED <<running, stop, pause, advance, fe, wish, frames>>

Close ==
  /\ emu = "closing"
  /\ emu' = "idle" /\ running' = FALSE
  /\ UNCHANGED <<stop, pause, advance, fe, wish, frames>>

-----------------------------------------------------------------------------
(* The front end: CoreDoCommand, refused unless the emulator runs, and the *)
(* steps of the command it starts.                                         *)
(*   "in_game"       commands wait until the game runs                     *)
(*   "whole_frames"  frames are advanced one at a time, in a paused game   *)
(*   "stop_last"     a game that was stopped gets no more commands         *)
FrameRun == wish = "advance" => frames > 0 /\ emu = "pause_loop"

Patient(command) ==
  /\ "in_game" \in HABITS => emu \in InGame
  /\ "stop_last" \in HABITS => wish # "stop"
  /\ "whole_frames" \in HABITS =>
       /\ FrameRun
       /\ command = "advance" => pause /\ emu = "pause_loop"

Command(command, steps) ==
  /\ fe = <<>> /\ running
  /\ Patient(command)
  /\ fe' = steps
  /\ wish' = command /\ frames' = 0
  /\ UNCHANGED <<emu, running, stop, pause>>

Stop    == Command("stop", <<"main_stop">>) /\ UNCHANGED advance
Pause   == Command("pause", <<"pause">>) /\ UNCHANGED advance
Resume  == Command("run", <<"resume">>) /\ UNCHANGED advance
(* main_advance_one sets l_FrameAdvance first.                             *)
Advance == Command("advance", <<"continue">>) /\ advance' = TRUE

(* The window of the game is closed: its event is handled where the        *)
(* emulation thread looks for input, and calls main_stop. That call is one *)
(* step here, made while the front end has no command under way: what the  *)
(* steps of main_stop may meet in between is the subject of Stop.          *)
CloseWindow ==
  /\ emu \in {"code", "pause_loop"}
  /\ fe = <<>> /\ Patient("stop")
  /\ stop' = TRUE /\ pause' = FALSE
  /\ wish' = "stop" /\ frames' = 0
  /\ UNCHANGED <<emu, running, advance, fe>>

(* One step of the command, after which it goes on with steps.             *)
Step(name, steps) ==
  /\ fe = <<name>>
  /\ fe' = steps
  /\ UNCHANGED <<emu, running, wish, frames>>

(* main_stop.                                                              *)
BadMainStop ==
  /\ Step("main_stop", IF running THEN <<"stop_device">> ELSE <<>>)
  /\ UNCHANGED <<stop, pause, advance>>

MainStop ==
  /\ Step("main_stop", IF running THEN <<"stop_device">> ELSE <<>>)
  /\ pause' = (pause /\ ~running)
  /\ UNCHANGED <<stop, advance>>

StopDevice == Step("stop_device", <<>>) /\ stop' = TRUE /\ UNCHANGED <<pause, advance>>

(* main_core_state_set toggles a pause that is not as it is asked for.     *)
IsPaused == running /\ pause

PauseTest ==
  /\ Step("pause", IF IsPaused THEN <<>> ELSE <<"toggle">>)
  /\ UNCHANGED <<stop, pause, advance>>

ResumeTest ==
  /\ Step("resume", IF IsPaused THEN <<"toggle">> ELSE <<>>)
  /\ UNCHANGED <<stop, pause, advance>>

(* main_toggle_pause.                                                      *)
Toggle ==
  /\ Step("toggle", IF running THEN <<"end_advance">> ELSE <<>>)
  /\ pause' = (pause # running)
  /\ UNCHANGED <<stop, advance>>

ToggleDone == Step("end_advance", <<>>) /\ advance' = FALSE /\ UNCHANGED <<stop, pause>>

(* main_advance_one.                                                       *)
Continue == Step("continue", <<>>) /\ pause' = FALSE /\ UNCHANGED <<stop, advance>>

EmulationThread ==
  \/ SetRunning \/ RunR4300 \/ TestStop \/ NewVi \/ NewFrame \/ EndAdvance
  \/ PauseLoop \/ Close
FrontEndStep ==
  \/ MainStop \/ StopDevice \/ PauseTest \/ ResumeTest \/ Toggle \/ ToggleDone \/ Continue

Next ==
  \/ EmulationThread \/ FrontEndStep
  \/ Execute \/ CloseWindow
  \/ Stop \/ Pause \/ Resume \/ Advance

Spec == Init /\ [][Next]_vars

(* Both threads are scheduled; no command need ever be given.              *)
FairSpec == Spec /\ WF_vars(EmulationThread) /\ WF_vars(FrontEndStep)

-----------------------------------------------------------------------------
(* Properties.                                                             *)

TypeOK ==
  /\ emu \in EmuPoints
  /\ running \in BOOLEAN /\ stop \in BOOLEAN
  /\ pause \in BOOLEAN /\ advance \in BOOLEAN
  /\ fe = <<>> \/ \E s \in Steps : fe = <<s>>
  /\ wish \in Wishes /\ frames \in 0 .. 2

(* Once a command has returned the game is paused as the command asked, at *)
(* every point of the emulation thread and in every later game: PAUSE      *)
(* holds, RESUME and a new game run, and ADVANCE_FRAME runs one frame and  *)
(* no more.                                                                *)
PauseAsAsked ==
  fe = <<>> /\ emu \in InGame =>
    CASE wish = "pause"   -> pause
      [] wish = "advance" ->
           frames < 2 /\ (pause <=> frames = 1 /\ emu \in {"advanced", "pause_loop"})
      [] OTHER            -> ~pause

(* The front end's call of M64CMD_EXECUTE returns after a STOP.            *)
StopServed == (wish = "stop" /\ running) ~> ~running
=============================================================================
