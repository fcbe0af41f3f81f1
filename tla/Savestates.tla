----------------------------- MODULE Savestates -----------------------------
(***************************************************************************)
(* Savestate jobs and files (main/savestates.c). The front end asks for a  *)
(* job by writing a few globals; the emulation thread notices it between   *)
(* two instructions, loads the file itself or captures the state and       *)
(* queues its writing; a worker of the work queue writes the file.         *)
(* savestates_lock, a recursive mutex, keeps reader and writer apart.      *)
(*                                                                         *)
(* A state is the number of its capture; what it contains is the subject   *)
(* of R4300Savestate. A file holds the state written to it last, 0 if      *)
(* there is none, and is torn between the truncation and the last byte.    *)
(***************************************************************************)
EXTENDS WorkQueue

CONSTANTS
  FILES,     (* file names the front end may give                          *)
  SLOTS,     (* number of slots; 10 in the program                         *)
  AUTOINC,   (* the setting AutoStateSlotIncrement                         *)
  FAILURES,  (* what may fail in a worker: "open", "write"                 *)
  MAX_SAVES  (* bound: number of states captured                           *)

Slots == 0 .. SLOTS - 1
Null  == "NULL"
Paths == [name : {Null}, slot : Slots] \cup [name : FILES, slot : {0}]

ASSUME SavestatesAssumption ==
  /\ Null \notin FILES
  /\ SLOTS \in Nat \ {0}
  /\ AUTOINC \in BOOLEAN
  /\ FAILURES \subseteq {"open", "write"}
  /\ MAX_SAVES \in Nat
  /\ WORK = [func : {"save"}, path : Paths, state : 1 .. MAX_SAVES]
  /\ WORKERS \cap {"none", "emulation"} = {}

VARIABLES
  job, fname, slot, (* the globals job, fname and slot                     *)
  request,   (* the savestates_set_job the front end is in, or was in last *)
  emu,       (* the emulation thread: "run", "lock", "read", "end", "off"  *)
  path,      (* filepath in savestates_load                                *)
  lock,      (* savestates_lock: its owner, and how often it is locked     *)
  step,      (* where each worker is in savestates_save_m64p_work          *)
  disk,      (* the state in each file                                     *)
  torn,      (* the files that are partly written                          *)
  captures,  (* number of states captured so far                           *)
  captured   (* the state captured last for each file                      *)

jobvars  == <<job, fname, slot, request>>
filevars == <<lock, step, disk, torn>>
savevars == <<captures, captured>>
vars     == <<wqvars, jobvars, emu, path, filevars, savevars>>

(* savestates_generate_path.                                               *)
PathOf(name, s) == [name |-> name, slot |-> IF name = Null THEN s ELSE 0]

-----------------------------------------------------------------------------
(* savestates_lock.                                                        *)

Available(o) == lock.owner \in {"none", o}
Locked(o)    == [owner |-> o, depth |-> lock.depth + 1]
Unlocked     == IF lock.depth = 1 THEN [owner |-> "none", depth |-> 0]
                ELSE [lock EXCEPT !.depth = @ - 1]

-----------------------------------------------------------------------------
(* The front end: savestates_set_job, one assignment after the other, and  *)
(* savestates_select_slot. A save needs a running emulator, a load does    *)
(* not.                                                                    *)

Request(j, name) ==
  /\ request.at = "done"
  /\ j = "save" => emu # "off"
  /\ request' = [at |-> "job", job |-> j, name |-> name]
  /\ fname' = Null
  /\ UNCHANGED <<job, slot, wqvars, emu, path, filevars, savevars>>

RequestJob ==
  /\ request.at = "job"
  /\ request' = [request EXCEPT !.at = "name"]
  /\ job' = request.job
  /\ UNCHANGED <<fname, slot, wqvars, emu, path, filevars, savevars>>

RequestName ==
  /\ request.at = "name"
  /\ request' = [request EXCEPT !.at = "done"]
  /\ fname' = IF request.name = Null THEN fname ELSE request.name
  /\ UNCHANGED <<job, slot, wqvars, emu, path, filevars, savevars>>

SelectSlot(s) ==
  /\ slot' = s
  /\ UNCHANGED <<job, fname, request, wqvars, emu, path, filevars, savevars>>

-----------------------------------------------------------------------------
(* The emulation thread.                                                   *)

(* savestates_load up to the lock: a slot must have a file; a file that is *)
(* named must also show its type, which a file being written may not.      *)
LoadBegin ==
  /\ emu = "run"
  /\ job = "load"
  /\ path' = PathOf(fname, slot)
  /\ \/ /\ disk[path'] # 0 \/ path' \in torn
        /\ emu' = "lock"
     \/ /\ disk[path'] = 0 \/ (fname # Null /\ path' \in torn)
        /\ emu' = "end"
  /\ UNCHANGED <<wqvars, jobvars, filevars, savevars>>

LoadLock ==
  /\ emu = "lock"
  /\ Available("emulation")
  /\ lock' = Locked("emulation")
  /\ emu' = "read"
  /\ UNCHANGED <<wqvars, jobvars, path, step, disk, torn, savevars>>

LoadRead ==
  /\ emu = "read"
  /\ lock' = Unlocked
  /\ emu' = "end"
  /\ UNCHANGED <<wqvars, jobvars, path, step, disk, torn, savevars>>

(* savestates_save: capture, queue the work, and select the next slot.     *)
BadSaveState ==
  LET target == PathOf(fname, slot)
      state  == captures + 1
  IN  /\ emu = "run"
      /\ job = "save"
      /\ state <= MAX_SAVES
      /\ QueueWork([func |-> "save", path |-> target, state |-> state])
      /\ captures' = state
      /\ captured' = [captured EXCEPT ![target] = state]
      /\ slot' = IF AUTOINC THEN slot + 1 ELSE slot
      /\ emu' = "end"
      /\ UNCHANGED <<job, fname, request, path, filevars>>

SaveState ==
  LET target == PathOf(fname, slot)
      state  == captures + 1
  IN  /\ emu = "run"
      /\ job = "save"
      /\ state <= MAX_SAVES
      /\ QueueWork([func |-> "save", path |-> target, state |-> state])
      /\ captures' = state
      /\ captured' = [captured EXCEPT ![target] = state]
      /\ slot' = IF AUTOINC THEN (slot + 1) % SLOTS ELSE slot
      /\ emu' = "end"
      /\ UNCHANGED <<job, fname, request, path, filevars>>

(* savestates_clear_job, at the end of both, whatever the job is by now.   *)
ClearJob ==
  /\ emu = "end"
  /\ emu' = "run"
  /\ job' = "none"
  /\ fname' = Null
  /\ UNCHANGED <<slot, request, wqvars, path, filevars, savevars>>

Stop ==
  /\ emu = "run"
  /\ emu' = "off"
  /\ UNCHANGED <<wqvars, jobvars, path, filevars, savevars>>

-----------------------------------------------------------------------------
(* A worker: savestates_save_m64p_work. Its error paths return without     *)
(* unlocking.                                                              *)

Saving(t, s) == thread[t] = "busy" /\ current[t].func = "save" /\ step[t] = s

BadWriteLock(t) ==
  /\ Saving(t, "lock")
  /\ lock' = lock
  /\ step' = [step EXCEPT ![t] = "open"]
  /\ UNCHANGED <<wqvars, jobvars, emu, path, disk, torn, savevars>>

WriteLock(t) ==
  /\ Saving(t, "lock")
  /\ Available(t)
  /\ lock' = Locked(t)
  /\ step' = [step EXCEPT ![t] = "open"]
  /\ UNCHANGED <<wqvars, jobvars, emu, path, disk, torn, savevars>>

WriteOpen(t) ==
  /\ Saving(t, "open")
  /\ \/ /\ step' = [step EXCEPT ![t] = "write"]
        /\ torn' = torn \cup {current[t].path}
     \/ /\ "open" \in FAILURES
        /\ step' = [step EXCEPT ![t] = "return"]
        /\ UNCHANGED torn
  /\ UNCHANGED <<wqvars, jobvars, emu, path, lock, disk, savevars>>

BadWrite(t) ==
  /\ Saving(t, "write")
  /\ step' = [step EXCEPT ![t] = "return"]
  /\ disk' = [disk EXCEPT ![current[t].path] = current[t].state]
  /\ torn' = torn \ {current[t].path}
  /\ UNCHANGED <<wqvars, jobvars, emu, path, lock, savevars>>

Write(t) ==
  /\ Saving(t, "write")
  /\ step' = [step EXCEPT ![t] = "return"]
  /\ \/ /\ disk' = [disk EXCEPT ![current[t].path] = current[t].state]
        /\ torn' = torn \ {current[t].path}
        /\ lock' = Unlocked
     \/ /\ "write" \in FAILURES
        /\ UNCHANGED <<disk, torn, lock>>
  /\ UNCHANGED <<wqvars, jobvars, emu, path, savevars>>

WriteReturn(t) ==
  /\ thread[t] = "busy"
  /\ current[t].func = "save" => step[t] = "return"
  /\ step' = [step EXCEPT ![t] = "lock"]
  /\ Return(t)
  /\ UNCHANGED <<jobvars, emu, path, lock, disk, torn, savevars>>

-----------------------------------------------------------------------------
(* The rest of the work queue. That CoreShutdown is called after the end   *)
(* of the game is the front end's habit (MainWindow::closeEvent stops the  *)
(* game and waits for its thread): neither it nor queue_work looks.        *)

QueueStep(A) == A /\ UNCHANGED <<jobvars, emu, path, filevars, savevars>>

Shutdown == emu = "off" /\ QueueStep(Dismiss)

Worker(t) ==
  \/ QueueStep(GetWork(t)) \/ QueueStep(Wake(t))
  \/ WriteLock(t) \/ WriteOpen(t) \/ Write(t) \/ WriteReturn(t)

Emulation == LoadBegin \/ LoadLock \/ LoadRead \/ SaveState \/ ClearJob

Init ==
  /\ WQInit
  /\ job = "none" /\ fname = Null /\ slot = 0
  /\ request = [at |-> "done", job |-> "none", name |-> Null]
  /\ emu = "run"
  /\ path = PathOf(Null, 0)
  /\ lock = [owner |-> "none", depth |-> 0]
  /\ step = [t \in WORKERS |-> "lock"]
  /\ disk = [p \in Paths |-> 0]
  /\ torn = {}
  /\ captures = 0
  /\ captured = [p \in Paths |-> 0]

Next ==
  \/ \E j \in {"save", "load"}, name \in FILES \cup {Null} : Request(j, name)
  \/ RequestJob \/ RequestName
  \/ \E s \in Slots : SelectSlot(s)
  \/ Emulation \/ Stop
  \/ \E t \in WORKERS : Worker(t) \/ QueueStep(WakeUnasked(t))
  \/ Shutdown

Spec == Init /\ [][Next]_vars

(* The emulation thread runs on; a worker waits for nothing but the lock,  *)
(* work and its signal.                                                    *)
Fairness ==
  /\ WF_vars(Emulation)
  /\ \A t \in WORKERS : SF_vars(Worker(t))
FairSpec == Spec /\ Fairness

-----------------------------------------------------------------------------
(* Properties.                                                             *)

TypeOK ==
  /\ WQTypeOK
  /\ job \in {"none", "save", "load"}
  /\ fname \in FILES \cup {Null}
  /\ slot \in Slots
  /\ request \in [at : {"job", "name", "done"}, job : {"none", "save", "load"},
                  name : FILES \cup {Null}]
  /\ emu \in {"run", "lock", "read", "end", "off"}
  /\ path \in Paths
  /\ lock \in [owner : WORKERS \cup {"none", "emulation"}, depth : Nat]
  /\ step \in [WORKERS -> {"lock", "open", "write", "return"}]
  /\ disk \in [Paths -> 0 .. MAX_SAVES]
  /\ torn \subseteq Paths
  /\ captures \in 0 .. MAX_SAVES
  /\ captured \in [Paths -> 0 .. MAX_SAVES]

(* A load never reads a file that is being written.                        *)
NoTornLoad == emu = "read" => path \notin torn

(* Once nothing is left to write for a file, it holds the state captured   *)
(* for it last: two saves to one file are never written in the wrong       *)
(* order (there is one worker), and none disappears in the queue.          *)
Pending(p) ==
  \/ \E i \in DOMAIN work : work[i].func = "save" /\ work[i].path = p
  \/ \E t \in WORKERS : thread[t] = "busy" /\ current[t].func = "save"
                          /\ current[t].path = p /\ step[t] # "return"
LatestOnDisk == \A p \in Paths : ~Pending(p) => disk[p] = captured[p]

(* Queue, worker, lock and front end together are no more than SaveOrder:  *)
(* each file goes through all states captured for it in their order, also  *)
(* when others are queued behind the one being written.                    *)
Unwritten(p, s) ==
  \/ \E i \in DOMAIN work : work[i] = [func |-> "save", path |-> p, state |-> s]
  \/ \E t \in WORKERS : /\ thread[t] = "busy" /\ step[t] # "return"
                        /\ current[t] = [func |-> "save", path |-> p, state |-> s]
Remaining == [p \in Paths |-> {s \in 1 .. captures : Unwritten(p, s)}]
Order == INSTANCE SaveOrder WITH PATHS <- Paths, files <- disk, pending <- Remaining
WritesInOrder == Order!Spec

(* A load ends: the emulation does not hang in savestates_load.            *)
LoadEnds == (emu \in {"lock", "read"}) ~> (emu = "end")

(* Every captured state is written, also when the program shuts down.      *)
SavesWritten == \A p \in Paths : Pending(p) ~> ~Pending(p)

(* The doc of M64CMD_STATE_SAVE: with a file name the state is saved to    *)
(* that file, without one to the slot.                                     *)
SavedAsAsked ==
  [][\A p \in Paths : captured'[p] # captured[p] => p = PathOf(request.name, slot)]_vars

=============================================================================
