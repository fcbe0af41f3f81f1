--------------------------- MODULE R4300Savestate ---------------------------
(***************************************************************************)
(* R4300Interrupt with the savestates it takes and resumes                 *)
(* (main/savestates.c): what gen_interrupt hands to savestates_save, and   *)
(* what savestates_load puts back into the CPU and the queue. How states   *)
(* travel to and from their files is the subject of Savestates.            *)
(***************************************************************************)
EXTENDS R4300Interrupt

VARIABLE file    (* the state captured last: a set of at most one record   *)

vars == <<dev, file>>

(* The part of savestates_save_m64p that belongs to this model.            *)
Saved(d) ==
  [count |-> d.count, compare |-> d.compare, ie |-> d.ie, exl |-> d.exl,
   im |-> d.im, ip |-> d.ip, intr |-> d.intr, mask |-> d.mask,
   q |-> SaveEventQueue(d)]

(* savestates_load_m64p: the registers, then the queue, then the unsafe    *)
(* flags. cycle_count is not in the file: rebuilding the queue computes it.*)
BadRestored(d, s) ==
  [LoadEventQueue(d, s.q) EXCEPT
     !.count = s.count, !.compare = s.compare, !.ie = s.ie, !.exl = s.exl,
     !.im = s.im, !.ip = s.ip, !.intr = s.intr, !.mask = s.mask,
     !.unsafe = {}]

Restored(d, s) ==
  LET registers ==
        [d EXCEPT !.count = s.count, !.compare = s.compare,
                  !.ie = s.ie, !.exl = s.exl, !.im = s.im, !.ip = s.ip,
                  !.intr = s.intr, !.mask = s.mask]
  IN  [LoadEventQueue(registers, s.q) EXCEPT !.unsafe = {}]

(* A step of the machine; only savestates_save ends a save.                *)
Run ==
  /\ Next
  /\ file' = IF dev.job = "save" /\ dev'.job = "none" THEN {Saved(dev')} ELSE file

(* savestates_load ends: with the state of the file, or without one if     *)
(* there is no file or it cannot be read. Either way savestates_clear_job  *)
(* forgets whatever job is pending by now.                                 *)
LoadEnd ==
  /\ dev.loading
  /\ LET done == [dev EXCEPT !.loading = FALSE, !.job = "none"]
     IN  dev' = done \/ \E s \in file : dev' = Restored(done, s)
  /\ UNCHANGED file

SInit == Init /\ file = {}
SNext == Run \/ LoadEnd
SSpec == SInit /\ [][SNext]_vars

-----------------------------------------------------------------------------
(* A load either fails and changes nothing, or resumes exactly what was    *)
(* captured: registers, lines and, although events are queued again one by *)
(* one around the COUNT of the file, the events in their old order, with a *)
(* cycle_count that agrees with the new head. SPECIAL_INT is placed anew;  *)
(* so is a COMPARE_INT captured at COUNT = COMPARE, which was a turn away  *)
(* and is due again at once.                                               *)
Kept(s, q) ==
  SelectSeq(q, LAMBDA e : CASE e.type = SpecialEvent -> FALSE
                            [] e.type = CompareEvent -> s.count # s.compare
                            [] OTHER -> TRUE)
Resumes(d, s) ==
  /\ [Saved(d) EXCEPT !.q = Kept(s, @)] = [s EXCEPT !.q = Kept(s, @)]
  /\ d.cycle = HeadCycles(d)
  /\ d.unsafe = {}
LoadRestores ==
  [][dev.loading /\ ~dev'.loading =>
       \/ Saved(dev') = Saved(dev)
       \/ \E s \in file : Resumes(dev', s)]_vars

(* The comment of interrupt_unsafe_state in cp0.h: no savestate while the  *)
(* state may be inconsistent. skip_jump is the note that the jump in       *)
(* progress goes to an exception vector. The end of that jump uses it up,  *)
(* unless a load takes its place: a jump that ends with the note still set *)
(* and loads nothing leaves it for a jump of other code.                   *)
JumpEnds == dev.slot = "done" /\ dev'.slot = "no" /\ ~dev'.loading
JumpAbandonedOnce == [][JumpEnds /\ dev.skip => ~dev'.skip]_vars

=============================================================================
