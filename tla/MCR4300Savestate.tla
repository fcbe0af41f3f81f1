-------------------------- MODULE MCR4300Savestate --------------------------
(* A small instance of R4300Savestate.                                     *)
EXTENDS R4300Savestate, MCR4300Interrupt

(* The program of AwayFromCompare, which writes no more registers from the *)
(* time a state is captured until it is loaded: what it does in between is *)
(* lost with the load.                                                     *)
QuietUntilLoad ==
  ~dev.loading =>
    /\ AwayFromCompare
    /\ file # {} => /\ dev'.compare = dev.compare
                    /\ Len(dev'.q) <= Len(dev.q)
                    /\ dev.intr \subseteq dev'.intr

(* Only loads that find a state and can read it.                           *)
LoadsSucceed ==
  /\ dev'.loading => file # {}
  /\ dev.loading /\ ~dev'.loading => \E s \in file : Resumes(dev', s)
=============================================================================
