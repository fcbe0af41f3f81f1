-------------------------- MODULE MCR4300Interrupt --------------------------
(* Small instances of R4300Interrupt.                                      *)
EXTENDS R4300Interrupt

MCMasks    == {{}, Lines}
MCTimerRCP == {{RCP, Timer}}
MCTimer    == {{Timer}}
=============================================================================
