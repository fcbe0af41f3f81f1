------------------------------- MODULE RcpDma -------------------------------
(***************************************************************************)
(* The four DMA engines of the RCP - serial, peripheral and audio          *)
(* interface and signal processor - with the resets they share: a hard     *)
(* reset powers every device on again, a soft reset ends in                *)
(* nmi_int_handler, which empties the event queue under all of them and    *)
(* resets some.                                                            *)
(***************************************************************************)
EXTENDS SerialInterface, PeripheralInterface, AudioInterface, SpDma

CONSTANT QUIET   (* programs let their SI and SP transfers end before the  *)
                 (* NMI of a soft reset, which HW2_INT announces half a    *)
                 (* second earlier                                         *)

ASSUME QuietAssumption == QUIET \in BOOLEAN

rcpVars == <<siVars, piVars, aiVars, spVars>>

Init == SiInit /\ PiInit /\ AiInit /\ SpInit

PiOther == UNCHANGED piVars

(* Steps of one engine.                                                    *)
OfSi(A) == A /\ PiOther /\ AiOther /\ SpOther
OfPi(A) == A /\ SiOther /\ AiOther /\ SpOther
OfAi(A) == A /\ SiOther /\ PiOther /\ SpOther
OfSp(A) == A /\ SiOther /\ PiOther /\ AiOther

(* reset_hard_handler: poweron_device and init_interrupt.                  *)
ResetHardHandler == SiPowerOn /\ PiReset /\ AiPowerOn /\ SpPowerOn

NmiHandler ==
  /\ QUIET => ~SiBusy /\ "BUSY" \notin sp.status
  /\ SiNmi /\ PiReset /\ AiNmi /\ SpNmi

Next ==
  \/ OfSi(SiNext) \/ OfPi(PiNext) \/ OfAi(AiNext) \/ OfSp(SpNext)
  \/ ResetHardHandler \/ NmiHandler

Spec == Init /\ [][Next]_rcpVars

(* COUNT advances for ever, and a due event is dispatched.                 *)
Fairness ==
  /\ WF_rcpVars(OfSi(SiEndOfDma)) /\ WF_rcpVars(OfPi(PiEndOfDma))
  /\ WF_rcpVars(OfAi(Tick)) /\ WF_rcpVars(OfAi(AiEndOfDma))
  /\ WF_rcpVars(OfSp(RspEndOfDma))
FairSpec == Spec /\ Fairness

-----------------------------------------------------------------------------
TypeOK == SiTypeOK /\ PiTypeOK /\ AiTypeOK /\ SpTypeOK

(* Whatever the program asks for, in any order with the resets, a busy     *)
(* engine has the event in the queue that will make it idle, and the audio *)
(* and the SP engine have no other one.                                    *)
BusyServed == SiBusyServed /\ PiBusyServed /\ AiBusyServed /\ SpBusyServed

(* Every engine accepts a transfer again: the SI, the AI and the SP when   *)
(* they are full, the PI when its DMA is over.                             *)
RoomAgain ==
  /\ SiQueue!RoomAgain
  /\ SpQueue!RoomAgain
  /\ ("DMA_BUSY" \in pi.status) ~> ("DMA_BUSY" \notin pi.status)
  /\ ("FULL" \in ai.status) ~> ("FULL" \notin ai.status)
=============================================================================
