------------------------------- MODULE SpDma -------------------------------
(***************************************************************************)
(* The DMA engine of the signal processor (SP): a queue of two transfers   *)
(* between RDRAM and the memory of the RSP. The program writes the two     *)
(* addresses, then the length, which submits the transfer. A transfer is   *)
(* carried out when it starts, and leaves its end addresses in the         *)
(* registers, those of a second transfer while the first one ends;         *)
(* RSP_DMA_EVT ends it. SP DMA raises no interrupt: programs poll.         *)
(*                                                                         *)
(* The two addresses move together and are one place, that in the memory   *)
(* of the RSP, which wraps; the bytes and the length are left out. The RSP *)
(* writes the same two registers when its microcode transfers data, and is *)
(* not modelled: of programs that leave them to the RSP while a task runs, *)
(* and write both addresses before each transfer after it.                 *)
(***************************************************************************)
EXTENDS Naturals, Sequences

CONSTANTS
  SP_BLOCKS,   (* number of places                                         *)
  SP_POLITE    (* programs write an address only while the queue has room  *)

ASSUME SpDmaAssumption == SP_BLOCKS \in Nat \ {0} /\ SP_POLITE \in BOOLEAN

VARIABLES
  sp,          (* SP_DMA_BUSY_REG, SP_DMA_FULL_REG, fifo[2], the addresses *)
               (* and RSP_DMA_EVT; and what the program wrote last (asked) *)
  spDone       (* history: the transfer this step ended, if any            *)

spVars == <<sp, spDone>>

Places == 0 .. SP_BLOCKS - 1
Unwritten == SP_BLOCKS   (* no address written since the last transfer     *)

(* A transfer, and the address that the program wrote for it.              *)
SpRequests == [dir : {"read", "write"}, place : Places, asked : Places \cup {Unwritten}]
NoRequest == [dir |-> "read", place |-> 0, asked |-> Unwritten]

SpReset == [status |-> {}, fifo0 |-> NoRequest, fifo1 |-> NoRequest, place |-> 0,
            asked |-> Unwritten, events |-> 0]

SpInit == sp = SpReset /\ spDone = <<>>

(* do_sp_dma, of what is in fifo[0] by now.                                *)
BadAfter(p) == p + 1

After(p) == IF p + 1 = SP_BLOCKS THEN 0 ELSE p + 1
DoSpDma(s) == [s EXCEPT !.place = After(s.fifo0.place), !.events = @ + 1]

(* fifo_push and fifo_pop: a request made of a full queue is ignored.      *)
BadSpFifoPush(s, t) ==
  IF "BUSY" \in s.status
  THEN [s EXCEPT !.fifo1 = t, !.status = @ \cup {"FULL"}]
  ELSE DoSpDma([s EXCEPT !.fifo0 = t, !.status = @ \cup {"BUSY"}])

SpFifoPush(s, t) ==
  CASE "FULL" \in s.status -> s
    [] "BUSY" \in s.status /\ "FULL" \notin s.status ->
         [s EXCEPT !.fifo1 = t, !.status = @ \cup {"FULL"}]
    [] OTHER -> DoSpDma([s EXCEPT !.fifo0 = t, !.status = @ \cup {"BUSY"}])

BadSpFifoPop(s) ==
  IF "FULL" \in s.status
  THEN [s EXCEPT !.fifo0 = s.fifo1, !.status = @ \ {"FULL"}]
  ELSE [s EXCEPT !.status = @ \ {"BUSY"}]

SpFifoPop(s) ==
  IF "FULL" \in s.status
  THEN DoSpDma([s EXCEPT !.fifo0 = s.fifo1, !.status = @ \ {"FULL"}])
  ELSE [s EXCEPT !.status = @ \ {"BUSY"}]

(* write_rsp_regs: the addresses, then the length.                         *)
WriteSpAddr(p) ==
  /\ SP_POLITE => "FULL" \notin sp.status
  /\ sp' = [sp EXCEPT !.place = p, !.asked = p]
  /\ spDone' = <<>>

WriteSpLen(dir) ==
  /\ sp' = [SpFifoPush(sp, [dir |-> dir, place |-> sp.place, asked |-> sp.asked])
              EXCEPT !.asked = Unwritten]
  /\ spDone' = <<>>

(* rsp_end_of_dma_event, the handler of RSP_DMA_EVT.                       *)
RspEndOfDma ==
  /\ sp.events > 0
  /\ sp' = SpFifoPop([sp EXCEPT !.events = @ - 1])
  /\ spDone' = <<sp.fifo0>>

(* poweron_rsp.                                                            *)
SpPowerOn == sp' = SpReset /\ spDone' = <<>>

(* nmi_int_handler: init_interrupt drops RSP_DMA_EVT, nothing else changes.*)
SpNmi == sp' = [sp EXCEPT !.events = 0] /\ spDone' = <<>>

SpNext ==
  \/ \E p \in Places : WriteSpAddr(p)
  \/ \E dir \in {"read", "write"} : WriteSpLen(dir)
  \/ RspEndOfDma

(* A step of another component.                                            *)
SpOther == sp' = sp /\ spDone' = <<>>

-----------------------------------------------------------------------------
(* Properties.                                                             *)

SpStates ==
  [status : SUBSET {"BUSY", "FULL"}, fifo0 : SpRequests, fifo1 : SpRequests,
   place : Places, asked : Places \cup {Unwritten}, events : Nat]

SpTypeOK ==
  /\ sp \in SpStates
  /\ spDone \in Seq(SpRequests)

(* The engine is busy as long as RSP_DMA_EVT is queued, once: a second one *)
(* would start the transfer that waits too early, and none would leave the *)
(* program polling SP_DMA_BUSY_REG for ever.                               *)
SpBusyServed ==
  /\ sp.events = IF "BUSY" \in sp.status THEN 1 ELSE 0
  /\ "FULL" \in sp.status => "BUSY" \in sp.status

(* The engine holds two transfers, carried out in order, each at the       *)
(* addresses that were written for it, although the end of the first       *)
(* transfer and the start of the second change the registers.              *)
SpQueue == INSTANCE DmaQueue WITH
  Transfers <- {t \in SpRequests : t.asked \in {t.place, Unwritten}},
  Capacity <- 2,
  queue <- IF "FULL" \in sp.status THEN <<sp.fifo0, sp.fifo1>>
           ELSE IF "BUSY" \in sp.status THEN <<sp.fifo0>> ELSE <<>>,
  done <- spDone
SpQueueSpec == SpQueue!Spec
=============================================================================
