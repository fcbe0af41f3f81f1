------------------------- MODULE PeripheralInterface -------------------------
(***************************************************************************)
(* The peripheral interface (PI), which the program drives in three ways:  *)
(* DMA between RDRAM and the cartridge, and single stores to the ROM or to *)
(* the save memory of the cartridge (domain 2: SRAM, FlashRAM, disk ROM).  *)
(* Each of them makes the PI busy and queues a PI_INT that ends it. The    *)
(* bytes are moved when the request is made and are left out, and so are   *)
(* the durations: PI_INT is dispatched at any time after it is queued.     *)
(***************************************************************************)
EXTENDS Naturals

CONSTANT MAX_PI    (* bound: PI_INT events queued                          *)

ASSUME PiAssumption == MAX_PI \in Nat \ {0}

VARIABLES
  pi,          (* PI_STATUS_REG and the number of PI_INT queued            *)
  piLine       (* MI_INTR_PI                                               *)

piVars == <<pi, piLine>>

PiBusy == {"DMA_BUSY", "IO_BUSY"} \cap pi.status

-----------------------------------------------------------------------------
PiInit ==
  /\ pi = [status |-> {}, events |-> 0]
  /\ piLine = FALSE

(* Make the PI busy and queue the PI_INT that ends the request.            *)
StartPi(bit) ==
  /\ pi.events < MAX_PI
  /\ pi' = [pi EXCEPT !.status = @ \cup {bit}, !.events = @ + 1]
  /\ piLine' = piLine

(* validate_pi_request: a busy PI ignores the request.                     *)
RejectPi ==
  /\ PiBusy # {}
  /\ pi' = [pi EXCEPT !.status = @ \cup {"ERROR"}]
  /\ piLine' = piLine

(* dma_pi_read and dma_pi_write: stores to PI_RD_LEN_REG, PI_WR_LEN_REG.   *)
DmaPi == RejectPi \/ (PiBusy = {} /\ StartPi("DMA_BUSY"))

(* write_cart_rom: the value stored can be read back once.                 *)
WriteCartRom == RejectPi \/ (PiBusy = {} /\ StartPi("IO_BUSY"))

(* write_cart_dom2 and write_dd_rom do not look whether the PI is busy.    *)
WriteCartDom2 == StartPi("IO_BUSY")

(* read_cart_rom while a store is in progress: it ends without PI_INT, the *)
(* first one in the queue is removed, whichever request it belongs to.     *)
ReadCartRom ==
  /\ "IO_BUSY" \in pi.status
  /\ pi' = [status |-> pi.status \ {"IO_BUSY"},
            events |-> IF pi.events > 0 THEN pi.events - 1 ELSE 0]
  /\ piLine' = piLine

(* write_pi_regs, PI_STATUS_REG: acknowledge, then reset. A reset does not *)
(* cancel the PI_INT of the request it forgets.                            *)
WritePiStatus(clear, reset) ==
  /\ pi' = [pi EXCEPT !.status = IF reset THEN {}
                                 ELSE IF clear THEN @ \ {"INTERRUPT"} ELSE @]
  /\ piLine' = (piLine /\ ~clear)

(* pi_end_of_dma_event, the handler of PI_INT.                             *)
PiEndOfDma ==
  /\ pi.events > 0
  /\ pi' = [status |-> (pi.status \ {"DMA_BUSY", "IO_BUSY"}) \cup {"INTERRUPT"},
            events |-> pi.events - 1]
  /\ piLine' = TRUE

(* poweron_pi, and the boot code of nmi_int_handler, which resets the PI   *)
(* and acknowledges it before init_interrupt drops PI_INT.                 *)
PiReset ==
  /\ pi' = [status |-> {}, events |-> 0]
  /\ piLine' = FALSE

PiNext ==
  \/ DmaPi \/ WriteCartRom \/ WriteCartDom2 \/ ReadCartRom \/ PiEndOfDma
  \/ \E clear, reset \in BOOLEAN : WritePiStatus(clear, reset)

-----------------------------------------------------------------------------
(* Properties.                                                             *)

PiTypeOK ==
  /\ pi \in [status : SUBSET {"DMA_BUSY", "IO_BUSY", "INTERRUPT", "ERROR"},
             events : 0 .. MAX_PI]
  /\ piLine \in BOOLEAN

(* Each busy bit has a PI_INT of its own in the queue. The bits outlive    *)
(* everything but PI_INT and a reset, stores to the save memory come while *)
(* a DMA is in progress, and reading a stored value back removes the first *)
(* PI_INT, which may be that of the DMA: the other one must still be there *)
(* or every later request is rejected.                                     *)
PiBusyServed ==
  /\ "DMA_BUSY" \in pi.status => pi.events > 0
  /\ "IO_BUSY" \in pi.status => pi.events > 0
  /\ PiBusy = {"DMA_BUSY", "IO_BUSY"} => pi.events > 1
=============================================================================
