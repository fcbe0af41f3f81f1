--------------------------- MODULE SerialInterface ---------------------------
(***************************************************************************)
(* The serial interface (SI): it copies blocks of 64 bytes between RDRAM   *)
(* and the PIF RAM. A write hands the PIF a block of commands, copied when *)
(* the transfer starts and processed when SI_INT ends it; a read makes the *)
(* PIF carry out the commands when it starts and stores the answer when it *)
(* ends, at the address SI_DRAM_ADDR_REG holds by then.                    *)
(*                                                                         *)
(* A block is a command of the program or the answer to one. The address   *)
(* register counts in blocks; its 32 bits reach beyond RDRAM, whose address*)
(* lines leave the upper ones out. SI_INT is dispatched at any time after  *)
(* it is queued: EventQueue and R4300Interrupt say when.                   *)
(***************************************************************************)
EXTENDS Naturals, Sequences

CONSTANTS
  COMMANDS,    (* joybus commands                                          *)
  NoCommand,   (* not a command: RAM never written                         *)
  DRAM_BLOCKS, (* blocks that the address lines of RDRAM tell apart        *)
  ADDR_BLOCKS, (* range of SI_DRAM_ADDR_REG in blocks                      *)
  POLITE,      (* programs wait for the end of a transfer before they write*)
               (* SI_DRAM_ADDR_REG or the PIF RAM                          *)
  MAX_SI       (* bound: SI_INT events queued by stores to the PIF RAM     *)

ASSUME SiAssumption ==
  /\ NoCommand \notin COMMANDS
  /\ DRAM_BLOCKS \in Nat \ {0}
  /\ ADDR_BLOCKS \in Nat \ {0}
  /\ POLITE \in BOOLEAN
  /\ MAX_SI \in Nat \ {0}

VARIABLES
  si,          (* SI_STATUS_REG, dma_dir, SI_DRAM_ADDR_REG, SI_INT queued  *)
  pif,         (* the PIF RAM and the command its channels are set up for  *)
  dram,        (* RDRAM                                                    *)
  siLine,      (* MI_INTR_SI                                               *)
  siDone       (* history: the transfer this step ended, if any            *)

siVars == <<si, pif, dram, siLine, siDone>>

Registers == 0 .. ADDR_BLOCKS - 1
Addresses == 0 .. DRAM_BLOCKS - 1

(* rdram_dram_address: where in RDRAM a register points to.                *)
DramAddress(r) == r % DRAM_BLOCKS

Command(c) == [cmd |-> c, answered |-> FALSE]
Answer(c)  == [cmd |-> c, answered |-> TRUE]
Empty      == Command(NoCommand)
Blocks     == [cmd : COMMANDS \cup {NoCommand}, answered : BOOLEAN]

SiBusy == {"DMA_BUSY", "IO_BUSY"} \cap si.status # {}

SiTransfers == [dir : {"write", "read"}, addr : Addresses, block : Blocks]

(* A transfer as the program sees it: the block a write hands to the PIF,  *)
(* the block and the address a read stores.                                *)
WriteOf(block)   == [dir |-> "write", addr |-> 0, block |-> block]
ReadOf(a, block) == [dir |-> "read", addr |-> a, block |-> block]
InProgress ==
  IF ~SiBusy THEN <<>>
  ELSE IF si.dir = "read" THEN <<ReadOf(DramAddress(si.addr), pif.ram)>> ELSE <<WriteOf(pif.ram)>>

-----------------------------------------------------------------------------
SiReset == [status |-> {}, dir |-> "none", addr |-> 0, events |-> 0]

SiInit ==
  /\ si = SiReset
  /\ pif = [ram |-> Empty, channels |-> NoCommand]
  /\ dram = [a \in Addresses |-> Empty]
  /\ siLine = FALSE
  /\ siDone = <<>>

(* The program puts a command into RDRAM.                                  *)
Prepare(a, c) ==
  /\ dram' = [dram EXCEPT ![a] = Command(c)]
  /\ UNCHANGED <<si, pif, siLine>>
  /\ siDone' = <<>>

SetDramAddr(r) ==
  /\ POLITE => ~SiBusy
  /\ si' = [si EXCEPT !.addr = r]
  /\ UNCHANGED <<pif, dram, siLine>>
  /\ siDone' = <<>>

(* copy_pif_rdram moves SI_DRAM_ADDR_REG to the next block.                *)
Advanced(r) == (r + 1) % ADDR_BLOCKS

(* dma_si_write and dma_si_read: a wrong PIF address is ignored, a request *)
(* made while a transfer is in progress is an error and is ignored.        *)
Rejected == "DMA_BUSY" \in si.status
Reject   == si' = [si EXCEPT !.status = @ \cup {"DMA_ERROR"}]

Started(dir) == [si EXCEPT !.status = @ \cup {"DMA_BUSY"}, !.dir = dir, !.events = @ + 1]

DmaSiWrite ==
  /\ \/ Rejected /\ Reject /\ pif' = pif
     \/ /\ ~Rejected
        /\ si' = [Started("write") EXCEPT !.addr = Advanced(@)]
        /\ pif' = [pif EXCEPT !.ram = dram[DramAddress(si.addr)]]
  /\ UNCHANGED <<dram, siLine>>
  /\ siDone' = <<>>

(* update_pif_ram: the devices on the channels answer.                     *)
Answered == IF pif.channels = NoCommand THEN pif.ram ELSE Answer(pif.channels)

BadDmaSiRead ==
  /\ si' = Started("read")
  /\ pif' = [pif EXCEPT !.ram = Answered]
  /\ UNCHANGED <<dram, siLine>>
  /\ siDone' = <<>>

DmaSiRead ==
  /\ \/ Rejected /\ Reject /\ pif' = pif
     \/ /\ ~Rejected
        /\ si' = Started("read")
        /\ pif' = [pif EXCEPT !.ram = Answered]
  /\ UNCHANGED <<dram, siLine>>
  /\ siDone' = <<>>

(* write_pif_mem: a store to the PIF RAM is a write transfer of its own,   *)
(* whatever the SI is doing.                                               *)
WritePifMem(c) ==
  /\ POLITE => ~SiBusy
  /\ si.events < MAX_SI
  /\ pif' = [pif EXCEPT !.ram = Command(c)]
  /\ si' = [si EXCEPT !.status = @ \cup {"DMA_BUSY", "IO_BUSY"},
                      !.dir = "write", !.events = @ + 1]
  /\ UNCHANGED <<dram, siLine>>
  /\ siDone' = <<>>

WriteSiStatus ==
  /\ si' = [si EXCEPT !.status = @ \ {"INTERRUPT"}]
  /\ siLine' = FALSE
  /\ UNCHANGED <<pif, dram>>
  /\ siDone' = <<>>

(* process_pif_ram: only a block whose format flag is still set, which an  *)
(* answer has not, sets the channels up.                                   *)
Processed(p) ==
  IF p.ram.answered \/ p.ram.cmd = NoCommand THEN p ELSE [p EXCEPT !.channels = p.ram.cmd]

(* si_end_of_dma_event, the handler of SI_INT.                             *)
SiDispatched(cleared) ==
  /\ si.events > 0
  /\ si' = [si EXCEPT !.status = (@ \ cleared) \cup {"INTERRUPT"},
                      !.dir = "none", !.events = @ - 1,
                      !.addr = IF si.dir = "read" THEN Advanced(@) ELSE @]
  /\ pif' = IF si.dir = "write" THEN Processed(pif) ELSE pif
  /\ dram' = IF si.dir = "read" THEN [dram EXCEPT ![DramAddress(si.addr)] = pif.ram] ELSE dram
  /\ siLine' = TRUE
  /\ siDone' = CASE si.dir = "write" -> <<WriteOf(pif.ram)>>
                 [] si.dir = "read"  -> <<ReadOf(DramAddress(si.addr), dram'[DramAddress(si.addr)])>>
                 [] OTHER            -> <<>>

SiEndOfDma == SiDispatched({"DMA_BUSY", "IO_BUSY"})

(* poweron_si, poweron_pif and poweron_rdram.                              *)
SiPowerOn ==
  /\ si' = SiReset
  /\ pif' = [ram |-> Empty, channels |-> NoCommand]
  /\ dram' = [a \in Addresses |-> Empty]
  /\ siLine' = FALSE
  /\ siDone' = <<>>

(* nmi_int_handler: reset_pif disables the channels and overwrites parts   *)
(* of the PIF RAM, the flags included, so that no command is left in it;   *)
(* init_interrupt drops SI_INT; nothing touches the SI.                    *)
SiNmi ==
  /\ si' = [si EXCEPT !.events = 0]
  /\ pif' = [ram |-> Empty, channels |-> NoCommand]
  /\ UNCHANGED <<dram, siLine>>
  /\ siDone' = <<>>

SiNext ==
  \/ \E a \in Addresses, c \in COMMANDS : Prepare(a, c)
  \/ \E r \in Registers : SetDramAddr(r)
  \/ \E c \in COMMANDS : WritePifMem(c)
  \/ DmaSiWrite \/ DmaSiRead \/ WriteSiStatus \/ SiEndOfDma

(* A step of another component.                                            *)
SiOther == UNCHANGED <<si, pif, dram, siLine>> /\ siDone' = <<>>

-----------------------------------------------------------------------------
(* Properties.                                                             *)

SiTypeOK ==
  /\ si \in [status : SUBSET {"DMA_BUSY", "IO_BUSY", "DMA_ERROR", "INTERRUPT"},
             dir : {"none", "write", "read"}, addr : Registers, events : Nat]
  /\ pif \in [ram : Blocks, channels : COMMANDS \cup {NoCommand}]
  /\ dram \in [Addresses -> Blocks]
  /\ siLine \in BOOLEAN
  /\ siDone \in Seq(SiTransfers)

(* The only thing that clears the busy bits is SI_INT, and a busy SI       *)
(* rejects every request: a busy bit without an SI_INT in the queue would  *)
(* leave the program without its controllers for ever. (Of programs that   *)
(* let their transfers end before a soft reset, see SiNmi.)                *)
SiBusyServed == SiBusy => si.events > 0

(* The SI is a DMA engine with room for one transfer: what SI_INT carries  *)
(* out is the transfer as it was submitted, although the address is read   *)
(* from the register and the block from the PIF RAM only then.             *)
SiQueue == INSTANCE DmaQueue WITH
  Transfers <- SiTransfers, Capacity <- 1, queue <- InProgress, done <- siDone
SiQueueSpec == SiQueue!Spec
=============================================================================
