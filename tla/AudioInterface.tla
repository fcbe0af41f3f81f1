--------------------------- MODULE AudioInterface ---------------------------
(***************************************************************************)
(* The audio interface (AI): a queue of two buffers in RDRAM. AI_INT ends  *)
(* the first one. Samples go to the audio back end as late as possible: a  *)
(* read of AI_LEN_REG, which tells how much is left, pushes what was       *)
(* played since the last read, and AI_INT pushes the rest. last_read is    *)
(* what was left at the last push.                                         *)
(*                                                                         *)
(* A buffer is an address and a length in units of 8 bytes; time advances  *)
(* by the time one unit takes. The addition of 0x2000 to the address after *)
(* a buffer that ended on such a boundary (delayed_carry) is left out.     *)
(***************************************************************************)
EXTENDS Naturals, Sequences

CONSTANTS
  ADDRESSES,   (* where buffers are                                        *)
  MAX_LEN,     (* bound: the longest buffer                                *)
  RATES,       (* values of AI_DACRATE_REG; 0 after power-on               *)
  PLUGIN_RATE  (* frequency the back end starts with, see SetFrequency     *)

ASSUME AiAssumption ==
  /\ ADDRESSES # {}
  /\ MAX_LEN \in Nat
  /\ RATES \subseteq Nat \ {0}
  /\ PLUGIN_RATE \in Nat

VARIABLES
  ai,          (* registers, buffers, AI_INT: see AiTypeOK                 *)
  aiLine,      (* MI_INTR_AI                                               *)
  aout         (* the audio back end: its frequency, and the samples this  *)
               (* step pushed to it                                        *)

aiVars == <<ai, aiLine, aout>>

Buffers == [addr : ADDRESSES, len : 0 .. MAX_LEN]
NoBuffer == [addr |-> CHOOSE a \in ADDRESSES : TRUE, len |-> 0]
NoEvent  == MAX_LEN + 1          (* no AI_INT is queued                    *)

(* push_samples of the last n units but m of the first buffer.             *)
Pushed(n, m) ==
  LET b == ai.fifo0
  IN  IF n = m THEN <<>> ELSE <<[addr |-> b.addr, from |-> b.len - n, to |-> b.len - m]>>

-----------------------------------------------------------------------------
AiReset == [status |-> {}, fifo0 |-> NoBuffer, fifo1 |-> NoBuffer, last |-> 0,
            event |-> NoEvent, rate |-> 0, changed |-> FALSE]

AiInit ==
  /\ ai = AiReset
  /\ aiLine = FALSE
  /\ aout = [rate |-> PLUGIN_RATE, pushed |-> <<>>]

(* do_dma: the sample format is passed on with the first buffer that uses  *)
(* it; the end of the buffer is scheduled.                                 *)
DoDma(a, b) == [a EXCEPT !.fifo0 = b, !.last = b.len, !.event = b.len,
                         !.changed = FALSE]

Frequency(a) == IF a.changed THEN a.rate ELSE aout.rate

(* write_ai_regs, AI_LEN_REG: fifo_push.                                   *)
FifoPush(b) ==
  \/ /\ "BUSY" \in ai.status
     /\ ai' = [ai EXCEPT !.fifo1 = b, !.status = @ \cup {"FULL"}]
     /\ UNCHANGED aiLine
     /\ aout' = [aout EXCEPT !.pushed = <<>>]
  \/ /\ "BUSY" \notin ai.status
     /\ ai' = DoDma([ai EXCEPT !.status = @ \cup {"BUSY"}], b)
     /\ aiLine' = TRUE
     /\ aout' = [rate |-> Frequency(ai), pushed |-> <<>>]

(* get_remaining_dma_length: 0 once AI_INT is due or gone.                 *)
Remaining == IF ai.event = NoEvent THEN 0 ELSE ai.event

ReadAiLen ==
  LET left == IF Remaining < ai.last THEN Remaining ELSE ai.last
  IN  /\ ai' = [ai EXCEPT !.last = left]
      /\ aout' = [aout EXCEPT !.pushed = Pushed(ai.last, left)]
      /\ UNCHANGED aiLine

WriteAiStatus ==
  /\ aiLine' = FALSE
  /\ aout' = [aout EXCEPT !.pushed = <<>>]
  /\ UNCHANGED ai

BadWriteDacRate(r) ==
  /\ ai' = [ai EXCEPT !.rate = r, !.changed = r # ai.rate]
  /\ aout' = [aout EXCEPT !.pushed = <<>>]
  /\ UNCHANGED aiLine

WriteDacRate(r) ==
  /\ ai' = [ai EXCEPT !.rate = r, !.changed = @ \/ r # ai.rate]
  /\ aout' = [aout EXCEPT !.pushed = <<>>]
  /\ UNCHANGED aiLine

(* COUNT advances.                                                         *)
Tick ==
  /\ Remaining > 0
  /\ ai' = [ai EXCEPT !.event = @ - 1]
  /\ aout' = [aout EXCEPT !.pushed = <<>>]
  /\ UNCHANGED aiLine

(* ai_end_of_dma_event, the handler of AI_INT, with fifo_pop.              *)
BadFifoPop(a) ==
  IF "FULL" \in a.status
  THEN DoDma(a, a.fifo1)
  ELSE [a EXCEPT !.status = @ \ {"BUSY"}]

FifoPop(a) ==
  IF "FULL" \in a.status
  THEN DoDma([a EXCEPT !.status = @ \ {"FULL"}], a.fifo1)
  ELSE [a EXCEPT !.status = @ \ {"BUSY"}]

BadAiEndOfDma ==
  /\ ai.event = 0
  /\ ai' = FifoPop([ai EXCEPT !.event = NoEvent, !.last = 0])
  /\ aout' = [rate |-> IF "FULL" \in ai.status THEN Frequency(ai) ELSE aout.rate,
              pushed |-> <<>>]
  /\ aiLine' = TRUE

AiEndOfDma ==
  /\ ai.event = 0
  /\ ai' = FifoPop([ai EXCEPT !.event = NoEvent, !.last = 0])
  /\ aout' = [rate |-> IF "FULL" \in ai.status THEN Frequency(ai) ELSE aout.rate,
              pushed |-> Pushed(ai.last, 0)]
  /\ aiLine' = TRUE

(* poweron_ai; the event queue is empty after a hard reset.                *)
AiPowerOn ==
  /\ ai' = AiReset
  /\ aiLine' = FALSE
  /\ aout' = [aout EXCEPT !.pushed = <<>>]

(* nmi_int_handler clears AI_STATUS_REG and drops AI_INT.                  *)
AiNmi ==
  /\ ai' = [ai EXCEPT !.status = {}, !.event = NoEvent]
  /\ aout' = [aout EXCEPT !.pushed = <<>>]
  /\ UNCHANGED aiLine

AiNext ==
  \/ \E b \in Buffers : FifoPush(b)
  \/ \E r \in RATES : WriteDacRate(r)
  \/ ReadAiLen \/ WriteAiStatus \/ Tick \/ AiEndOfDma

(* A step of another component.                                            *)
AiOther == UNCHANGED <<ai, aiLine>> /\ aout' = [aout EXCEPT !.pushed = <<>>]

-----------------------------------------------------------------------------
(* Properties.                                                             *)

AiStates ==
  [status : SUBSET {"BUSY", "FULL"}, fifo0 : Buffers, fifo1 : Buffers,
   last : 0 .. MAX_LEN, event : 0 .. NoEvent, rate : RATES \cup {0}, changed : BOOLEAN]

AiTypeOK ==
  /\ ai \in AiStates
  /\ aiLine \in BOOLEAN
  /\ aout \in [rate : RATES \cup {PLUGIN_RATE},
               pushed : Seq([addr : ADDRESSES, from : 0 .. MAX_LEN, to : 0 .. MAX_LEN])]

(* The AI is busy exactly as long as an AI_INT is queued, and nothing is   *)
(* left of a buffer that was not there when it started: fifo_pop, reads in *)
(* between, and a reset that clears the one and drops the other, agree.    *)
AiBusyServed ==
  /\ "BUSY" \in ai.status <=> ai.event # NoEvent
  /\ "FULL" \in ai.status => "BUSY" \in ai.status
  /\ ai.last <= ai.fifo0.len

(* samples_format_changed is passed on lazily, by whichever do_dma comes   *)
(* first: once it has been, the back end plays at the rate of              *)
(* AI_DACRATE_REG, although the register may be written between the two    *)
(* buffers, while one plays, or twice in a row.                            *)
FormatPassedOn == ai.rate # 0 /\ ~ai.changed => aout.rate = ai.rate

(* Every sample of every buffer is pushed once and in order, although the  *)
(* pushes are split between reads of AI_LEN_REG and AI_INT.                *)
Holding == "BUSY" \in ai.status \/ ai.last # 0
Playing ==
  IF ~Holding THEN <<>>
  ELSE IF "FULL" \in ai.status THEN <<ai.fifo0, ai.fifo1>> ELSE <<ai.fifo0>>
Stream == INSTANCE AudioStream WITH
  playing <- Playing,
  pos <- IF Holding THEN ai.fifo0.len - ai.last ELSE 0,
  stopped <- "BUSY" \notin ai.status /\ ai.last # 0,
  out <- aout.pushed
StreamSpec == Stream!Spec
=============================================================================
