--------------------------- MODULE SignalProcessor ---------------------------
(***************************************************************************)
(* The signal processor (RSP) and the command interface of the display     *)
(* processor (RDP) as the core drives them. The RSP runs ahead of time: a  *)
(* call of the plugin executes a task at once, up to a point where the CPU *)
(* could notice, and what the task did - end, raise SP, complete a frame - *)
(* is shown to the CPU later, by SP_INT and DP_INT. Until then rsp_wait    *)
(* says what the RSP waits for, rsp_status holds the hidden status, and    *)
(* the lines of the MI are as they were.                                   *)
(*                                                                         *)
(* Abstracted: what the microcode computes. It polls the status, clears    *)
(* BROKE, sets or clears INTR_BREAK, ends with BREAK, halts itself, raises *)
(* or acknowledges SP, freezes or unfreezes the RDP, or sends it a list    *)
(* with a SYNC_FULL. The signal bits are left out.                         *)
(***************************************************************************)
EXTENDS Naturals, FiniteSets

CONSTANTS
  PATIENT,   (* programs neither halt nor start the RSP while its interrupt*)
             (* is on its way, and start it with BROKE cleared             *)
  QUIET,     (* programs let SP_INT and DP_INT come before the NMI of a    *)
             (* soft reset, which HW2_INT announces half a second earlier  *)
  CPU_UNFREEZES, (* where an interrupt of the RDP is noted, the CPU ends the*)
             (* freeze: the microcode can end it as well, but what is noted*)
             (* stays undelivered then until the CPU ends a freeze         *)
  MAX_DP,    (* bound: DP_INT events pending when the CPU sends a list     *)
  MAX_COMMANDS  (* bound: commands in one store to SP_STATUS_REG           *)

ASSUME SpAssumption ==
  /\ {PATIENT, QUIET, CPU_UNFREEZES} \subseteq BOOLEAN
  /\ MAX_DP \in Nat \ {0}
  /\ MAX_COMMANDS \in Nat

VARIABLE rcp   (* the registers of SP, DP and MI and their part of the     *)
               (* event queue, see RcpStates                               *)

Events == {"SP_INT", "DP_INT", "RSP_TSK_EVT"}
StatusBits == {"HALT", "BROKE", "INTR_BREAK"}
Waits == {"HALTED", "SP_INT", "SP_INT_BROKE", "DP_SYNC"}

(* WAIT_PENDING_SP_INT and WAIT_PENDING_SP_INT_BROKE.                      *)
PendingSp == {"SP_INT", "SP_INT_BROKE"}

PowerOnState ==
  [status  |-> {"HALT"},                  (* SP_STATUS_REG                 *)
   saved   |-> {},                        (* rsp_status                    *)
   wait    |-> {},                        (* rsp_wait                      *)
   first   |-> TRUE,                      (* first_run                     *)
   queue   |-> [e \in Events |-> 0],      (* the events queued             *)
   line    |-> {},                        (* MI_INTR_SP, MI_INTR_DP        *)
   unsafe  |-> {},                        (* interrupt_unsafe_state        *)
   freeze  |-> FALSE,                     (* DPC_STATUS_FREEZE             *)
   delayed |-> FALSE]                     (* DELAY_DP_INT                  *)

Enqueue(q, e) == [q EXCEPT ![e] = @ + 1]
Dequeue(q, e) == [q EXCEPT ![e] = IF @ = 0 THEN 0 ELSE @ - 1]
When(b, x) == IF b THEN {x} ELSE {}

-----------------------------------------------------------------------------
(* DoRspCycles, the plugin: it runs the RSP unless it is halted, and       *)
(* returns when the RSP halts or the CPU is to be let in.                  *)
Exits(status, line) ==
  {[status |-> status, line |-> l] : l \in {line, line \cup {"SP"}, line \cup {"DP"}}}
    \cup {[status |-> status \cup {"HALT"}, line |-> l] : l \in {line, line \cup {"SP"}}}
    \cup {[status |-> status \cup {"HALT", "BROKE"}, line |-> line]}

(* What the microcode makes of the status and of the lines on its way, and *)
(* of the freeze.                                                          *)
OnTheWay(status) == {u \in SUBSET StatusBits : "HALT" \notin u /\ u \ {"INTR_BREAK"} \subseteq status}
Freezes(s) == IF CPU_UNFREEZES /\ s.delayed /\ s.freeze THEN {TRUE} ELSE BOOLEAN

Runs(s) ==
  {x \in [status : SUBSET StatusBits, line : SUBSET {"SP", "DP"}] :
     \E u \in OnTheWay(s.status), l \in {s.line, s.line \ {"SP"}} : x \in Exits(u, l)}

Left(x, freeze) == [status |-> x.status, line |-> x.line, freeze |-> freeze]

DoRspCycles(s) ==
  IF "HALT" \in s.status THEN {Left(s, s.freeze)}
  ELSE {Left(x, f) : x \in Runs(s), f \in Freezes(s)}

(* What do_SP_Task makes of x, what the plugin left. The lines the RSP has *)
(* raised are taken back until their event is dispatched.                  *)
Sync(s, x) == "DP" \in x.line \ s.line
Broke(x)   == {"BROKE", "INTR_BREAK"} \subseteq x.status
Irq(s, x)  == ~Broke(x) /\ "SP" \in x.line \ s.line

(* What it makes the RSP wait for.                                         *)
BadWaitsFor(s, x) ==
  When(Sync(s, x), "DP_SYNC") \cup When(Broke(x), "SP_INT_BROKE") \cup When(Irq(s, x), "SP_INT")

WaitsFor(s, x) ==
  When("HALT" \in x.status, "HALTED") \cup When(Sync(s, x), "DP_SYNC")
    \cup When(Broke(x), "SP_INT_BROKE") \cup When(Irq(s, x), "SP_INT")

(* The status it leaves in the register.                                   *)
BadShown(s, x) == x.status

Shown(s, x) == IF Broke(x) THEN s.status ELSE x.status

Queued(s, x) ==
  When("HALT" \notin x.status, "RSP_TSK_EVT") \cup When(Sync(s, x) /\ ~x.freeze, "DP_INT")
    \cup When(Broke(x) \/ Irq(s, x), "SP_INT")

Ended(s, x) ==
  [s EXCEPT !.status = Shown(s, x),
            !.saved = x.status,
            !.wait = WaitsFor(s, x),
            !.first = "HALT" \in x.status,
            !.queue = [e \in Events |-> IF e \in Queued(s, x) THEN @[e] + 1 ELSE @[e]],
            !.line = x.line \cap s.line,
            !.unsafe = @ \cup {"RSP"} \cup When(Sync(s, x), "RDP"),
            !.freeze = x.freeze,
            !.delayed = @ \/ (Sync(s, x) /\ x.freeze)]

(* do_SP_Task.                                                             *)
BadDoSpTask(s) ==
  IF s.wait # {} THEN {s} ELSE {Ended(s, x) : x \in DoRspCycles(s)}

DoSpTask(s) ==
  IF s.wait # {} \/ s.queue["RSP_TSK_EVT"] > 0 THEN {s}
  ELSE {Ended(s, x) : x \in DoRspCycles(s)}

(* clear_rsp_wait.                                                         *)
BadClearRspWait(s, w) == {[s EXCEPT !.wait = @ \ w]}

ClearRspWait(s, w) == DoSpTask([s EXCEPT !.wait = @ \ w])

-----------------------------------------------------------------------------
(* poweron_device, then the boot code, which halts the RSP.                *)
Booted == [PowerOnState EXCEPT !.wait = {"HALTED"}]

Init == rcp = Booted

(* A store to SP_STATUS_REG: w is the set of commands in the word stored.  *)
SpCommands == {"CLR_HALT", "SET_HALT", "CLR_BROKE", "CLR_INTR", "SET_INTR",
               "CLR_INTR_BREAK", "SET_INTR_BREAK"}
Words == {w \in SUBSET SpCommands : Cardinality(w) <= MAX_COMMANDS}
Only(w, c, d) == c \in w /\ d \notin w

Halted(s, w) ==
  CASE Only(w, "CLR_HALT", "SET_HALT") ->
         [s EXCEPT !.wait = @ \ {"HALTED"}, !.status = @ \ {"HALT"}]
    [] Only(w, "SET_HALT", "CLR_HALT") ->
         [s EXCEPT !.queue = Dequeue(@, "SP_INT"), !.saved = {}, !.first = TRUE,
                   !.wait = @ \cup {"HALTED"}, !.status = @ \cup {"HALT"}]
    [] OTHER -> s

BrokeCleared(s, w) == IF "CLR_BROKE" \in w THEN [s EXCEPT !.status = @ \ {"BROKE"}] ELSE s

LineWritten(s, w) ==
  CASE Only(w, "CLR_INTR", "SET_INTR") -> [s EXCEPT !.line = @ \ {"SP"}]
    [] Only(w, "SET_INTR", "CLR_INTR") -> [s EXCEPT !.line = @ \cup {"SP"}]
    [] OTHER -> s

(* A task whose SP_INT is pending has ended without it if the program      *)
(* clears INTR_BREAK first.                                                *)
BadIntrBreakWritten(s, w) ==
  CASE Only(w, "CLR_INTR_BREAK", "SET_INTR_BREAK") ->
         [s EXCEPT !.status = @ \ {"INTR_BREAK"}, !.queue = Dequeue(@, "SP_INT")]
    [] Only(w, "SET_INTR_BREAK", "CLR_INTR_BREAK") ->
         [s EXCEPT !.status = @ \cup {"INTR_BREAK"}]
    [] OTHER -> s

IntrBreakWritten(s, w) ==
  CASE Only(w, "CLR_INTR_BREAK", "SET_INTR_BREAK") /\ "SP_INT_BROKE" \in s.wait ->
         [s EXCEPT !.queue = Dequeue(@, "SP_INT"), !.wait = @ \ {"SP_INT_BROKE"},
                   !.status = s.saved \ {"INTR_BREAK"}, !.saved = {}]
    [] Only(w, "CLR_INTR_BREAK", "SET_INTR_BREAK") /\ "SP_INT_BROKE" \notin s.wait ->
         [s EXCEPT !.status = @ \ {"INTR_BREAK"}]
    [] Only(w, "SET_INTR_BREAK", "CLR_INTR_BREAK") ->
         [s EXCEPT !.status = @ \cup {"INTR_BREAK"}]
    [] OTHER -> s

(* What PATIENT asks of a program.                                         *)
Patient(s, w) ==
  /\ {"CLR_HALT", "SET_HALT"} \cap w # {} => s.wait \cap PendingSp = {}
  /\ "CLR_HALT" \in w /\ "BROKE" \in s.status => "CLR_BROKE" \in w

UpdateSpStatus(w) ==
  /\ PATIENT => Patient(rcp, w)
  /\ rcp' \in DoSpTask(IntrBreakWritten(LineWritten(BrokeCleared(Halted(rcp, w), w), w), w))

(* rsp_interrupt_event, the handler of SP_INT.                             *)
RspInterruptEvent ==
  /\ rcp.queue["SP_INT"] > 0
  /\ rcp' \in ClearRspWait([rcp EXCEPT !.queue = Dequeue(@, "SP_INT"), !.status = rcp.saved,
                                       !.saved = {}, !.unsafe = @ \ {"RSP"},
                                       !.line = @ \cup {"SP"}], PendingSp)

(* rsp_task_event, the handler of RSP_TSK_EVT.                             *)
RspTaskEvent ==
  /\ rcp.queue["RSP_TSK_EVT"] > 0
  /\ rcp' \in DoSpTask([rcp EXCEPT !.queue = Dequeue(@, "RSP_TSK_EVT")])

-----------------------------------------------------------------------------
(* write_dpc_regs, DPC_END_REG: the CPU sends the RDP a list. A DP line    *)
(* that is set, by this list or since before it, is taken back.            *)
ListSent(s) ==
  [s EXCEPT !.line = @ \ {"DP"}, !.unsafe = @ \cup {"RDP"},
            !.delayed = @ \/ s.freeze,
            !.queue = IF s.freeze THEN @ ELSE Enqueue(@, "DP_INT")]

WriteDpcEnd ==
  /\ rcp.queue["DP_INT"] < MAX_DP
  /\ \E sync \in BOOLEAN :
       rcp' = IF sync \/ "DP" \in rcp.line THEN ListSent(rcp) ELSE rcp

(* update_dpc_status: a store to DPC_STATUS_REG.                           *)
BadUnfrozen(s) == {[s EXCEPT !.freeze = FALSE, !.delayed = FALSE]}

Unfrozen(s) ==
  IF ~s.delayed THEN {[s EXCEPT !.freeze = FALSE]}
  ELSE {[t EXCEPT !.delayed = FALSE] :
          t \in ClearRspWait([s EXCEPT !.freeze = FALSE, !.unsafe = @ \ {"RDP"},
                                       !.line = @ \cup {"DP"}], {"DP_SYNC"})}

UpdateDpcStatus(w) ==
  \E s \in IF "CLR_FREEZE" \in w THEN Unfrozen(rcp) ELSE {rcp} :
    rcp' = IF "SET_FREEZE" \in w THEN [s EXCEPT !.freeze = TRUE] ELSE s

(* rdp_interrupt_event, the handler of DP_INT.                             *)
RdpInterruptEvent ==
  /\ rcp.queue["DP_INT"] > 0
  /\ rcp' \in ClearRspWait([rcp EXCEPT !.queue = Dequeue(@, "DP_INT"),
                                       !.unsafe = @ \ {"RDP"},
                                       !.line = @ \cup {"DP"}], {"DP_SYNC"})

(* write_mi_regs, MI_INIT_MODE_REG: the program acknowledges DP.           *)
AcknowledgeDp == rcp' = [rcp EXCEPT !.line = @ \ {"DP"}]

(* gen_interrupt with reset_hard_job, which waits until nothing is unsafe. *)
ResetHardHandler == rcp.unsafe = {} /\ rcp' = Booted

(* nmi_int_handler: the boot code halts the RSP and clears SP, then        *)
(* init_interrupt empties the event queue; everything else stays.          *)
NmiHandler ==
  /\ QUIET => rcp.wait \cap {"SP_INT", "SP_INT_BROKE", "DP_SYNC"} = {} /\ "RDP" \notin rcp.unsafe
  /\ rcp' = [LineWritten(Halted(rcp, {"SET_HALT"}), {"CLR_INTR"}) EXCEPT
               !.queue = [e \in Events |-> 0]]

Next ==
  \/ \E w \in Words : UpdateSpStatus(w)
  \/ RspInterruptEvent \/ RspTaskEvent
  \/ WriteDpcEnd
  \/ \E w \in SUBSET {"CLR_FREEZE", "SET_FREEZE"} : UpdateDpcStatus(w)
  \/ RdpInterruptEvent \/ AcknowledgeDp
  \/ ResetHardHandler \/ NmiHandler

Spec == Init /\ [][Next]_rcp

(* COUNT advances for ever, so that a queued event is dispatched.          *)
Fairness ==
  /\ WF_rcp(RspInterruptEvent) /\ WF_rcp(RspTaskEvent) /\ WF_rcp(RdpInterruptEvent)
FairSpec == Spec /\ Fairness

-----------------------------------------------------------------------------
(* Properties.                                                             *)

RcpStates ==
  [status : SUBSET StatusBits, saved : SUBSET StatusBits, wait : SUBSET Waits,
   first : BOOLEAN, queue : [Events -> Nat], line : SUBSET {"SP", "DP"},
   unsafe : SUBSET {"RSP", "RDP"}, freeze : BOOLEAN, delayed : BOOLEAN]

(* Of the events of the RSP at most one of each kind is ever queued: two   *)
(* SP_INT for one task would be two interrupts.                            *)
TypeOK ==
  /\ rcp \in RcpStates
  /\ rcp.queue["SP_INT"] <= 1 /\ rcp.queue["RSP_TSK_EVT"] <= 1

(* Whatever the RSP waits for, or a savestate has to wait for, is on its   *)
(* way: the event is queued or the RDP is frozen with its interrupt noted. *)
(* A note that outlives its freeze is delivered by nothing.                *)
WaitsServed ==
  /\ rcp.wait \cap PendingSp # {} => rcp.queue["SP_INT"] > 0
  /\ ("DP_SYNC" \in rcp.wait \/ "RDP" \in rcp.unsafe) =>
        rcp.queue["DP_INT"] > 0 \/ (rcp.delayed /\ rcp.freeze)

(* An RSP that is running as far as its registers say is run again by an   *)
(* event or by the end of a freeze: no order of tasks, syncs, freezes and  *)
(* stores to SP_STATUS_REG makes it stall.                                 *)
NeverStalls ==
  "HALT" \notin rcp.status =>
    \/ \E e \in Events : rcp.queue[e] > 0
    \/ rcp.delayed /\ rcp.freeze

(* The RSP runs ahead, but the program sees the end of a task that asks    *)
(* for an interrupt, the BROKE bit, no earlier than the interrupt.         *)
EndSeenWithInterrupt ==
  [][("BROKE" \notin rcp.status /\ {"BROKE", "INTR_BREAK"} \subseteq rcp'.status)
       => "SP" \in rcp'.line]_rcp

(* One interrupt for one task: a program that sees the task ended has no   *)
(* further SP_INT to expect from it.                                       *)
OneInterrupt == {"HALT", "BROKE"} \subseteq rcp.status => rcp.queue["SP_INT"] = 0

(* The interrupt of a task that has ended is raised; the RDP, which keeps  *)
(* savestates and resets waiting, completes unless it is frozen.           *)
Completes ==
  /\ ("SP_INT_BROKE" \in rcp.wait) ~> ("SP_INT_BROKE" \notin rcp.wait)
  /\ ("RDP" \in rcp.unsafe) ~> ("RDP" \notin rcp.unsafe \/ (rcp.delayed /\ rcp.freeze))
=============================================================================
