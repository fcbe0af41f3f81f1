--------------------------- MODULE R4300Interrupt ---------------------------
(***************************************************************************)
(* The R4300 as an interrupt machine: COUNT advances with the instructions *)
(* executed, devices queue events at future counts, the interpreter calls  *)
(* gen_interrupt at the end of a jump (and in a few instructions) when     *)
(* cycle_count is not negative, and the handlers raise the lines of the    *)
(* MIPS interface (MI), which may make the CPU take an exception.          *)
(*                                                                         *)
(* The data the instructions compute is abstracted, the program counter    *)
(* included: what is kept is when an instruction runs, in or out of a      *)
(* delay slot, and what it does to COUNT, the queue, the lines and STATUS. *)
(***************************************************************************)
EXTENDS EventQueue, FiniteSets

CONSTANTS
  DEVICES,     (* one-shot device events: PI_INT, SI_INT, SP_INT, DP_INT   *)
  REPEATABLE,  (* of those, the ones the code may queue twice              *)
  CANCELABLE,  (* of those, the ones removed with remove_event             *)
  SIGNALS,     (* MI lines a store may raise with signal_rcp_interrupt     *)
  DELAYS,      (* delays, in COUNT ticks, at which events are scheduled    *)
  VI_DELAY,    (* vi.delay                                                 *)
  STEPS,       (* COUNT ticks an instruction may take                      *)
  MAX_LATE,    (* ticks an event may be overdue when an instruction starts *)
  MAX_CHECKS,  (* bound: CHECK_INT events queued by signals                *)
  COUNT_WRITES, COMPARE_WRITES,   (* values written to COUNT and COMPARE   *)
  MASK_WRITES, (* values written to the MI mask                            *)
  IM_WRITES,   (* interrupt masks written to STATUS                        *)
  POWERON_COUNT, (* COUNT at power-on; 0x5000 in the program               *)
  TRAPS,       (* {TRUE} when instructions may raise exceptions            *)
  TASKS,       (* {TRUE} when the RSP may stop without an interrupt        *)
  NMI_DELAY,   (* from a soft reset to its NMI; 50000000 in the program    *)
  JOBS         (* requests of the front end: "save", "load", "hard", "soft"*)

ViEvent  == "VI_INT"
HW2Event == "HW2_INT"
NMIEvent == "NMI_INT"

Lines == DEVICES \cup {ViEvent}          (* bits of MI_INTR and its mask   *)
RCP   == "IP2"                           (* CP0_CAUSE_IP2, the RCP line    *)
Cart  == "IP4"                           (* CP0_CAUSE_IP4, HW2             *)
Timer == "IP7"                           (* CP0_CAUSE_IP7, the timer line  *)
IPs   == {RCP, Cart, Timer}
EventTypes == DEVICES \cup {ViEvent, CompareEvent, SpecialEvent, CheckEvent,
                            HW2Event, NMIEvent}

ASSUME InterruptAssumption ==
  /\ {ViEvent, CompareEvent, SpecialEvent, CheckEvent, HW2Event, NMIEvent}
       \cap DEVICES = {}
  /\ REPEATABLE \subseteq DEVICES
  /\ CANCELABLE \subseteq DEVICES
  /\ SIGNALS \subseteq DEVICES
  /\ DELAYS \subseteq Nat
  /\ VI_DELAY \in Nat
  /\ STEPS \subseteq Nat
  /\ MAX_LATE \in Nat
  /\ MAX_CHECKS \in Nat
  /\ COUNT_WRITES \subseteq Counts
  /\ COMPARE_WRITES \subseteq Counts
  /\ MASK_WRITES \subseteq SUBSET Lines
  /\ IM_WRITES \subseteq SUBSET IPs
  /\ POWERON_COUNT \in Counts
  /\ TRAPS \subseteq {TRUE}
  /\ TASKS \subseteq {TRUE}
  /\ NMI_DELAY \in Nat
  /\ JOBS \subseteq {"save", "load", "hard", "soft"}

VARIABLE dev    (* the device: CPU, coprocessor 0, MI and pending request  *)

(***************************************************************************)
(*   count, compare, cycle, q   see EventQueue                             *)
(*   ie, exl      the IE and EXL bits of STATUS                            *)
(*   im, ip       interrupt mask (STATUS) and pending lines (CAUSE)        *)
(*   slot         delay slot of a jump: "no", "pending" or "done"          *)
(*   skip         skip_jump is set                                         *)
(*   unsafe       interrupt_unsafe_state: "R4300" in a MTC0, "RSP" and     *)
(*                "RDP" while what they have done is not yet shown           *)
(*   goes_on      the RSP is not halted: it runs again in the handler of   *)
(*                its SP_INT                                                 *)
(*   intr, mask   MI_INTR_REG and MI_INTR_MASK_REG                         *)
(*   job          savestate job: "none", "load" or "save"                  *)
(*   loading      savestates_load runs: the CPU waits for it, the front    *)
(*                end does not; R4300Savestate models how it ends          *)
(*   reset        reset_hard_job                                           *)
(* ERL stays clear: the boot code run by the NMI rewrites STATUS.          *)
(***************************************************************************)

-----------------------------------------------------------------------------
(* Exceptions and lines.                                                   *)

BadAddCycles(d, n) == [d EXCEPT !.count = @ + n, !.cycle = @ + n]

AddCycles(d, n) == [d EXCEPT !.count = Wrap(@ + n), !.cycle = @ + n]

(* exception_general with exception_epilog: two cycles, one COUNT tick; in *)
(* a delay slot the jump to the vector is left to the end of the jump.     *)
ExceptionGeneral(d) ==
  LET e == AddCycles([d EXCEPT !.exl = TRUE], 1)
  IN  IF d.slot = "no" THEN e ELSE [e EXCEPT !.skip = TRUE, !.cycle = 0]

(* An interrupt the CPU would take now.                                    *)
Takeable(d) == d.ie /\ ~d.exl /\ d.im \cap d.ip # {}

(* raise_maskable_interrupt: set the line, take the exception at once.     *)
RaiseMaskable(d, line) ==
  LET e == [d EXCEPT !.ip = @ \cup {line}]
  IN  IF Takeable(e) THEN ExceptionGeneral(e) ELSE e

(* r4300_check_interrupt: copy the line; an exception that can be taken is *)
(* left to a CHECK_INT pushed in front of the queue.                       *)
BadCheckInterrupt(d, line, set) ==
  LET e == [d EXCEPT !.ip = IF set THEN @ \cup {line} ELSE @ \ {line}]
  IN  IF Takeable(e) /\ Len(e.q) < POOL_CAPACITY
      THEN [e EXCEPT !.q = <<Event(CheckEvent, d.count)>> \o @]
      ELSE e

CheckInterrupt(d, line, set) ==
  LET e == [d EXCEPT !.ip = IF set THEN @ \cup {line} ELSE @ \ {line}]
  IN  IF Takeable(e) /\ Len(e.q) < POOL_CAPACITY
      THEN [e EXCEPT !.q = <<Event(CheckEvent, d.count)>> \o @, !.cycle = 0]
      ELSE e

CheckRCP(d) == CheckInterrupt(d, RCP, d.intr \cap d.mask # {})

RaiseRCP(d, line) ==
  LET e == [d EXCEPT !.intr = @ \cup {line}]
  IN  IF e.intr \cap e.mask # {} THEN RaiseMaskable(e, RCP) ELSE e

SignalRCP(d, line) == CheckRCP([d EXCEPT !.intr = @ \cup {line}])
ClearRCP(d, line)  == CheckRCP([d EXCEPT !.intr = @ \ {line}])

-----------------------------------------------------------------------------
(* Handlers.                                                               *)

(* The handler of VI_INT runs with the event still queued, reads its count *)
(* and replaces it.                                                        *)
ViHandler(d) ==
  LET next == Wrap(EventCount(d.q, ViEvent) + VI_DELAY)
  IN  RaiseRCP(AddEventCount(RemoveHead(d), ViEvent, next), ViEvent)

CompareHandler(d) == RaiseMaskable(AddCompare(d, d.compare), Timer)

BadSpecialHandler(d) == RemoveHead(AddSpecial(d))

SpecialHandler(d) == AddSpecial(RemoveHead(d))

(* nmi_int_handler: the boot code masks every interrupt in STATUS, stops   *)
(* SP and PI and acknowledges the VI; then the queue is rebuilt from       *)
(* COUNT = 0.                                                              *)
NmiHandler(d) ==
  LET boot == CheckRCP([d EXCEPT !.ie = FALSE, !.exl = FALSE, !.im = {}, !.ip = {},
                                 !.intr = @ \ {"SP_INT", "PI_INT", ViEvent}])
  IN  AddEvent(InitInterrupt([boot EXCEPT !.count = 0]), ViEvent, VI_DELAY)

PowerOn ==
  InitInterrupt(
    [count |-> POWERON_COUNT, compare |-> 0, cycle |-> 0, q |-> <<>>,
     ie |-> FALSE, exl |-> FALSE, im |-> {}, ip |-> {},
     slot |-> "no", skip |-> FALSE, unsafe |-> {}, goes_on |-> FALSE,
     intr |-> {}, mask |-> {}, job |-> "none", loading |-> FALSE, reset |-> FALSE])

(* reset_hard_handler: power the device on again. The C frame of a jump in *)
(* progress survives, and so does a savestate job.                         *)
BadResetHardHandler(d) == [PowerOn EXCEPT !.slot = d.slot, !.job = d.job, !.reset = d.reset]

ResetHardHandler(d) == [PowerOn EXCEPT !.slot = d.slot, !.job = d.job]

(* A run of the RSP that ends with SP_INT, a list that ends with DP_INT.   *)
TaskStarted(d, t, on) ==
  CASE t = "SP_INT" -> [d EXCEPT !.unsafe = @ \cup {"RSP"}, !.goes_on = on]
    [] t = "DP_INT" -> [d EXCEPT !.unsafe = @ \cup {"RDP"}]
    [] OTHER        -> d

(* What rsp_interrupt_event and rdp_interrupt_event make of the flags.     *)
TaskEnded(d, t) ==
  CASE t = "SP_INT" -> [d EXCEPT !.unsafe = IF d.goes_on THEN @ \cup {"RSP"} ELSE @ \ {"RSP"},
                                 !.goes_on = FALSE]
    [] t = "DP_INT" -> [d EXCEPT !.unsafe = @ \ {"RDP"}]
    [] OTHER        -> d

(* The handler of the event at the head of the queue.                      *)
Dispatch(d) ==
  LET type == d.q[1].type IN
  CASE type = ViEvent      -> ViHandler(d)
    [] type = SpecialEvent -> SpecialHandler(d)
    [] type = CompareEvent -> CompareHandler(RemoveHead(d))
    [] type = CheckEvent   -> ExceptionGeneral(RemoveHead(d))
    [] type = HW2Event     -> RaiseMaskable(RemoveHead(d), Cart)
    [] type = NMIEvent     -> NmiHandler(RemoveHead(d))
    [] OTHER               -> TaskEnded(RaiseRCP(RemoveHead(d), type), type)

(* gen_interrupt: a pending load or hard reset, else a jump left by an     *)
(* exception in a delay slot, else the head event and then a pending save. *)
SaveJob(d) == IF d.unsafe = {} /\ d.job = "save" THEN [d EXCEPT !.job = "none"] ELSE d

BadGenInterrupt(d) ==
  IF d.unsafe = {} /\ d.job = "load" THEN [d EXCEPT !.loading = TRUE]
  ELSE IF d.unsafe = {} /\ d.reset THEN ResetHardHandler(d)
  ELSE IF d.skip THEN [d EXCEPT !.skip = FALSE, !.cycle = HeadCycles(d)]
  ELSE Dispatch(SaveJob(d))

GenInterrupt(d) ==
  IF d.unsafe = {} /\ d.job = "load" THEN [d EXCEPT !.loading = TRUE]
  ELSE IF d.unsafe = {} /\ d.reset THEN ResetHardHandler(d)
  ELSE IF d.skip THEN [d EXCEPT !.skip = FALSE, !.cycle = HeadCycles(d)]
  ELSE SaveJob(Dispatch(d))

GenIfDue(d) == IF d.cycle >= 0 THEN GenInterrupt(d) ELSE d

-----------------------------------------------------------------------------
(* Instructions. Each one is a function of dev; Execute runs it if the CPU *)
(* is at an instruction, and marks a delay slot as executed. Straight-line *)
(* code is bounded: once the next event is MAX_LATE ticks overdue, a jump  *)
(* ends before another instruction is executed.                            *)

Execute(d) ==
  /\ ~dev.loading
  /\ dev.slot # "done"
  /\ dev.cycle <= MAX_LATE
  /\ dev' = [d EXCEPT !.slot = IF @ = "pending" THEN "done" ELSE @]

(* An instruction that only takes time.                                    *)
Step(n) == Execute(AddCycles(dev, n))

(* A jump, its delay slot, and the interrupt check that ends it; a "likely"*)
(* branch that is not taken has no slot. A jump to itself with an empty    *)
(* slot skips to the next event.                                           *)
JumpStart ==
  /\ ~dev.loading
  /\ dev.slot = "no"
  /\ dev.cycle <= MAX_LATE
  /\ dev' = [dev EXCEPT !.slot = "pending"]

JumpEnd ==
  /\ ~dev.loading
  /\ dev.slot \in {"no", "done"}
  /\ dev' = GenIfDue([dev EXCEPT !.slot = "no"])

IdleLoop(n) ==
  /\ ~dev.loading
  /\ dev.slot = "no"
  /\ dev.cycle < 0
  /\ dev' = GenIfDue(AddCycles(dev, n - dev.cycle))

(* Stores to device registers.                                             *)
StartDevice(t, delay) ==
  /\ t \in REPEATABLE \/ ~Queued(dev.q, t)
  /\ \E on \in IF t = "SP_INT" THEN BOOLEAN ELSE {FALSE} :
       Execute(TaskStarted(AddEvent(dev, t, delay), t, on))

(* The RSP runs and stops for no interrupt: it has ended a task that asks  *)
(* for none, or it polls what the CPU or the RDP has yet to do.            *)
RunTask == Execute([dev EXCEPT !.unsafe = @ \cup {"RSP"}])

CancelDevice(t) ==
  /\ Queued(dev.q, t)
  /\ Execute(RemoveEvent(dev, t))

SignalLine(l) ==
  /\ Cardinality(IndicesOf(dev.q, CheckEvent)) < MAX_CHECKS
  /\ Execute(SignalRCP(dev, l))

ClearLine(l) ==
  /\ l \in dev.intr
  /\ Cardinality(IndicesOf(dev.q, CheckEvent)) < MAX_CHECKS
  /\ Execute(ClearRCP(dev, l))

(* set_vi_vertical_interrupt, called by the writes of VI_V_INTR_REG,       *)
(* VI_V_SYNC_REG and VI_H_SYNC_REG: the first one starts the VI events.    *)
StartVI ==
  /\ ~Queued(dev.q, ViEvent)
  /\ Execute(AddEvent(dev, ViEvent, VI_DELAY))

(* write_mi_regs, MI_INTR_MASK_REG: calls gen_interrupt inside the store,  *)
(* without setting the unsafe flag.                                        *)
WriteMask(m) ==
  /\ m # dev.mask
  /\ Execute(GenIfDue(CheckRCP([dev EXCEPT !.mask = m])))

R4300Unsafe(d) == [d EXCEPT !.unsafe = @ \cup {"R4300"}]
R4300Safe(d)   == [d EXCEPT !.unsafe = @ \ {"R4300"}]

(* MTC0. Writing COUNT first runs a due interrupt with the flag set.       *)
WriteCount(n) ==
  LET due == R4300Safe(GenIfDue(R4300Unsafe(dev)))
  IN  Execute(TranslateEventQueue(due, n))

BadWriteCompare(n) ==
  LET armed == AddCompare(RemoveEvent(dev, CompareEvent), dev.compare)
  IN  Execute([armed EXCEPT !.compare = n, !.ip = @ \ {Timer}])

WriteCompare(n) ==
  LET armed == AddCompare(RemoveEvent(dev, CompareEvent), n)
  IN  Execute([armed EXCEPT !.compare = n, !.ip = @ \ {Timer}])

WriteStatus(ie, exl, im) ==
  LET written == CheckRCP([dev EXCEPT !.ie = ie, !.exl = exl, !.im = im])
      due     == R4300Safe(GenIfDue(R4300Unsafe(written)))
  IN  /\ <<ie, exl, im>> # <<dev.ie, dev.exl, dev.im>>
      /\ Execute(due)

Eret ==
  /\ dev.slot = "no"
  /\ dev.exl
  /\ Execute(GenIfDue(CheckRCP([dev EXCEPT !.exl = FALSE])))

(* SYSCALL, BREAK, traps and unusable coprocessors write the whole CAUSE.  *)
Trap == Execute(ExceptionGeneral([dev EXCEPT !.ip = {}]))

-----------------------------------------------------------------------------
(* Requests of the front end, noticed by the next gen_interrupt. A new     *)
(* savestate job replaces the pending one. Bound: no soft reset is asked   *)
(* for while another one or a load is in progress.                         *)

Request(j) ==
  \/ /\ j \in {"save", "load"}
     /\ dev' = [dev EXCEPT !.job = j]
  \/ /\ j = "hard"
     /\ dev' = [dev EXCEPT !.reset = TRUE]
  \/ /\ j = "soft"
     /\ ~dev.loading
     /\ ~Queued(dev.q, NMIEvent)
     /\ dev' = AddEvent(AddEvent(dev, HW2Event, 0), NMIEvent, NMI_DELAY)

-----------------------------------------------------------------------------
Init == dev = PowerOn

Next ==
  \/ \E n \in STEPS : Step(n)
  \/ \E n \in STEPS : IdleLoop(n)
  \/ JumpStart \/ JumpEnd \/ StartVI \/ Eret
  \/ \E t \in DEVICES, delay \in DELAYS : StartDevice(t, delay)
  \/ \E t \in CANCELABLE : CancelDevice(t)
  \/ \E l \in SIGNALS : SignalLine(l)
  \/ \E l \in Lines : ClearLine(l)
  \/ \E m \in MASK_WRITES : WriteMask(m)
  \/ \E n \in COUNT_WRITES : WriteCount(n)
  \/ \E n \in COMPARE_WRITES : WriteCompare(n)
  \/ \E ie, exl \in BOOLEAN, im \in IM_WRITES : WriteStatus(ie, exl, im)
  \/ \E t \in TRAPS : Trap
  \/ \E t \in TASKS : RunTask
  \/ \E j \in JOBS : Request(j)

Spec == Init /\ [][Next]_dev

(* The interpreter loop never waits and every second instruction is a tick *)
(* of COUNT: while the program runs, COUNT advances for ever.              *)
Fairness == []<><<dev'.count # dev.count>>_dev
FairSpec == Spec /\ Fairness

-----------------------------------------------------------------------------
(* What the order of the events needs of the program: it starts the VI     *)
(* before anything else, as games do; it does not bring COUNT a tick short *)
(* of COMPARE by a write of either; it does not write COUNT in a delay     *)
(* slot, and it starts no device in the tick in which COUNT is COMPARE.    *)

Near(d) == Wrap(d.compare - d.count) = 1

AwayFromCompare ==
  /\ Queued(dev.q, ViEvent) \/ StartVI
  /\ dev'.compare # dev.compare => ~Near(dev')
  /\ (\E n \in COUNT_WRITES : WriteCount(n)) => dev.slot = "no" /\ ~Near(dev')
  /\ dev.compare = dev.count => Len(dev'.q) <= Len(dev.q)

(* A node of the pool is left.                                             *)
NodeLeft == Len(dev.q) < POOL_CAPACITY

-----------------------------------------------------------------------------
(* Properties.                                                             *)

EventType == [type : EventTypes, count : Counts]

Device ==
  [count : Counts, compare : Counts, cycle : Int, q : Seq(EventType),
   ie : BOOLEAN, exl : BOOLEAN, im : SUBSET IPs, ip : SUBSET IPs,
   slot : {"no", "pending", "done"}, skip : BOOLEAN,
   unsafe : SUBSET {"R4300", "RSP", "RDP"}, goes_on : BOOLEAN, intr : SUBSET Lines, mask : SUBSET Lines,
   job : {"none", "save", "load"}, loading : BOOLEAN, reset : BOOLEAN]

(* Every field has its type and the queue fits in its pool.                *)
TypeOK == dev \in Device /\ Len(dev.q) <= POOL_CAPACITY

(* gen_interrupt, compare_int_handler and MTC0 read q.first without a null *)
(* check: at every point exactly one COMPARE_INT and exactly one           *)
(* SPECIAL_INT are queued, whatever the programs write, the devices        *)
(* schedule or cancel and even when the pool is exhausted.                 *)
TimersQueued == QueuedOnce(dev.q, CompareEvent) /\ QueuedOnce(dev.q, SpecialEvent)

(* An interrupt of the RCP or of the timer that the CPU accepts and that   *)
(* the MI or the timer holds is never forgotten: a CHECK_INT that will     *)
(* take it heads the queue and cycle_count makes the next jump run it.     *)
(* (Of an instance whose pool is never exhausted: see TimersQueued.)       *)
Waiting(d) ==
  /\ d.ie /\ ~d.exl
  /\ \/ (RCP \in d.im /\ d.intr \cap d.mask # {})
     \/ Timer \in d.im \cap d.ip
NoLostInterrupt ==
  Waiting(dev) => dev.q[1].type = CheckEvent /\ dev.cycle >= 0

(* The comment of special_int_handler: the cycles to the next interrupt    *)
(* never exceed half the range of COUNT. cycle_count is a signed integer:  *)
(* an event further away would look overdue and fire at once, so a head    *)
(* that looks overdue must really be a few ticks late.                     *)
HeadWithinHalf == HeadCycles(dev) <= 2 * MAX_LATE + 3

(* The comment of r4300_cp0_cycle_count: cycle_count is minus the cycles   *)
(* left until the next interrupt. The only exception is the pause between  *)
(* an exception in a delay slot and the end of its jump.                   *)
CycleTracksHead == ~dev.skip => dev.cycle = HeadCycles(dev)

(* Device events leave the queue in the order of their counts: an overdue  *)
(* event is never behind one that is due later.                            *)
Lateness(e) == Signed(Wrap(dev.count - e.count))
DevicesInOrder ==
  \A i, j \in DOMAIN dev.q :
    /\ i < j
    /\ dev.q[i].type \in DEVICES \cup {ViEvent}
    /\ dev.q[j].type \in DEVICES \cup {ViEvent}
    => Lateness(dev.q[i]) >= Lateness(dev.q[j])

(* The timer is armed at the COMPARE register.                             *)
CompareArmed == EventCount(dev.q, CompareEvent) = dev.compare

(* The timer line rises only when COUNT has just reached COMPARE, before   *)
(* the instruction (which may write COUNT) or by it: never early, and      *)
(* never a turn of COUNT late.                                             *)
TimerOnTime ==
  [][(Timer \in dev'.ip \ dev.ip)
       => \E count \in {dev.count, dev'.count} :
            Wrap(count - dev.compare) <= 2 * MAX_LATE + 3]_dev

(* Only gen_interrupt looks for what the front end asks, and only while    *)
(* nothing is unsafe. A hard reset is carried out if the game lets the RSP *)
(* and the RDP rest for good: the test comes before the handler, and a game*)
(* may start the next task between the two.                                *)
Safe == dev.unsafe = {}
Rests == <>[]Safe
ResetServed == Rests => (dev.reset ~> ~dev.reset)

(* For a savestate, looked for after the handler as well, it is enough that*)
(* again and again the last task ends with its interrupt. (A reset that is *)
(* pending then goes first.)                                               *)
TasksEnd == []<><<~Safe /\ Safe'>>_dev
SaveServed == Rests \/ TasksEnd => ((dev.job = "save") ~> (dev.job # "save" \/ dev.reset))

(* A soft reset ends in its NMI (or in a hard reset).                      *)
NmiServed == Queued(dev.q, NMIEvent) ~> ~Queued(dev.q, NMIEvent)
=============================================================================
