# A verification project for simpler64

simpler64 is a Nintendo 64 emulator: a GUI and a few plugins around a modified
mupen64plus core. This directory holds TLA+ models of the parts of the core
whose correctness depends on order: the interrupt machinery of the emulated
CPU, the DMA engines and the signal processor beside it, savestates and the
work queue that writes them to disk, the inputs of a netplay game, and the
commands of the front end against the emulation thread. TLC checks them on
small instances; TLAPS proves most of the safety properties for every instance.

Paths below are relative to `src/mupen64plus-core/src/` unless they say
otherwise. `PROJECT.json` lists components, runs, mutants, findings, hazards
and theorems, and maps each definition to the source lines it models.

Operators whose names start with `Bad` are faulty variants of the definition
that follows them (a dropped reset, a wrong base, a stack for a queue). No
specification uses them: substituted for the real definition, each makes a
named property fail. They document what each property is sensitive to.

## 1. The system

### Threads

| thread | runs | touches |
|---|---|---|
| front end (GUI) | `CoreDoCommand` (`api/frontend.c`), `mainwindow.cpp` | savestate job, file name and slot; `reset_hard_job`; the event queue (soft reset); `stop`, `g_rom_pause`, `l_FrameAdvance` |
| emulation | `main_run` -> `run_r4300` -> interpreter loop | everything of the emulated machine; loads savestates; captures them |
| worker (1) | `workqueue_thread_handler` (`main/workqueue.c`) | writes captured states to disk |
| netplay request thread | `netplay_require_response`, while an input is missing | reads the input list and `l_udpChannel`, which it closes after ten seconds |

### Components

*Interrupt event queue* (`device/r4300/interrupt.c`).
State: a linked list of `<type, count>` nodes from a pool of 16; it is ordered
by the distance from the 32-bit COUNT register, which wraps around.
Operations: add (by delay or count), remove the head, remove by type, look up,
translate (COUNT written), save, load. Used by every device.
Correct when: events leave in order across the wrap; the head's distance is in
`cycle_count`; COMPARE_INT and SPECIAL_INT are never missing (several functions
dereference the head or the result of a look-up without a null check).

*R4300 and coprocessor 0* (`device/r4300/cp0.c`, `pure_interp.c`,
`mips_instructions.def`). State: COUNT, COMPARE, STATUS, CAUSE, `cycle_count`,
`delay_slot`, `skip_jump`, the unsafe flags. Every jump ends with a test of
`cycle_count`; when it is not negative, `gen_interrupt` serves a pending load
or reset, else the head event. MTC0, ERET and the store to MI_INTR_MASK call it
too, in the middle of an instruction.
Correct when: an accepted interrupt is never forgotten, the timer fires when
COUNT reaches COMPARE, resets and savestates happen between instructions.

*MIPS interface* (`device/rcp/mi/mi_controller.c`). State: interrupt lines and
their mask. Devices raise a line inside an event handler (`raise_rcp_interrupt`,
the exception is taken at once), signal it inside a store
(`signal_rcp_interrupt`, the exception is left to a CHECK_INT in front of the
queue) or clear it.

*Video interface* (`device/rcp/vi/vi_controller.c`): one event that queues
itself again; it paces the GUI, input and frame limiter.

*Serial interface and PIF* (`rcp/si`, `device/pif`). State: busy, error and
interrupt bits, the direction, an address register, 64 bytes of PIF RAM.
Operations: DMA to the PIF (copied at once, carried out when SI_INT ends it),
DMA from it (carried out at once, copied at the end), stores to the PIF RAM.
Correct when a transfer ends as it was submitted, although registers and RAM are
read at its end, and a busy bit always has an SI_INT to clear it.

*Peripheral interface* (`rcp/pi`, `device/cart`). DMA, stores to the ROM and to
domain 2, one busy bit each, PI_INT for all of them; reading back a stored value
removes the first PI_INT of the queue.
Correct when each busy bit has an event of its own.

*Audio interface* (`rcp/ai`). Two buffers, the second waiting for AI_INT of the
first; samples are pushed late, by reads of AI_LEN_REG and by AI_INT; the sample
rate is passed on with the next buffer.
Correct when every sample is played once, in order, at the right rate.

*RSP and RDP* (`rcp/rsp`, `rcp/rdp`, plugins). A DMA queue of two entries. Tasks
run ahead of the CPU: `do_SP_Task` calls the plugin, takes back the lines it
raised, hides the status it left, and queues SP_INT, DP_INT or RSP_TSK_EVT to
show them later; `rsp_wait` says what has to come before the RSP goes on. The
RDP can be frozen, by the CPU or by the RSP; its interrupt is then noted.
Correct when what is waited for is on its way, and interrupts come once and
together with what they announce.

*Savestates* (`main/savestates.c`). State: the job, file name and slot (globals
written by the front end), a recursive mutex, the file. Operations: set job,
select slot, load (synchronous), save (capture, then work for the worker),
clear job. Correct when: a file is never read torn, holds the last state
captured for it, a load resumes what was captured, a load and a save end.

*Work queue* (`main/workqueue.c`). State: list of work, list of waiting
threads, one condition variable per thread. Operations: queue, get, return,
shut down. Correct when: no wake-up is lost, all work is done at shutdown.

*Emulation life cycle* (`main/main.c`, `api/frontend.c`, `r4300_core.c`): flags
`g_EmulatorRunning`, `stop`, `g_rom_pause` and `l_FrameAdvance`, read and written
by two threads without locks.
Correct when the game is paused as the last command asked and a stop ends it.

*Netplay* (`main/netplay.c`): a list of received inputs and a count per player,
filled by packets of a network that loses, repeats and reorders, emptied one by
one by the game; a thread asks for a missing input and gives up after ten
seconds. Correct when every machine is fed the same inputs in the same order and
none hangs.

*Input recording* (`main/input_record.c`) and the *debugger*: not modelled.

Storage chips, Game Boy cartridges, 64DD, memory map, cheats, ROM database,
configuration, video extension: sequential data structures used by one thread
at a time or I/O; not modelled (reasons in `PROJECT.json`). The dynamic
recompilers are not in the build, which selects the pure interpreter;
parallel-rdp, parallel-rsp and the subprojects are vendored libraries.

### What is hard

- A 32-bit counter that wraps around, compared with absolute and relative
  counts; a signed reading of the difference; a head that may be a few ticks
  overdue, since interrupts are only looked for at the end of a jump.
- Three ways to take an exception (at once, at the end of the jump, by a
  CHECK_INT), interleaved with delay slots and jobs of the front end.
- Globals shared by two threads and published in the wrong order; a lock that
  error paths forget; a queue that shuts down while it holds work.
- Busy bits that only an event clears, and events that other requests, a reset
  or the NMI remove; registers that are read when a transfer ends.
- A processor that runs ahead of time and has to hide it.
- A time-out that races the answer it waits for.
- Captured state that is rebuilt event by event around another COUNT.

`PROJECT.json` lists these as hazards, line by line, with the property that
covers each one or the reason why none does yet.

## 2. The plan

Done, the most important behaviour first:

| module | models | status |
|---|---|---|
| `EventQueue` | the queue as operators on a record | modelled |
| `R4300Interrupt` | EXTENDS `EventQueue`: CPU, CP0, MI, VI, device events, requests | modelled, checked, eight theorems |
| `R4300Savestate` | EXTENDS `R4300Interrupt`: what a savestate captures and restores | modelled, checked |
| `WorkQueue` | the work queue, and what it promises callers that queue in time | modelled, two theorems |
| `Savestates` | composes `WorkQueue` with jobs, lock, files, shutdown; implements `SaveOrder` | modelled, checked, five theorems |
| `DmaQueue`, `AudioStream`, `SaveOrder`, `LockStep` | abstract specifications: what a DMA engine, the AI, savestates and netplay promise | implemented by the modules below |
| `SerialInterface`, `PeripheralInterface`, `AudioInterface`, `SpDma` | one DMA engine each | modelled |
| `RcpDma` | composes the four engines with the two resets | modelled, checked, six theorems |
| `SignalProcessor` | tasks of the RSP, their interrupts, the RDP's freeze | modelled, checked, five theorems |
| `Emulation` | life cycle of a game against the commands of the front end | modelled, checked, two theorems |
| `Netplay` | inputs over a lossy network, the request thread; implements `LockStep` | modelled, checked, three theorems |

Next, in this order:

1. `InputRecord`: a recording is paired with a savestate that is only requested.
2. Completion callbacks of savestates (SAVECOMPLETE, LOADCOMPLETE).
3. A CPU module with PC and EPC; the debugger's run state; pak switching of
   `input_plugin_compat.c`.
4. `SignalProcessor` and `RcpDma` composed with `EventQueue`, so that cancelled
   and dropped events meet the devices that queued them.
5. Abstract specification of the queue (a set of deadlines) implemented by
   `EventQueue` for programs that keep clear of the wrap.

Theorems still worth trying: the registers and lines that a load restores
(without the queue, which is a fold), `LatestOnDisk` for any number of workers
if the program ever gets a second one, a weaker `AwayFromCompare` in which time
may pass before the VI is started.

## 3. The modules and the code

### `EventQueue`

Operators, no variables. A "cp0" record carries `count`, `cycle`
(`cycle_count`), `q` (the list from `q.first`) and `compare`. `HALF` stands for
2^31 and `POOL_CAPACITY` for 16, so counts are integers modulo `2 * HALF` and
`Signed` is the conversion to `int`. `InsertPosition` is the walk of
`add_interrupt_event_count` with `before_event`; an exhausted pool drops the
event, as the code does. `RemoveEvent` leaves `cycle` alone, as `remove_event`
does. `AddCompare` is the two-tick trick around COMPARE_INT in
`translate_event_queue` and MTC0. `next_interrupt` is left out: the interpreter
writes it and never reads it.

### `R4300Interrupt`

One variable, `dev`, a record: handlers are functions of a device state that
call each other as the C functions do, and an action applies one of them.
`GenInterrupt` has the order of `gen_interrupt`: load, hard reset, abandoned
jump, head event, save. Correspondence of the actions:

| action | code |
|---|---|
| `Step` | an instruction that only takes time; `cp0_update_count` |
| `JumpStart`, `JumpEnd` | DECLARE_JUMP: the delay slot, then `gen_interrupt` if due |
| `IdleLoop` | the `_IDLE` jumps: COUNT skips to the next event |
| `StartDevice`, `CancelDevice` | stores that add or remove a device event |
| `SignalLine`, `ClearLine`, `WriteMask` | stores that signal or clear a line, MI_INTR_MASK_REG |
| `StartVI` | `set_vi_vertical_interrupt` |
| `WriteCount`, `WriteCompare`, `WriteStatus` | MTC0 |
| `RunTask` | a start of the RSP after which it stops for no interrupt |
| `Eret`, `Trap` | ERET; SYSCALL, BREAK, traps, unusable coprocessors |
| `Request` | savestate job, hard reset, soft reset from the front end |

Abstractions: values, addresses, PC and EPC are left out (an exception is the
change of EXL, COUNT and `skip_jump`); randomised interrupt times are delays
like others; a soft reset queues its two events in one step, although the GUI
thread may run in the middle of an update of the list (a data race, recorded as
a hazard); the boot code run by the NMI is what `pif/bootrom_hle.c` does to
STATUS and the lines. `unsafe` is the whole of `interrupt_unsafe_state`: "R4300"
inside a MTC0, "RSP" from any run of the RSP to its SP_INT, "RDP" from a list to
its DP_INT. `TaskStarted` and `TaskEnded` are what `do_SP_Task` and the two
handlers make of the flags; `goes_on` says that the RSP was not halted, so that
the handler of SP_INT runs it again at once and the flag is set again; `RunTask`
leaves the flag without an event that will clear it. The rest of the RSP is the
subject of `SignalProcessor`. `loading` means that the CPU is inside
`savestates_load`: it does nothing, the front end goes on.

### `R4300Savestate`

Adds `file`, the state captured last, as a set of at most one record. `Run` is a
step of the machine; a save that ends captures `Saved(dev')`. `LoadEnd` ends a
load with the file or, if there is none or it cannot be read, without; either
way `savestates_clear_job` forgets the job. `savestates.c` restores registers
first, then calls `load_eventqueue_infos`, which uses the COUNT just restored.

### `WorkQueue`

The critical sections under the queue's lock are the actions: `QueueWork`
(`queue_work`), `GetWork` (one turn of `workqueue_get_work`), `Wake` and
`WakeUnasked` (return of `SDL_CondWait`, with and without a signal), `Return`
(after `work->func`), `Dismiss` (one turn of `workqueue_shutdown`). The list of
waiting threads is a set: any of them may be its first. `queue_work` does not
look whether the queue is being shut down, and neither does `QueueWork`: that
nothing is queued after the first dismissal is a duty of the callers
(`QueuesInTime` in `WorkQueue_proofs`), and `AllWorkDone` is what they get for it.

### `Savestates`

EXTENDS `WorkQueue` and uses its variables and actions for the queue; the rest
of the state (job, name, slot; the emulation thread; lock; worker steps; files)
is its own. The assignments of `savestates_set_job` are three actions
(`Request` frees the name, `RequestJob`, `RequestName`), because the emulation
thread may run in between. A load is `LoadBegin` (path and file type),
`LoadLock`, `LoadRead`, `ClearJob`; a save is `SaveState` (capture, queue, next
slot), `ClearJob`. A worker runs `WriteLock`, `WriteOpen` (the file is
truncated and becomes *torn*), `Write`, `WriteReturn`; the error paths keep the
lock, as the code does. `Stop` and `Shutdown` are the end of the game and
`workqueue_shutdown`. That CoreShutdown comes after the end of the game is not
tested by `frontend.c:115`: it is the habit of the front end
(`MainWindow::closeEvent` in `src/simple64-gui/mainwindow.cpp` calls `stopGame`,
then `closeCoreLib`), and savestates keep the duty of `QueuesInTime` because of
it. A state is the number of its capture and a file holds the
number written last. Reading `fname` and `slot` and building the path is one
step (in the code a concurrent `free` is possible; recorded as a hazard).

`SaveOrder` is the promise, without threads, queue or lock: a file goes through
the states captured for it one by one, in the order of their capture; none is
skipped, repeated or overtaken. `WritesInOrder` maps to it the captures, the
files and, as what is pending, the saves queued or being written (`Remaining`).

### `DmaQueue`, `SerialInterface`, `PeripheralInterface`, `AudioInterface`, `SpDma`, `RcpDma`

`DmaQueue` and `AudioStream` say what an engine promises; an engine's module
holds its registers, its events and one action per store, read and handler, and
states the promise with `INSTANCE DmaQueue WITH queue <- ..., done <- ...`: the
queue is what the busy bits, registers and RAM say is in progress, `done` is the
transfer that the last step carried out, as it was carried out.

| module | actions and code |
|---|---|
| `SerialInterface` | `DmaSiWrite`, `DmaSiRead` (`dma_si_write`, `dma_si_read` with `validate_dma`), `SetDramAddr`, `WriteSiStatus` (`write_si_regs`), `WritePifMem` (`write_pif_mem`), `SiEndOfDma` (`si_end_of_dma_event`, with `process_pif_ram`) |
| `PeripheralInterface` | `DmaPi`, `WritePiStatus`, `PiEndOfDma` (`pi_controller.c`), `WriteCartRom`, `ReadCartRom` (`cart_rom.c`), `WriteCartDom2` (`write_cart_dom2`, `write_dd_rom`) |
| `AudioInterface` | `FifoPush`, `ReadAiLen`, `WriteAiStatus`, `WriteDacRate`, `AiEndOfDma` (`ai_controller.c`), `Tick`: COUNT advances by what 8 bytes take |
| `SpDma` | `WriteSpAddr`, `WriteSpLen` (`write_rsp_regs`), `RspEndOfDma`; `DoSpDma` is `do_sp_dma` |

`RcpDma` EXTENDS the four, lets one of them step at a time, and adds
`ResetHardHandler` (all of them powered on) and `NmiHandler`, which empties the
event queue under all of them but resets only the PI, the PIF's RAM and the
status of the AI.

Abstractions: a block is a command or its answer; SI_DRAM_ADDR_REG counts in
blocks over its whole range (ADDR_BLOCKS), beyond the blocks that the address
lines of RDRAM tell apart (DRAM_BLOCKS, `DramAddress`); PI transfers have no bytes; a
place of the SP stands for both of its addresses; events are counted, not timed
(but for the AI, whose length register measures time), since `EventQueue` says
when they come. Of the AI, the carry of 0x2000 at the end of a buffer is left
out. POLITE and SP_POLITE are programs that leave the registers of a transfer in
progress alone, QUIET those that let SI and SP transfers end before the NMI that
HW2_INT announces half a second ahead. The microcode's own DMA writes the same
SP_MEM_ADDR_REG and SP_DRAM_ADDR_REG (`parallel.cpp:147-150`,
`rsp/cp0.cpp:208-210` and `:257-278` in `src/parallel-rsp/`) at once and without
the queue; it has no step in `SpDma`, which is of programs that leave the two
registers to the RSP while a task runs.

### `SignalProcessor`

One variable, `rcp`: SP_STATUS_REG (halt, broke, interrupt on break), the hidden
`rsp_status`, `rsp_wait`, `first_run`, the counts of SP_INT, DP_INT and
RSP_TSK_EVT, the MI lines of SP and DP, the two unsafe flags, the freeze and
`do_on_unfreeze`. `DoRspCycles` is the plugin: the set of what a task may leave
behind - on its way it clears BROKE, sets or clears INTR_BREAK, acknowledges SP,
freezes or unfreezes the RDP; then it polls, halts, breaks, raises SP or
completes a frame (`RSP_MFC0`, `rsp_status_write`, `rdp_status_write` and BREAK in
parallel-rsp, SYNC_FULL in parallel-rdp).
`DoSpTask` is `do_SP_Task`; `UpdateSpStatus` is a store of any word of up to
MAX_COMMANDS of the seven commands, processed in the order of
`update_sp_status`. PATIENT is a program that neither halts nor starts the RSP
while its interrupt is on its way; QUIET as above. CPU_UNFREEZES: where an
interrupt of the RDP is noted, it is the CPU that ends the freeze. The RSP can
clear the bit as well (`rsp/cp0.cpp:55-56`), but only `update_dpc_status`, the
CPU's store, delivers the note.

### `Emulation`

The four shared flags, where the emulation thread is (`main_run`, `run_r4300`,
its loop, the steps of `new_vi`) and what is left of the command the front end
is in the middle of. A command is as many steps as it makes accesses:
`PauseTest` and `Toggle` are the check and the toggle of PAUSE, `MainStop` and
`StopDevice` those of STOP, `Advance` and `Continue` those of ADVANCE_FRAME;
`NewFrame` and `EndAdvance` are the two assignments of `new_frame`. `CloseWindow`,
the `main_stop` of the emulation thread's own event handling, is one step and
comes when the front end has no command under way. `wish` and
`frames` are history: the last command accepted, and the frames since. The
model is of a game without netplay, which refuses to pause, and without the
debugger. HABITS says what front ends keep to: commands wait until the game
runs, frames are advanced one at a time in a paused game, a stopped game gets no
more commands.

### `Netplay`

Per client: `count` (`netplay_count`), `events` (the linked lists, as sequences),
where its emulation thread is (`PollInput`, `EnsureValid`, `LeaveLoop`,
`JoinThread`), its request thread (`CheckResponse`, `RequireResponse`, one request
per turn, MAX_TRIES of them in ten seconds) and `udp`, which the thread closes.
`Receive` is the turn of the loop of `netplay_process` for one input: any one the
server has decided, again and again, put in front of its list if `Wanted` - not
taken yet, and not in the list by `CheckValid`. A packet is a run of such turns,
and it may go on after the input the loop waits for has come; what is lost,
repeated or late is an input that comes not, twice or later, so the network
needs no buffer. The server is external: it
decides the next input of a player when somebody needs it, and never changes it.
`LockStep` is the promise: one sequence per player, and every client takes it in
order. A client that gave up takes no more inputs (`keys = 0` is fed to a game
that has been stopped).

## 4. The runs

Bounds are small values of the constants, named in each `.cfg`. For
`R4300Interrupt`, HALF is 3, 4, 6 or 8: COUNT wraps every 6 to 16 ticks, so every run
meets wrap-around many times. VI_DELAY, NMI_DELAY and DELAYS are below HALF, as
in the program (the longest delays there are far below 2^31). MAX_LATE = 1: the
program reaches the end of a jump at most a few ticks after an event is due;
one tick is enough for an overdue head, for events that become due behind it
and for an insertion in front of and behind it. STEPS = {0, 1}: every second
instruction is a tick of COUNT, and a jump, its slot and an exception may each add
one, so the lateness at the end of a jump stays within `2 * MAX_LATE + 3`. MAX_CHECKS = 1: one CHECK_INT in the queue when
another store signals or clears a line (each such call pushes one more, two
with the bound).

| run | states | question |
|---|---|---|
| `r4300_signals` | 150,845 | Stores raise and clear lines, the mask, STATUS and COMPARE change, ERET and traps, in and out of delay slots: is an accepted and enabled interrupt always about to be taken (`NoLostInterrupt`)? |
| `r4300_order` | 862,188 | Do events leave in order, is `cycle_count` exact, the head within half a turn, the timer armed at COMPARE and on time? |
| `r4300_jobs` | 511,472 | Are resets and saves served, under fairness, also when devices cancel their events and tasks of the RSP end without an interrupt? |
| `r4300_savestate` | 1,346,976 | Does a load restore registers, lines and the order of events, with COUNT anywhere? With a pool of four, often exhausted, are the two timers always queued (`TimersQueued`)? |
| `savestates` | 115,364 | Requests, emulation, worker and shutdown in every interleaving: type, wake-ups, torn reads, last state on disk, nothing left behind, refinement of `SaveOrder`, loads and writes end. |
| `rcp_dma` | 44,616 | Is every busy engine served, do SI and SP transfers complete in order and as submitted, is every sample played once and at the right rate, has a full engine room again - over resets at any point? |
| `rsp` | 2,224 | Is what the RSP waits for on its way, does it never stall, is a task's end seen with its interrupt and only one, does the RDP complete? |
| `netplay` | 713,940 | Two clients, two players: are all games fed the same inputs, is no input listed twice, does no client hang? |
| `emulation` | 162 | Is the game paused exactly as the last command asked, at every point of both threads and in every later game, and does a stop end it? |

Two runs constrain the steps of the program (ACTION_CONSTRAINT), two the states
(CONSTRAINT):

- `AwayFromCompare` (`r4300_order`, defined in `R4300Interrupt`): the VI is
  started first; a write of COUNT or COMPARE does not leave COUNT one tick short
  of COMPARE; COUNT is not written in a delay slot; no device is started in the
  tick in which COUNT is COMPARE. Without the first condition `HeadWithinHalf`
  fails (below). Without the others the two-tick trick that means "a whole turn
  away" and the relative order of the other events conflict: an event queued at
  COUNT = COMPARE may be inserted behind COMPARE_INT, which is a turn away. This
  is listed as a hazard (`interrupt.c:282`). The same run has the state
  constraint `NodeLeft`: with the pool exhausted an addition is dropped, which
  `r4300_savestate` is there for. COMPARE may be written to COUNT, so a
  COMPARE_INT a whole turn ahead is among the states checked.
- `QuietUntilLoad` (`r4300_savestate`): the same, and after a state was captured
  the program writes no COMPARE, adds no event and clears no line until it is
  loaded. What it would do in between is overwritten by the load, except COUNT,
  which runs on, and the queue, which drains: so the load finds a queue with
  other contents and order. (HALF is 6 there to keep the run short; with 8, as in
  `r4300_order`, it has eleven million states and the same answer.)

`LoadRestores` lets SPECIAL_INT move, and a COMPARE_INT captured at COUNT =
COMPARE, which the reload makes due at once (hazard `interrupt.c:320`).

`ResetServed` and `SaveServed` have premises about the game, because
`gen_interrupt` looks for jobs only while no unsafe flag is set, the RSP sets its
flag in every run and only SP_INT clears it (hazard `rsp_core.c:395`). `Rests`: in
the end RSP and RDP leave nothing unsafe. `TasksEnd`: again and again something
unsafe becomes safe, as when the last task ends with its interrupt. A save, looked
for after the handler as well, is served under either; a hard reset, looked for
before it only, under the first: a game may start the next task in each gap.
Without a premise both fail, as they do in the code.

`r4300_skip` has the action constraint `LoadsSucceed`: a load is asked for when a
state has been written, and it restores it.

- `OneEngine` (`rcp_dma`): from a hard reset to the next, a program drives one of
  the four engines. They share no variable but through the two resets, so an
  interleaving of two of them shows nothing that each does not show alone; the
  theorems hold of all interleavings.

`savestates` has one worker, the program's WORKQUEUE_THREADS, one named file and
two slots (so that the automatic slot increment wraps around) and two captures:
enough for two saves of one file, a save behind a save, a load between them.
Failures are excluded there, because after one of them the next load blocks
(below); the theorem `NeverTornLoad` includes them.
CHECK_DEADLOCK is FALSE where the system may stop: `savestates` (after
shutdown), `netplay` (all clients have given up, or have MAX_COUNT inputs),
`emulation` (a paused game without a front end) and `rsp` (a halted RSP in a
program that does not touch it). In the others there is always a step.

`rcp_dma`: one command, two blocks of RDRAM, two places of the SP, buffers of up
to three units at two addresses and two rates, two SI_INT and two PI_INT: a
transfer can be rejected, follow another, wait behind another or wrap around its
addresses; a buffer can be pushed in three parts; the removed PI_INT can be that
of the other request. `rsp`: two DP_INT at a time and words of up to four of
the seven commands, so that both halves of a pair of opposites meet any two
others. `netplay`: two inputs per player, so that an old
input and a repeated one are told from a new one; two keys; one request before
the time-out, so that it can come before or after an answer. `emulation` has no
bound: its state is finite, `frames` counts to two because the properties tell
zero, one and more apart.


### Fairness

`R4300Interrupt`: COUNT advances infinitely often. The interpreter never waits
and instructions cost cycles; no fairness of any instruction is assumed. This
is not weak fairness of `Step`: a program may do anything, as long as time goes
on. `Savestates`: the emulation thread runs on (weak fairness) and a worker is
strongly fair, because a mutex that is released again and again is obtained in
the end and a signalled thread gets its turn. The front end owes nothing: it may
stop asking, also in the middle of `savestates_set_job`. `RcpDma` and
`SignalProcessor`: a queued event is dispatched (COUNT advances, see above);
nothing is assumed of programs. `Netplay`: the two threads of a client are
scheduled; nothing is assumed of network and server, which may fall silent.
`Emulation`: both threads are scheduled; no command need ever be given, but one
that has begun ends.

### Disagreements the models show

Three runs must be found violated, each quoted with the comment or doc it
contradicts in `PROJECT.json`:

| run | what happens |
|---|---|
| `r4300_skip` | A load at the end of a jump that an exception abandoned leaves `skip_jump` set in the loaded game, whose next event is still ahead: its next jump does not reach its target. |
| `savestates_target` | The job is published before its file name: a save to a named file goes to the slot. |
| `emulation_stop` | ADVANCE_FRAME, then a stop before the vertical interrupt: `new_frame` pauses the stopped game, and `pause_loop` never ends. |

Others were found by changing a constant or dropping a constraint of a passing
run. They are recorded as hazards, at their lines:

- `CANCELABLE = {"SP_INT"}` in `r4300_order`: removing the head event leaves
  `cycle_count` behind (`interrupt.c:237`), `gen_interrupt` takes the next event
  before its count (`CycleTracksHead`).
- SIGNALS, masks and an enabled RCP line in `r4300_order`: a CHECK_INT pushed in
  front of an overdue VI hides that it is overdue, so the base of `before_event`
  is COUNT again and the next device event, due later, is placed before the VI
  (`interrupt.c:108` and `:362`, `DevicesInOrder`).
- `r4300_order` without a VI: SPECIAL_INT leaves the queue, COMPARE_INT is more
  than half a turn away and now the head, and the new SPECIAL_INT is placed
  behind it: the timer fires half a turn early (`HeadWithinHalf`).
- A store to MI_INTR_MASK_REG in a delay slot serves a reset or a savestate job
  in the middle of the jump (`mi_controller.c:108`): `interrupt_unsafe_state` is
  not set there as MTC0 sets it.
- `FAILURES = {"open"}` in `savestates`: the worker's error paths keep the savestate
  lock (`savestates.c:1104`), the next load blocks for ever (`LoadEnds`).
- `QUIET = FALSE`: an NMI in the middle of an SI or SP transfer leaves its busy
  bit set for ever (`BusyServed`), one with a DP_INT pending leaves the RSP
  waiting for it (`WaitsServed`). `bootrom_hle.c:67` and `:72` say "XXX: wait for
  SP to finish last operation" and "XXX: wait for SP DMA to finish".
- `POLITE = FALSE`: a store to the PIF RAM during a read turns it into a write
  and queues a second SI_INT. `SP_POLITE = FALSE`: addresses written for a third
  transfer are overwritten when the second one starts.
- `PATIENT = FALSE`: SET_HALT while SP_INT is pending removes it and leaves
  `rsp_wait`: the RSP is never run again (`WaitsServed`).
- `CPU_UNFREEZES = FALSE`: the RSP clears FREEZE itself while the interrupt of a
  list of the CPU is noted; nothing is queued and nothing is frozen, and until the
  CPU stores CLR_FREEZE the RDP stays unsafe (`WaitsServed`, `Completes`).
- HABITS without `in_game`: a stop between `main.c:1975` and `r4300_core.c:144`
  is lost (`StopServed`); without `stop_last`, PAUSE after STOP makes the game
  wait in `pause_loop`.

## 5. The proofs

`EventQueue_proofs` holds lemmas on the operators (where an insertion, removal
or push leaves each event type); the theorems are in `R4300Interrupt_proofs`,
`WorkQueue_proofs`, `Savestates_proofs`, `RcpDma_proofs`,
`SignalProcessor_proofs`, `Emulation_proofs` and `Netplay_proofs`. They assume
what the modules state of their constants: `HalfAssumption` (HALF > 2),
`PoolAssumption` (at least two nodes), `InterruptAssumption` (types of the
instance's sets), `WorkersAssumption` (finitely many threads), `WorkAssumption`
(work of the core is not a dismissal), `SavestatesAssumption`, `SiAssumption`,
`PiAssumption`, `AiAssumption`, `SpDmaAssumption`, `QuietAssumption`,
`SpAssumption`, `HabitsAssumption`, `NetplayAssumption`. The bounds (MAX_LATE,
MAX_CHECKS, MAX_SAVES, MAX_DP, MAX_COUNT and so on) are constants of any size. What a
theorem asks of programs or front ends beyond that (POLITE, SP_POLITE, QUIET,
PATIENT, CPU_UNFREEZES, HABITS) is a hypothesis of its statement.

*`TypeCorrect`, `TimersAlwaysQueued` (`R4300Interrupt`).* The inductive invariant
is `Good(dev)`: the record has its type, the queue fits in the pool, and each
timer is queued exactly once. The point of the argument is the pool: an addition
to a full pool is dropped, so re-adding a timer is only safe because the event
was removed *before* it was added again, and the queue had fitted the pool, so
that a node is free. Every handler and every MTC0 keeps to that order
(`BadSpecialHandler` does not). There is one lemma per operator
(`...Good`), and one step per action.

*`CompareAlwaysArmed`.* `Good` also says that the COMPARE_INT in the queue is at
the count in COMPARE, as long as the front end asks for no soft reset. The
hypothesis is needed: `nmi_int_handler` puts COMPARE_INT back at 0 and keeps the
register. Nothing is asked of the program or the pool: COMPARE_INT is always
added right after it was removed, so a node is free.

*`InterruptNeverLost`.* The invariant `HInv` strengthens the property: a waiting
interrupt has a CHECK_INT at the head of the queue, due for `cycle_count` ticks
and less than half a turn, and `cycle_count` is exactly that age (`HeadCheck`).
The age is what makes it inductive: an event added meanwhile is placed behind
the head because `before_event` reads `cycle_count` as the age of the head. Each
handler that opens the way for an interrupt (STATUS, the mask, ERET, a line)
establishes `HeadCheck`; each other one either takes the exception, which sets
EXL, or keeps it. Two hypotheses: no instruction takes half the range of COUNT,
and the pool has a node left in every state, because `r4300_check_interrupt`
drops the CHECK_INT of a full pool (hazard `interrupt.c:356`).

*`CycleCountIsHead`, `HeadNeverFar`, `EventsLeaveInOrder`, `TimerRisesOnTime`.*
Counts are compared modulo the range of COUNT, so an order of them means nothing
by itself. The proof gives each queue a *line*: unbounded integers `o[1..n]`,
not decreasing, of which the queue's counts are the remainders, relative to
COUNT (`InOrder` in `EventQueue_proofs`). Only COMPARE_INT may be a whole turn
ahead, all others are within half a turn, and any two are less than a turn
apart: then `before_event` finds on the circle the place that the line has for a
new event (`InsertionPoint`), and moving COUNT moves the line. `Placed(d, h)`
says that the head is at tick h, late by no more than a jump and its slot allow
(`Late`), and that `cycle_count` is -h, but for an exception in a delay slot.
`Quiet` says that no CHECK_INT is queued, for without SIGNALS it is taken in the
instruction that queues it; `Held` and `Ordered` say when a jump may be
abandoned; `Settled` covers the time inside a load. The invariant is `OInv`,
`HInv` with `Ordered`; there is a lemma per operator, handler and instruction,
and the properties follow from `Ordered`. SPECIAL_INT and the VI carry the proof
that the head is near: `Paced` says that one of them is queued, and they are
never further away than half a turn.

The hypotheses of the four are those of the run, for every value:
`[][AwayFromCompare]_dev` and `[]NodeLeft`, discussed in section 4, and `Tuned`:
without cancellations (which leave `cycle_count` behind), signals (whose
CHECK_INT may break the order, both in section 4) and soft resets (which move
the timer to 0), delays and the power-on COUNT of at most HALF, the VI no
further away than HALF and more than a jump apart, and instructions and
lateness far below HALF. In the program HALF is 2^31 and the others are at most
millions of cycles. The constants of `r4300_order` satisfy `Tuned`.

*`NoWakeupLost`, `AllWorkDone` (`WorkQueue`).* The first is of any use of the
queue and rests on `Wakeups`, which adds a fact to the types and `NoLostWakeup`.
`IdleThreads`: a thread on the list of
waiting threads waits, or looks for work after it left its wait by itself. The second assumes
`QueuesInTime`, that nothing is queued once shutdown has begun, which the code
leaves to the callers. `DismissalsLast`: the dismissals that no thread has taken yet are exactly the
tail of the queue, and once one has been taken nothing else is queued; there is
one dismissal per thread, so when all threads have ended the queue is empty.

*`Savestates`.* `SavesNotLeftBehind` has the invariant of the queue and `GameOver`:
dismissals are queued only after the end of the emulation thread, which is the
one that captures states. So each step keeps what `AllWorkDone` asks of callers.
`NeverTornLoad` rests on `LockInv`: a torn file has a worker that owns the lock;
at depth one that worker is at `open` with no torn file or at `write` with its
own file torn. A failed open or write leaves the lock owned, more deeply locked
by each later write of that worker, so a torn file never becomes readable.
`LatestSaveOnDisk` is of one worker, which is what the program starts
(WORKQUEUE_THREADS), and of writes that do not fail; two workers could overtake
each other between the queue and the lock. Its invariant `OrderInv` follows a
capture on its way: the last save queued for a file, else the one being written,
else the file itself, holds the state captured for that file last. `SavesInOrder`,
under the same hypotheses, is the refinement of `SaveOrder`: `QueueOrder` says
that the states in the queue ascend and that the one being written is older than
all of them, so the step that ends a write stores the oldest state pending for
its file; a capture adds the newest, and every other step stutters.

*`RcpDma`.* The four engines share no state but the resets, so the invariant
`RcpInv` is a conjunction of one per engine, and each step disturbs one of them.
A busy engine is served because nothing but the reset that also clears its busy
bit removes its event. For the SI (`SiInv`) the direction of the pending
transfer says the same as the busy bit. For the AI (`AiInv`) a noted change of
the rate is of a rate that has been written. For the SP (`SpInv`) each of the
two entries of the fifo holds the addresses written for it and not those of a
later store. `SiQueueImplemented`, `SpQueueImplemented` and `StreamImplemented`
map the engines to `DmaQueue` and `AudioStream`; `AlwaysBusyServed` and
`FormatAlwaysPassedOn` are the invariants the runs check.

*`SignalProcessor`.* All theorems rest on `RspInv`, which relates what the RSP
waits for to the queue and to the two copies of its status. `SpServed`: an
SP_INT is queued exactly while the RSP waits for one, and for one reason.
`HaltSeen`: a halted RSP waits to be started, and one that waits while its
register says that it runs has ended a task whose interrupt is on its way.
`BrokeSeen`: BROKE is seen in no register while an SP_INT is queued.
`Waiting`: an RSP that waits for nothing has RSP_TSK_EVT queued. `Served`, the
invariant without `Waiting`, is what holds whenever do_SP_Task is called, in the
middle of a handler; one lemma shows that do_SP_Task turns it into `RspInv`, and
each handler is then a lemma that its assignments up to that call keep `Served`.
The end of a freeze forgets a delayed DP_INT after the RSP may have run;
`DoSpTaskNoSync` shows that this run cannot have left a new one, since the DP
line is set during it. PATIENT is needed by `HaltedServed` and QUIET by
`NmiKeeps`, and by nothing else. CPU_UNFREEZES is a hypothesis of `AlwaysServed`
alone: `DpServed` keeps the freeze under a note for the RDP only with it (`Noted`),
but without it for an RSP that waits, since that RSP cannot end a freeze.

*`Emulation`.* `TypeCorrect` holds of every front end. `AlwaysPausedAsAsked` is
of those that keep to all three habits: its invariant names, for each command
accepted last, how far its steps have come and what the flags are at that point
(`Underway`, `Advancing`), and when the emulation thread may be where (`Flags`).

*`Netplay`.* `Lists`: an input that a client holds is one the server has decided
at that position, not yet taken (`HeldExact`), and no two places of a list hold
the same position (`HeldOnce`): `Wanted` looks with `check_valid` before an input
is put in front, and a taken one is removed at its place.
`Threads`: the request thread runs only in the loop of netplay_ensure_valid, and
once it is content the input is there, so that the input taken after the loop is
the one asked for. `InputsInLockStep` then maps the taking of an input to `Feed`
of `LockStep` and the server's decision to `Decide`; `BufferAlwaysExact` is
`Lists` without the record. No bound, no fairness and no
assumption on the network is used.

Only model-checked: liveness (`ResetServed`, `SaveServed`, `NmiServed`,
`LoadEnds`, `SavesWritten`, `RoomAgain`, `Completes`, `NeverHangs`,
`StopServed`: fairness and ENABLED are beyond the provers), and `LoadRestores`:
what `LoadEventQueue` rebuilds is a fold over the captured events, and induction
over data is beyond them too. Every other property of a passing run is stated by
a theorem.

## 6. Not modelled

What instructions compute, memory, graphics and sound; caches and TLB beyond the
cycles they cost; the layout of savestate files and the state of devices other
than CPU, MI and queue in them; the bytes DMA moves and how long it takes; what
the RSP's microcode computes; the TCP half of netplay; failure to allocate
memory or create threads; the dynamic recompilers, which the build does not
select; parallel-rdp, parallel-rsp and the subprojects, which are vendored
libraries and most of the repository's lines; the components listed as
`not_modelled` in `PROJECT.json`, each with its reason.
