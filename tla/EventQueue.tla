----------------------------- MODULE EventQueue -----------------------------
(***************************************************************************)
(* The interrupt event queue of the emulated R4300                         *)
(* (device/r4300/interrupt.c): a list of <<type, count>> nodes taken from  *)
(* a fixed pool, kept in the order in which the COUNT register will reach  *)
(* their counts.                                                           *)
(*                                                                         *)
(* Operators whose names start with Bad are faulty variants of the next    *)
(* definition; nothing uses them. They show that the checks notice.        *)
(*                                                                         *)
(* The operators take and return a "cp0" record with at least the fields   *)
(*   count   the COUNT register, an unsigned integer modulo COUNT_MOD,     *)
(*   cycle   cycle_count, the (signed) distance from the head event to     *)
(*           COUNT: an interrupt is taken when it is not negative,         *)
(*   q       the list, q[1] being cp0->q.first,                            *)
(*   compare the COMPARE register.                                         *)
(* next_interrupt is left out: the interpreters write it and never read it.*)
(* The pool itself is left out: a node is available when the list is       *)
(* shorter than the pool.                                                  *)
(***************************************************************************)
EXTENDS Integers, Sequences, SequencesExt

CONSTANTS
  HALF,           (* half the range of COUNT; 2^31 in the program          *)
  POOL_CAPACITY   (* INTERRUPT_NODES_POOL_CAPACITY; 16 in the program      *)

ASSUME HalfAssumption == HALF \in Nat /\ HALF > 2
ASSUME PoolAssumption == POOL_CAPACITY \in Nat /\ POOL_CAPACITY >= 2

COUNT_MOD == 2 * HALF
Counts    == 0 .. COUNT_MOD - 1

(* Unsigned wrap-around, and the reading of an unsigned value as an int.   *)
Wrap(n)   == n % COUNT_MOD
Signed(n) == IF n >= HALF THEN n - COUNT_MOD ELSE n

CompareEvent == "COMPARE_INT"
SpecialEvent == "SPECIAL_INT"
CheckEvent   == "CHECK_INT"

Event(type, count) == [type |-> type, count |-> count]

-----------------------------------------------------------------------------
(* Look-ups.                                                               *)

IndicesOf(q, type) == {i \in DOMAIN q : q[i].type = type}
Queued(q, type)    == IndicesOf(q, type) # {}
QueuedOnce(q, type) ==
  \E i \in DOMAIN q : \A j \in DOMAIN q : (q[j].type = type) <=> (j = i)

(* get_event: the count of the first event of this type.                   *)
EventCount(q, type) == q[Min(IndicesOf(q, type))].count

(* cycle_count as every update of the queue leaves it.                     *)
HeadCycles(c) == IF c.q = <<>> THEN 0 ELSE Signed(Wrap(c.count - c.q[1].count))

-----------------------------------------------------------------------------
(* Ordering: counts are compared by their distance from COUNT or, when the *)
(* head is overdue (cycle_count > 0), from the count of that head.         *)

BadOrderBase(c) == c.count

OrderBase(c) == IF c.cycle > 0 THEN c.count - c.cycle ELSE c.count

BeforeEvent(c, n1, n2) == Wrap(n1 - OrderBase(c)) < Wrap(n2 - OrderBase(c))

(* The new event goes in front of the first queued event it precedes.      *)
BadInsertPosition(c, n) == 1

InsertPosition(c, n) ==
  LET later == {i \in DOMAIN c.q : BeforeEvent(c, n, c.q[i].count)}
  IN  IF later = {} THEN Len(c.q) + 1 ELSE Min(later)

(* When no node is left the event is dropped with an error message.        *)
AddEventCount(c, type, n) ==
  IF Len(c.q) >= POOL_CAPACITY THEN c
  ELSE LET e == [c EXCEPT !.q = InsertAt(@, InsertPosition(c, n), Event(type, n))]
       IN  [e EXCEPT !.cycle = HeadCycles(e)]

AddEvent(c, type, delay) == AddEventCount(c, type, Wrap(c.count + delay))

(* remove_interrupt_event: the head leaves and cycle_count is recomputed.  *)
BadRemoveHead(c) == [c EXCEPT !.q = Tail(@)]

RemoveHead(c) ==
  LET e == [c EXCEPT !.q = Tail(@)] IN [e EXCEPT !.cycle = HeadCycles(e)]

(* remove_event: the first event of this type leaves; cycle_count is NOT   *)
(* recomputed, even if that event was the head.                            *)
RemoveEvent(c, type) ==
  IF Queued(c.q, type)
  THEN [c EXCEPT !.q = RemoveAt(@, Min(IndicesOf(c.q, type)))]
  ELSE c

-----------------------------------------------------------------------------
(* The two events that are always queued.                                  *)

(* The count at which the fake interrupt fires: the half range ahead.      *)
BadSpecialCount(n) == IF n >= HALF THEN HALF ELSE 0

SpecialCount(n) == IF n >= HALF THEN 0 ELSE HALF

AddSpecial(c) == AddEventCount(c, SpecialEvent, SpecialCount(c.count))

(* COMPARE_INT is placed as if COUNT were two ticks later, so that an      *)
(* event for COUNT itself is a whole turn away; cycle_count is then        *)
(* recomputed from the true COUNT.                                         *)
AddCompare(c, n) ==
  LET ahead == [c EXCEPT !.count = Wrap(@ + 2), !.cycle = @ + 2]
      added == [AddEventCount(ahead, CompareEvent, n) EXCEPT !.count = c.count]
  IN  [added EXCEPT !.cycle = HeadCycles(added)]

(* clear_queue followed by the two additions of init_interrupt.            *)
InitInterrupt(c) ==
  AddEventCount(AddEventCount([c EXCEPT !.q = <<>>], SpecialEvent, HALF),
                CompareEvent, 0)

(* A write of COUNT moves every event so that its distance is kept, and    *)
(* places the two absolute events again.                                   *)
BadTranslateEventQueue(c, base) ==
  LET rest == RemoveEvent(c, SpecialEvent)
  IN  AddSpecial([rest EXCEPT
        !.q = [i \in DOMAIN @ |->
                 Event(@[i].type, Wrap(@[i].count - c.count + base))],
        !.count = base])

TranslateEventQueue(c, base) ==
  LET rest    == RemoveEvent(RemoveEvent(c, CompareEvent), SpecialEvent)
      shifted == [rest EXCEPT
                   !.q = [i \in DOMAIN @ |->
                            Event(@[i].type, Wrap(@[i].count - c.count + base))],
                   !.count = base]
  IN  AddCompare(AddSpecial(shifted), c.compare)

-----------------------------------------------------------------------------
(* save_eventqueue_infos / load_eventqueue_infos: the list is written from *)
(* its head and rebuilt by adding the events one by one; the fake event is *)
(* placed again.                                                           *)

SaveEventQueue(c) == c.q

BadLoadEventQueue(c, saved) ==
  AddSpecial(RemoveEvent(
    FoldLeft(LAMBDA d, e : AddEventCount(d, e.type, e.count), c, saved),
    SpecialEvent))

LoadEventQueue(c, saved) ==
  AddSpecial(RemoveEvent(
    FoldLeft(LAMBDA d, e : AddEventCount(d, e.type, e.count),
             [c EXCEPT !.q = <<>>], saved),
    SpecialEvent))

=============================================================================
