----------------------- MODULE R4300Interrupt_proofs -----------------------
(***************************************************************************)
(* Every reachable state of R4300Interrupt is well typed, fits in the pool *)
(* and has exactly one COMPARE_INT and one SPECIAL_INT queued, whatever    *)
(* the constants are: sizes, delays, values written, devices and jobs.     *)
(* COMPARE_INT is queued for the COMPARE register and, while the pool has  *)
(* a node left, no accepted interrupt is forgotten. Of programs that keep  *)
(* away from COMPARE (AwayFromCompare), the events are in order around the *)
(* wrap of COUNT, cycle_count tells how far the head is, and the timer     *)
(* line rises on time.                                                     *)
(*                                                                         *)
(* In this order: types, the pool and the timers (invariant Good), CAUSE   *)
(* and the MI (HInv), order and time (OInv).                               *)
(***************************************************************************)
EXTENDS R4300Interrupt, EventQueue_proofs

Fits(d)  == d \in Device /\ Len(d.q) <= POOL_CAPACITY
Timers(d) == QueuedOnce(d.q, CompareEvent) /\ QueuedOnce(d.q, SpecialEvent)

(* COMPARE_INT is queued for the COMPARE register. The NMI breaks it: it   *)
(* puts COMPARE_INT back at 0 and leaves the register. So, as long as the  *)
(* front end has no soft reset to ask for, no NMI is queued.               *)
Armed(d) == ArmedAt(d.q, CompareEvent, d.compare) /\ ~Queued(d.q, NMIEvent)
NoNMI    == "soft" \notin JOBS
Good(d)  == Fits(d) /\ Timers(d) /\ (NoNMI => Armed(d))

(* The step from d to e leaves the events of type t alone.                 *)
Kept(d, e, t) ==
  /\ \A n : ArmedAt(d.q, t, n) => ArmedAt(e.q, t, n)
  /\ QueuedOnce(d.q, t) => QueuedOnce(e.q, t)
  /\ ~Queued(d.q, t) => ~Queued(e.q, t)

-----------------------------------------------------------------------------
(* Types.                                                                  *)

(* Everything but the queue, COUNT and cycle_count is the same.            *)
SameButCount(d, e) ==
  /\ e.compare = d.compare /\ e.ie = d.ie /\ e.exl = d.exl
  /\ e.im = d.im /\ e.ip = d.ip /\ e.slot = d.slot /\ e.skip = d.skip
  /\ e.unsafe = d.unsafe /\ e.intr = d.intr /\ e.mask = d.mask /\ e.job = d.job
  /\ e.loading = d.loading /\ e.reset = d.reset

(* Everything but the flags of interrupt_unsafe_state and of the RSP is the*)
(* same.                                                                   *)
SameButFlags(d, e) ==
  /\ e \in Device /\ e.q = d.q /\ e.count = d.count /\ e.cycle = d.cycle
  /\ e.compare = d.compare /\ e.ie = d.ie /\ e.exl = d.exl
  /\ e.im = d.im /\ e.ip = d.ip /\ e.slot = d.slot /\ e.skip = d.skip
  /\ e.intr = d.intr /\ e.mask = d.mask /\ e.job = d.job
  /\ e.loading = d.loading /\ e.reset = d.reset

(* Everything but the queue and cycle_count is the same.                   *)
SameRest(d, e) == e.count = d.count /\ SameButCount(d, e)

(* An event of a device, of the VI or of the CPU is an entry of the queue. *)
LEMMA EntryType == EventType = Entry(EventTypes)
  BY DEF EventType, Entry

(* A device whose queue is replaced is still typed.                        *)
LEMMA DeviceQueue ==
  ASSUME NEW d \in Device, NEW r \in Seq(EventType)
  PROVE  /\ [d EXCEPT !.q = r] \in Device
         /\ [d EXCEPT !.q = r].q = r /\ [d EXCEPT !.q = r].cycle = d.cycle
         /\ SameRest(d, [d EXCEPT !.q = r])
  BY DEF Device, SameRest, SameButCount

(* cycle_count may be set to any integer.                                  *)
LEMMA DeviceCycle ==
  ASSUME NEW d \in Device, NEW n \in Int
  PROVE  /\ [d EXCEPT !.cycle = n] \in Device
         /\ [d EXCEPT !.cycle = n].q = d.q /\ [d EXCEPT !.cycle = n].cycle = n
         /\ SameRest(d, [d EXCEPT !.cycle = n])
  BY DEF Device, SameRest, SameButCount

(* So does the note that a jump is abandoned.                              *)
LEMMA DeviceSkip ==
  ASSUME NEW d \in Device, NEW b \in BOOLEAN, NEW n \in Int
  PROVE  /\ [d EXCEPT !.skip = b, !.cycle = n] \in Device
         /\ [d EXCEPT !.skip = b, !.cycle = n].q = d.q
         /\ [d EXCEPT !.skip = b, !.cycle = n].cycle = n
         /\ [d EXCEPT !.skip = b, !.cycle = n].count = d.count
         /\ [d EXCEPT !.skip = b, !.cycle = n].compare = d.compare
  BY DEF Device

(* The value an exception in a delay slot gives cycle_count.               *)
LEMMA ZeroInt == 0 \in Int
  OBVIOUS

(* COUNT plus a delay stays in its range.                                  *)
LEMMA WrapSum == \A m \in Counts : \A n \in Int : Wrap(m + n) \in Counts
<1> SUFFICES ASSUME NEW m \in Counts, NEW n \in Int PROVE Wrap(m + n) \in Counts
  OBVIOUS
<1>1. m + n \in Int
  BY HalfAssumption DEF Counts, COUNT_MOD
<1> QED
  BY <1>1, WrapType

(* cycle_count is an integer however the queue is updated.                 *)
LEMMA HeadCyclesType ==
  ASSUME NEW d \in Device
  PROVE  HeadCycles(d) \in Int
<1>1. CASE d.q = <<>>
  BY <1>1 DEF HeadCycles
<1>2. CASE d.q # <<>>
  <2>1. d.q[1] \in EventType /\ d.count \in Counts
    BY <1>2 DEF Device
  <2>2. d.count - d.q[1].count \in Int
    BY <2>1, HalfAssumption DEF EventType, Counts, COUNT_MOD
  <2> QED
    BY <1>2, <2>2, WrapType, SignedType DEF HeadCycles
<1> QED
  BY <1>1, <1>2

(* A new event is placed inside the queue or at its end.                   *)
LEMMA InsertPositionType ==
  ASSUME NEW d \in Device, NEW n \in Counts
  PROVE  InsertPosition(d, n) \in 1 .. Len(d.q) + 1
<1> DEFINE later == {i \in DOMAIN d.q : BeforeEvent(d, n, d.q[i].count)}
<1>1. Len(d.q) \in Nat /\ DOMAIN d.q = 1 .. Len(d.q)
  BY LenProperties DEF Device
<1>2. later \subseteq 1 .. Len(d.q) /\ later \subseteq Nat
  BY <1>1
<1> HIDE DEF later
<1>3. CASE later = {}
  BY <1>1, <1>3 DEF InsertPosition, later
<1>4. CASE later # {}
  <2>1. Min(later) \in later
    BY <1>2, <1>4, MinNat
  <2>2. InsertPosition(d, n) = Min(later)
    BY <1>4, Zenon DEF InsertPosition, later
  <2>3. Min(later) \in 1 .. Len(d.q)
    BY <1>2, <2>1, Zenon
  <2> QED
    BY <1>1, <2>2, <2>3
<1> QED
  BY <1>3, <1>4

-----------------------------------------------------------------------------
(* The operations of the queue.                                            *)

(* An added event leaves the other types alone, and is there if its type   *)
(* was absent and a node was free.                                         *)
LEMMA AddEventCountProps ==
  ASSUME NEW d, Fits(d), NEW type \in EventTypes, NEW n \in Counts
  PROVE  /\ Fits(AddEventCount(d, type, n))
         /\ Len(AddEventCount(d, type, n).q) <= Len(d.q) + 1
         /\ \A t : t # type => Kept(d, AddEventCount(d, type, n), t)
         /\ ~Queued(d.q, type) /\ Len(d.q) < POOL_CAPACITY
              => /\ QueuedOnce(AddEventCount(d, type, n).q, type)
                 /\ ArmedAt(AddEventCount(d, type, n).q, type, n)
         /\ SameRest(d, AddEventCount(d, type, n))
<1>0. d \in Device /\ d.q \in Seq(EventType) /\ Len(d.q) \in Nat /\ Len(d.q) <= POOL_CAPACITY
  BY LenProperties DEF Fits, Device
<1>1. CASE Len(d.q) >= POOL_CAPACITY
  <2>1. AddEventCount(d, type, n) = d
    BY <1>1 DEF AddEventCount
  <2> QED
    BY <1>0, <1>1, <2>1, PoolAssumption DEF Fits, Kept, SameRest, SameButCount
<1>2. CASE ~(Len(d.q) >= POOL_CAPACITY)
  <2> DEFINE i == InsertPosition(d, n)
             x == Event(type, n)
             r == InsertAt(d.q, i, x)
             e == [d EXCEPT !.q = r]
             f == [e EXCEPT !.cycle = HeadCycles(e)]
  <2>1. i \in 1 .. Len(d.q) + 1
    BY <1>0, InsertPositionType
  <2>2. x \in EventType /\ x.type = type /\ x.count = n
    BY DEF Event, EventType
  <2>3. r \in Seq(EventType) /\ Len(r) = Len(d.q) + 1
    <3> HIDE DEF i, x
    <3> QED
      BY <1>0, <2>1, <2>2, InsertAtProps
  <2>4. AddEventCount(d, type, n) = f
    BY <1>2, Zenon DEF AddEventCount
  <2>5. /\ \A t : t # type => /\ \A m : ArmedAt(d.q, t, m) => ArmedAt(r, t, m)
                              /\ QueuedOnce(d.q, t) => QueuedOnce(r, t)
                              /\ ~Queued(d.q, t) => ~Queued(r, t)
        /\ ~Queued(d.q, type) => QueuedOnce(r, type) /\ ArmedAt(r, type, n)
    <3> HIDE DEF i, x
    <3>1. d.q \in Seq(Entry(EventTypes)) /\ x \in Entry(EventTypes)
      BY <1>0, <2>2, EntryType
    <3>2. ASSUME NEW t, t # type
          PROVE  /\ \A m : ArmedAt(d.q, t, m) => ArmedAt(r, t, m)
                 /\ QueuedOnce(d.q, t) => QueuedOnce(r, t)
                 /\ ~Queued(d.q, t) => ~Queued(r, t)
      BY <3>1, <3>2, <2>1, <2>2, InsertOther, Zenon
    <3>3. ~Queued(d.q, type) => QueuedOnce(r, type) /\ ArmedAt(r, type, n)
      BY <3>1, <2>1, <2>2, InsertNew, Zenon
    <3> QED
      BY <3>2, <3>3, Zenon
  <2> HIDE DEF r
  <2>6. e \in Device /\ e.q = r /\ SameRest(d, e)
    BY <1>0, <2>3, DeviceQueue
  <2> HIDE DEF e
  <2>7. f \in Device /\ f.q = r /\ SameRest(e, f)
    BY <2>6, HeadCyclesType, DeviceCycle
  <2> HIDE DEF f
  <2>8. Fits(f) /\ Len(f.q) <= Len(d.q) + 1
    BY <1>0, <1>2, <2>3, <2>7, PoolAssumption DEF Fits
  <2>9. SameRest(d, f)
    BY <2>6, <2>7, Zenon DEF SameRest, SameButCount
  <2> QED
    BY <2>4, <2>5, <2>7, <2>8, <2>9, Zenon DEF Kept
<1> QED
  BY <1>1, <1>2

(* Removing the head frees a node and leaves the other types alone.        *)
LEMMA RemoveHeadProps ==
  ASSUME NEW d, Fits(d), d.q # <<>>
  PROVE  /\ Fits(RemoveHead(d))
         /\ Len(RemoveHead(d).q) < POOL_CAPACITY
         /\ \A t : t # d.q[1].type => Kept(d, RemoveHead(d), t)
         /\ QueuedOnce(d.q, d.q[1].type) => ~Queued(RemoveHead(d).q, d.q[1].type)
         /\ SameRest(d, RemoveHead(d))
<1>0. d \in Device /\ d.q \in Seq(EventType) /\ Len(d.q) \in Nat /\ Len(d.q) <= POOL_CAPACITY
  BY LenProperties DEF Fits, Device
<1> DEFINE r == Tail(d.q)
           e == [d EXCEPT !.q = r]
           f == [e EXCEPT !.cycle = HeadCycles(e)]
<1>1. r = RemoveAt(d.q, 1) /\ 1 \in 1 .. Len(d.q)
  BY <1>0, TailIsRemoveAt, Zenon
<1>2. r \in Seq(EventType) /\ Len(r) = Len(d.q) - 1
  BY <1>0, <1>1, RemoveAtProps
<1>3. d.q \in Seq(Entry(EventTypes))
  BY <1>0, EntryType
<1>4. \A t : t # d.q[1].type => /\ \A m : ArmedAt(d.q, t, m) => ArmedAt(r, t, m)
                                /\ QueuedOnce(d.q, t) => QueuedOnce(r, t)
                                /\ ~Queued(d.q, t) => ~Queued(r, t)
  BY <1>1, <1>3, RemoveOther, Zenon
<1>5. QueuedOnce(d.q, d.q[1].type) => ~Queued(r, d.q[1].type)
  BY <1>1, <1>3, RemoveOnly, Zenon
<1>6. RemoveHead(d) = f
  BY DEF RemoveHead
<1> HIDE DEF r
<1>7. e \in Device /\ e.q = r /\ SameRest(d, e)
  BY <1>0, <1>2, DeviceQueue
<1> HIDE DEF e
<1>8. f \in Device /\ f.q = r /\ SameRest(e, f)
  BY <1>7, HeadCyclesType, DeviceCycle
<1> HIDE DEF f
<1>9. Fits(f) /\ Len(f.q) < POOL_CAPACITY
  BY <1>0, <1>2, <1>8, PoolAssumption DEF Fits
<1>10. SameRest(d, f)
  BY <1>7, <1>8, Zenon DEF SameRest, SameButCount
<1> QED
  BY <1>4, <1>5, <1>6, <1>8, <1>9, <1>10, Zenon DEF Kept

(* Removing the only event of a type frees a node and leaves none.         *)
LEMMA RemoveEventProps ==
  ASSUME NEW d, Fits(d), NEW type
  PROVE  /\ Fits(RemoveEvent(d, type))
         /\ Len(RemoveEvent(d, type).q) <= Len(d.q)
         /\ Queued(d.q, type) => Len(RemoveEvent(d, type).q) = Len(d.q) - 1
         /\ \A t : t # type => Kept(d, RemoveEvent(d, type), t)
         /\ QueuedOnce(d.q, type) => ~Queued(RemoveEvent(d, type).q, type)
         /\ RemoveEvent(d, type).cycle = d.cycle /\ SameRest(d, RemoveEvent(d, type))
<1>0. d \in Device /\ d.q \in Seq(EventType) /\ Len(d.q) \in Nat /\ Len(d.q) <= POOL_CAPACITY
  BY LenProperties DEF Fits, Device
<1>1. CASE ~Queued(d.q, type)
  <2>1. RemoveEvent(d, type) = d
    BY <1>1 DEF RemoveEvent
  <2> QED
    BY <1>0, <1>1, <2>1 DEF Fits, Kept, SameRest, SameButCount
<1>2. CASE Queued(d.q, type)
  <2> DEFINE i == Min(IndicesOf(d.q, type))
             r == RemoveAt(d.q, i)
             e == [d EXCEPT !.q = r]
  <2>1. i \in 1 .. Len(d.q) /\ d.q[i].type = type
    BY <1>0, <1>2, FirstOfType, Zenon
  <2>2. RemoveEvent(d, type) = e
    BY <1>2, Zenon DEF RemoveEvent
  <2> HIDE DEF i
  <2>3. r \in Seq(EventType) /\ Len(r) = Len(d.q) - 1
    BY <1>0, <2>1, RemoveAtProps
  <2>4. d.q \in Seq(Entry(EventTypes))
    BY <1>0, EntryType
  <2>5. \A t : t # type => /\ \A m : ArmedAt(d.q, t, m) => ArmedAt(r, t, m)
                           /\ QueuedOnce(d.q, t) => QueuedOnce(r, t)
                           /\ ~Queued(d.q, t) => ~Queued(r, t)
    BY <2>1, <2>4, RemoveOther, Zenon
  <2>6. QueuedOnce(d.q, type) => ~Queued(r, type)
    BY <2>1, <2>4, RemoveOnly, Zenon
  <2> HIDE DEF r
  <2>7. e \in Device /\ e.q = r /\ e.cycle = d.cycle /\ SameRest(d, e)
    BY <1>0, <2>3, DeviceQueue
  <2> HIDE DEF e
  <2>8. Fits(e) /\ Len(e.q) = Len(d.q) - 1 /\ Len(e.q) <= Len(d.q)
    BY <1>0, <2>3, <2>7, PoolAssumption DEF Fits
  <2> QED
    BY <2>2, <2>5, <2>6, <2>7, <2>8, Zenon DEF Kept
<1> QED
  BY <1>1, <1>2

-----------------------------------------------------------------------------
(* The timers.                                                             *)

(* The timer events and the NMI are event types.                           *)
LEMMA TimerTypes ==
  /\ CompareEvent \in EventTypes /\ SpecialEvent \in EventTypes /\ NMIEvent \in EventTypes
  /\ CompareEvent # SpecialEvent /\ NMIEvent # CompareEvent /\ NMIEvent # SpecialEvent
  BY DEF EventTypes, CompareEvent, SpecialEvent, NMIEvent

(* An event of a type outside the timers leaves both of them queued.       *)
LEMMA AddEventCountGood ==
  ASSUME NEW d, Good(d), NEW type \in EventTypes \ {CompareEvent, SpecialEvent},
         NoNMI => type # NMIEvent, NEW n \in Counts
  PROVE  Good(AddEventCount(d, type, n))
<1> DEFINE e == AddEventCount(d, type, n)
<1>1. Fits(e) /\ e.compare = d.compare /\ \A t : t # type => Kept(d, e, t)
  BY AddEventCountProps, Zenon DEF Good, SameRest, SameButCount
<1> HIDE DEF e
<1>2. Timers(e) /\ (NoNMI => Armed(e))
  BY <1>1, Zenon DEF Good, Timers, Armed, Kept
<1> QED
  BY <1>1, <1>2, Zenon DEF Good, e

(* A delay is added to COUNT modulo its range.                             *)
LEMMA AddEventGood ==
  ASSUME NEW d, Good(d), NEW type \in EventTypes \ {CompareEvent, SpecialEvent},
         NoNMI => type # NMIEvent, NEW delay \in Nat
  PROVE  Good(AddEvent(d, type, delay))
<1>1. d.count \in Counts
  BY DEF Good, Fits, Device
<1>2. Wrap(d.count + delay) \in Counts
  <2>1. delay \in Int
    OBVIOUS
  <2> QED
    BY <1>1, <2>1, WrapSum, Zenon
<1> QED
  BY <1>2, AddEventCountGood DEF AddEvent

(* A state that differs from a good one outside of its queue is good.      *)
LEMMA SameQueue ==
  ASSUME NEW d, Good(d), NEW e \in Device, e.q = d.q, e.compare = d.compare
  PROVE  Good(e)
  BY Zenon DEF Good, Fits, Timers, Armed

(* The flags are outside of everything else.                               *)
LEMMA FlagsOnly ==
  ASSUME NEW d \in Device, NEW u \in SUBSET {"R4300", "RSP", "RDP"}, NEW b \in BOOLEAN
  PROVE  /\ SameButFlags(d, [d EXCEPT !.unsafe = u])
         /\ SameButFlags(d, [d EXCEPT !.unsafe = u, !.goes_on = b])
         /\ [d EXCEPT !.unsafe = u].unsafe = u
  BY DEF Device, SameButFlags

LEMMA TaskFlags ==
  ASSUME NEW d \in Device, NEW t, NEW on \in BOOLEAN
  PROVE  SameButFlags(d, TaskStarted(d, t, on)) /\ SameButFlags(d, TaskEnded(d, t))
<1> DEFINE set == d.unsafe \cup {"RSP"}
           rdp == d.unsafe \cup {"RDP"}
           seen == IF d.goes_on THEN set ELSE d.unsafe \ {"RSP"}
           done == d.unsafe \ {"RDP"}
<1>1. /\ {set, rdp, seen, done} \subseteq SUBSET {"R4300", "RSP", "RDP"}
      /\ SameButFlags(d, d)
  BY DEF Device, SameButFlags
<1>2. /\ TaskStarted(d, t, on) \in {[d EXCEPT !.unsafe = set, !.goes_on = on],
                                     [d EXCEPT !.unsafe = rdp], d}
      /\ TaskEnded(d, t) \in {[d EXCEPT !.unsafe = seen, !.goes_on = FALSE],
                               [d EXCEPT !.unsafe = done], d}
  BY DEF TaskStarted, TaskEnded
<1> HIDE DEF set, rdp, seen, done
<1>3. /\ SameButFlags(d, [d EXCEPT !.unsafe = set, !.goes_on = on])
      /\ SameButFlags(d, [d EXCEPT !.unsafe = rdp])
  BY <1>1, FlagsOnly
<1>4. /\ SameButFlags(d, [d EXCEPT !.unsafe = seen, !.goes_on = FALSE])
      /\ SameButFlags(d, [d EXCEPT !.unsafe = done])
  BY <1>1, FlagsOnly
<1> QED
  BY <1>1, <1>2, <1>3, <1>4, Zenon

LEMMA R4300Flags ==
  ASSUME NEW d \in Device
  PROVE  /\ SameButFlags(d, R4300Unsafe(d)) /\ SameButFlags(d, R4300Safe(d))
         /\ SameButFlags(d, [d EXCEPT !.unsafe = @ \cup {"RSP"}])
         /\ R4300Unsafe(d).unsafe # {}
<1> DEFINE set == d.unsafe \cup {"R4300"}
           clear == d.unsafe \ {"R4300"}
           rsp == d.unsafe \cup {"RSP"}
<1>1. {set, clear, rsp} \subseteq SUBSET {"R4300", "RSP", "RDP"} /\ set # {}
  BY DEF Device
<1>2. /\ R4300Unsafe(d) = [d EXCEPT !.unsafe = set]
      /\ R4300Safe(d) = [d EXCEPT !.unsafe = clear]
      /\ [d EXCEPT !.unsafe = @ \cup {"RSP"}] = [d EXCEPT !.unsafe = rsp]
  BY DEF R4300Unsafe, R4300Safe
<1> HIDE DEF set, clear, rsp
<1>3. /\ SameButFlags(d, [d EXCEPT !.unsafe = set])
      /\ SameButFlags(d, [d EXCEPT !.unsafe = clear])
      /\ SameButFlags(d, [d EXCEPT !.unsafe = rsp])
  BY <1>1, FlagsOnly
<1>4. [d EXCEPT !.unsafe = set].unsafe = set
  BY DEF Device
<1> QED
  BY <1>1, <1>2, <1>3, <1>4, Zenon

LEMMA FlagsGood ==
  ASSUME NEW d, Good(d), NEW e, SameButFlags(d, e)
  PROVE  Good(e)
  BY SameQueue DEF SameButFlags

(* Placing the fake event when it is absent and a node is free.            *)
LEMMA AddSpecialProps ==
  ASSUME NEW d, Fits(d), ~Queued(d.q, SpecialEvent), Len(d.q) < POOL_CAPACITY
  PROVE  /\ Fits(AddSpecial(d))
         /\ Len(AddSpecial(d).q) <= Len(d.q) + 1
         /\ QueuedOnce(AddSpecial(d).q, SpecialEvent)
         /\ \A t : t # SpecialEvent => Kept(d, AddSpecial(d), t)
         /\ SameRest(d, AddSpecial(d))
<1>1. SpecialCount(d.count) \in Counts
  BY SpecialCountType DEF Fits, Device
<1> QED
  BY <1>1, TimerTypes, AddEventCountProps, Zenon DEF AddSpecial

(* Placing COMPARE_INT, which arms the timer if a node is free.            *)
LEMMA AddCompareProps ==
  ASSUME NEW d, Fits(d), NEW n \in Counts
  PROVE  /\ Fits(AddCompare(d, n))
         /\ ~Queued(d.q, CompareEvent) /\ Len(d.q) < POOL_CAPACITY
              => /\ ArmedAt(AddCompare(d, n).q, CompareEvent, n)
                 /\ QueuedOnce(AddCompare(d, n).q, CompareEvent)
         /\ \A t : t # CompareEvent => Kept(d, AddCompare(d, n), t)
         /\ SameRest(d, AddCompare(d, n))
<1> DEFINE ahead == [d EXCEPT !.count = Wrap(@ + 2), !.cycle = @ + 2]
           moved == AddEventCount(ahead, CompareEvent, n)
           added == [moved EXCEPT !.count = d.count]
           final == [added EXCEPT !.cycle = HeadCycles(added)]
<1>0. d \in Device /\ d.count \in Counts /\ d.cycle \in Int /\ Len(d.q) <= POOL_CAPACITY
  BY DEF Fits, Device
<1>1. Wrap(d.count + 2) \in Counts
  BY <1>0, WrapSum
<1>2. ahead \in Device /\ ahead.q = d.q /\ SameButCount(d, ahead)
  <2> DEFINE m == Wrap(d.count + 2)  n2 == d.cycle + 2
  <2>1. m \in Counts /\ n2 \in Int /\ ahead = [d EXCEPT !.count = m, !.cycle = n2]
    BY <1>0, <1>1
  <2> HIDE DEF m, n2, ahead
  <2> QED
    BY <1>0, <2>1 DEF Device, SameButCount
<1>3. AddCompare(d, n) = final
  BY DEF AddCompare
<1> HIDE DEF ahead
<1>4. Fits(ahead)
  BY <1>0, <1>2 DEF Fits
<1>5. /\ Fits(moved)
      /\ ~Queued(d.q, CompareEvent) /\ Len(d.q) < POOL_CAPACITY
           => QueuedOnce(moved.q, CompareEvent) /\ ArmedAt(moved.q, CompareEvent, n)
      /\ \A t : t # CompareEvent => Kept(ahead, moved, t)
      /\ SameRest(ahead, moved)
  BY <1>0, <1>2, <1>4, TimerTypes, AddEventCountProps
<1> HIDE DEF moved
<1>6. added \in Device /\ added.q = moved.q /\ added.count = d.count /\ SameButCount(moved, added)
  BY <1>0, <1>5 DEF Fits, Device, SameButCount
<1> HIDE DEF added
<1>7. final \in Device /\ final.q = moved.q /\ SameRest(added, final)
  BY <1>6, HeadCyclesType, DeviceCycle
<1> HIDE DEF final
<1>8. SameRest(d, final)
  <2>1. SameButCount(d, moved)
    BY <1>2, <1>5, Zenon DEF SameRest, SameButCount
  <2>2. SameRest(d, added)
    BY <2>1, <1>6, Zenon DEF SameRest, SameButCount
  <2> QED
    BY <2>2, <1>7, Zenon DEF SameRest, SameButCount
<1>9. \A t : t # CompareEvent => Kept(d, final, t)
  BY <1>2, <1>5, <1>7, Zenon DEF Kept
<1> QED
  BY <1>3, <1>5, <1>7, <1>8, <1>9, Zenon DEF Fits

(* A queue holding the fake event and no COMPARE_INT becomes good.         *)
LEMMA AddCompareGood ==
  ASSUME NEW d, Fits(d), d.compare \in Counts, QueuedOnce(d.q, SpecialEvent),
         ~Queued(d.q, CompareEvent), NoNMI => ~Queued(d.q, NMIEvent),
         Len(d.q) < POOL_CAPACITY
  PROVE  Good(AddCompare(d, d.compare))
<1> DEFINE e == AddCompare(d, d.compare)
<1>1. /\ Fits(e) /\ ArmedAt(e.q, CompareEvent, d.compare) /\ QueuedOnce(e.q, CompareEvent)
      /\ \A t : t # CompareEvent => Kept(d, e, t)
      /\ e.compare = d.compare
  BY AddCompareProps, Zenon DEF SameRest, SameButCount
<1> HIDE DEF e
<1>2. Timers(e) /\ (NoNMI => Armed(e))
  BY <1>1, TimerTypes, Zenon DEF Timers, Armed, Kept
<1> QED
  BY <1>1, <1>2, Zenon DEF Good, e

(* An event queued once is queued, and so the queue is not empty.          *)
LEMMA OnceQueued ==
  ASSUME NEW q, NEW t, QueuedOnce(q, t)
  PROVE  Queued(q, t)
  BY DEF QueuedOnce, Queued, IndicesOf

(* A good queue has a head, which gen_interrupt reads.                     *)
LEMMA GoodQueue ==
  ASSUME NEW d, Good(d)
  PROVE  /\ d.q # <<>> /\ d.q \in Seq(EventType) /\ Len(d.q) \in Nat
         /\ d.q[1].type \in EventTypes
<1>1. d.q \in Seq(EventType) /\ Len(d.q) \in Nat /\ DOMAIN d.q = 1 .. Len(d.q)
  BY LenProperties DEF Good, Fits, Device
<1>2. PICK k \in DOMAIN d.q : TRUE
  BY DEF Good, Timers, QueuedOnce
<1>3. Len(d.q) >= 1
  BY <1>1, <1>2
<1>4. d.q[1] \in EventType
  BY <1>1, <1>3
<1> QED
  BY <1>1, <1>3, <1>4 DEF EventType

(* init_interrupt queues both timers in an emptied queue.                  *)
LEMMA InitInterruptGood ==
  ASSUME NEW d \in Device, NoNMI => d.compare = 0
  PROVE  Good(InitInterrupt(d))
<1> DEFINE clear == [d EXCEPT !.q = <<>>]
           one == AddEventCount(clear, SpecialEvent, HALF)
<1>0. HALF \in Counts /\ 0 \in Counts
  BY HalfAssumption DEF Counts, COUNT_MOD
<1>1. <<>> \in Seq(EventType) /\ Len(<<>>) = 0
  OBVIOUS
<1>2. clear \in Device /\ clear.q = <<>> /\ clear.compare = d.compare
  <2>1. clear \in Device /\ clear.q = <<>> /\ SameRest(d, clear)
    BY <1>1, DeviceQueue, Zenon
  <2> QED
    BY <2>1 DEF SameRest, SameButCount
<1> HIDE DEF clear
<1>3. Fits(clear) /\ Len(clear.q) = 0 /\ Len(clear.q) < POOL_CAPACITY
  BY <1>1, <1>2, PoolAssumption DEF Fits
<1>4. \A t : ~Queued(clear.q, t)
  BY <1>2, NotQueued
<1>5. /\ Fits(one) /\ QueuedOnce(one.q, SpecialEvent)
      /\ ~Queued(one.q, CompareEvent) /\ ~Queued(one.q, NMIEvent)
      /\ Len(one.q) <= Len(clear.q) + 1 /\ SameRest(clear, one)
  <2>1. /\ Fits(one) /\ QueuedOnce(one.q, SpecialEvent)
        /\ \A t : t # SpecialEvent => Kept(clear, one, t)
        /\ Len(one.q) <= Len(clear.q) + 1 /\ SameRest(clear, one)
    BY <1>0, <1>3, <1>4, TimerTypes, AddEventCountProps, Zenon
  <2> QED
    BY <1>4, <2>1, TimerTypes, Zenon DEF Kept
<1> HIDE DEF one
<1>6. Len(one.q) < POOL_CAPACITY
  <2>1. Len(one.q) \in Nat
    BY <1>5, LenProperties DEF Fits, Device
  <2> QED
    BY <1>3, <1>5, <2>1, PoolAssumption
<1> DEFINE two == AddEventCount(one, CompareEvent, 0)
<1>7. /\ Fits(two) /\ QueuedOnce(two.q, CompareEvent) /\ ArmedAt(two.q, CompareEvent, 0)
      /\ \A t : t # CompareEvent => Kept(one, two, t)
      /\ SameRest(one, two)
  BY <1>0, <1>5, <1>6, TimerTypes, AddEventCountProps, Zenon
<1> HIDE DEF two
<1>8. Timers(two) /\ (NoNMI => Armed(two))
  <2>1. two.compare = d.compare
    BY <1>2, <1>5, <1>7 DEF SameRest, SameButCount
  <2> QED
    BY <2>1, <1>5, <1>7, TimerTypes, Zenon DEF Timers, Armed, Kept
<1>9. Good(two)
  BY <1>7, <1>8 DEF Good
<1> QED
  BY <1>9 DEF InitInterrupt, two, one, clear

(* The events moved with COUNT, from count to base.                        *)
Moved(q, count, base) ==
  [i \in DOMAIN q |-> Event(q[i].type, Wrap(q[i].count - count + base))]

Shift(d, count, base) == [d EXCEPT !.q = Moved(@, count, base), !.count = base]

(* A queue moved with COUNT has the same types in the same places.         *)
LEMMA ShiftProps ==
  ASSUME NEW d, Fits(d), NEW count \in Counts, NEW base \in Counts
  PROVE  /\ Fits(Shift(d, count, base))
         /\ Shift(d, count, base).q = Moved(d.q, count, base)
         /\ Len(Shift(d, count, base).q) = Len(d.q)
         /\ Shift(d, count, base).count = base /\ Shift(d, count, base).cycle = d.cycle
         /\ SameButCount(d, Shift(d, count, base))
         /\ \A t : ~Queued(d.q, t) => ~Queued(Shift(d, count, base).q, t)
<1> DEFINE r == Moved(d.q, count, base)
           e == Shift(d, count, base)
<1>0. /\ d \in Device /\ d.q \in Seq(EventType) /\ Len(d.q) \in Nat
      /\ DOMAIN d.q = 1 .. Len(d.q) /\ Len(d.q) <= POOL_CAPACITY
  BY LenProperties DEF Fits, Device
<1>1. r \in Seq(EventType) /\ Len(r) = Len(d.q)
  <2>1. ASSUME NEW i \in 1 .. Len(d.q)
        PROVE  Event(d.q[i].type, Wrap(d.q[i].count - count + base)) \in EventType
    <3>1. d.q[i] \in EventType
      BY <1>0
    <3>2. d.q[i].count - count + base \in Int
      BY <3>1, RangeType DEF EventType
    <3> QED
      BY <3>1, <3>2, WrapType DEF Event, EventType
  <2> QED
    BY <1>0, <2>1 DEF Moved
<1>2. DOMAIN r = DOMAIN d.q /\ \A i \in DOMAIN d.q : r[i].type = d.q[i].type
  BY DEF Event, Moved
<1> DEFINE f == [d EXCEPT !.q = r, !.count = base]
<1>3. e = f
  BY DEF Shift
<1> HIDE DEF r, e
<1>4. \A t : ~Queued(d.q, t) => ~Queued(r, t)
  BY <1>2, SameTypes, Zenon
<1>5. /\ e \in Device /\ e.q = r /\ e.count = base /\ e.cycle = d.cycle
      /\ SameButCount(d, e)
  <2>1. /\ f \in Device /\ f.q = r /\ f.count = base /\ f.cycle = d.cycle
        /\ SameButCount(d, f)
    <3>1. d \in Device /\ r \in Seq(EventType) /\ base \in Counts
      BY <1>0, <1>1
    <3> QED
      BY <3>1 DEF Device, SameButCount
  <2> HIDE DEF f
  <2> QED
    BY <1>3, <2>1, Zenon
<1>6. Fits(e)
  BY <1>0, <1>1, <1>5 DEF Fits
<1> QED
  BY <1>1, <1>4, <1>5, <1>6, Zenon DEF r, e

(* Moving every event by the change of COUNT keeps both timers queued.     *)
LEMMA TranslateGood ==
  ASSUME NEW d, Good(d), NEW base \in Counts
  PROVE  Good(TranslateEventQueue(d, base))
<1> DEFINE once == RemoveEvent(d, CompareEvent)
           rest == RemoveEvent(once, SpecialEvent)
           shifted == Shift(rest, d.count, base)
           special == AddSpecial(shifted)
<1>0. Fits(d) /\ d.count \in Counts /\ d.compare \in Counts /\ Len(d.q) \in Nat /\ Len(d.q) <= POOL_CAPACITY
  BY GoodQueue DEF Good, Fits, Device
<1>1. /\ Fits(once) /\ Len(once.q) = Len(d.q) - 1
      /\ QueuedOnce(once.q, SpecialEvent) /\ ~Queued(once.q, CompareEvent)
      /\ NoNMI => ~Queued(once.q, NMIEvent)
      /\ once.compare = d.compare
  BY <1>0, RemoveEventProps, OnceQueued, TimerTypes, Zenon
     DEF Good, Timers, Armed, Kept, SameRest, SameButCount
<1> HIDE DEF once
<1>2. /\ Fits(rest) /\ Len(rest.q) = Len(once.q) - 1
      /\ ~Queued(rest.q, SpecialEvent) /\ ~Queued(rest.q, CompareEvent)
      /\ NoNMI => ~Queued(rest.q, NMIEvent)
      /\ rest.compare = d.compare
  BY <1>1, RemoveEventProps, OnceQueued, TimerTypes, Zenon DEF Kept, SameRest, SameButCount
<1> HIDE DEF rest
<1>3. /\ Fits(shifted) /\ Len(shifted.q) = Len(rest.q)
      /\ ~Queued(shifted.q, SpecialEvent) /\ ~Queued(shifted.q, CompareEvent)
      /\ NoNMI => ~Queued(shifted.q, NMIEvent)
      /\ shifted.compare = d.compare
  <2>1. /\ Fits(shifted) /\ Len(shifted.q) = Len(rest.q) /\ SameButCount(rest, shifted)
        /\ \A t : ~Queued(rest.q, t) => ~Queued(shifted.q, t)
    BY <1>0, <1>2, ShiftProps, Zenon
  <2> HIDE DEF shifted
  <2> QED
    BY <2>1, <1>2, Zenon DEF SameButCount
<1> HIDE DEF shifted
<1>4. Len(shifted.q) = Len(d.q) - 2 /\ Len(shifted.q) < POOL_CAPACITY
  <2>1. Len(shifted.q) = (Len(d.q) - 1) - 1
    BY <1>1, <1>2, <1>3
  <2> QED
    BY <2>1, <1>0, PoolAssumption
<1>5. /\ Fits(special) /\ Len(special.q) <= Len(shifted.q) + 1
      /\ QueuedOnce(special.q, SpecialEvent) /\ ~Queued(special.q, CompareEvent)
      /\ NoNMI => ~Queued(special.q, NMIEvent)
      /\ special.compare = d.compare
  BY <1>3, <1>4, TimerTypes, AddSpecialProps, Zenon DEF Kept, SameRest, SameButCount
<1> HIDE DEF special
<1>6. Len(special.q) < POOL_CAPACITY
  <2>1. Len(special.q) \in Nat
    BY <1>5, LenProperties DEF Fits, Device
  <2> QED
    BY <1>0, <1>4, <1>5, <2>1, PoolAssumption
<1>7. Good(AddCompare(special, d.compare))
  BY <1>0, <1>5, <1>6, AddCompareGood
<1>8. TranslateEventQueue(d, base) = AddCompare(special, d.compare)
  BY Zenon DEF TranslateEventQueue, special, shifted, rest, once, Shift, Moved
<1> QED
  BY <1>7, <1>8

-----------------------------------------------------------------------------
(* Exceptions and lines.                                                   *)

(* The event types other than the timers.                                  *)
LEMMA OtherTypes ==
  /\ {CheckEvent, ViEvent, HW2Event, NMIEvent} \subseteq EventTypes \ {CompareEvent, SpecialEvent}
  /\ DEVICES \subseteq EventTypes \ {CompareEvent, SpecialEvent}
  /\ EventTypes = DEVICES \cup {ViEvent, CompareEvent, SpecialEvent, CheckEvent, HW2Event, NMIEvent}
<1>1. CompareEvent \notin DEVICES /\ SpecialEvent \notin DEVICES
  BY InterruptAssumption
<1> QED
  BY <1>1 DEF EventTypes, CheckEvent, ViEvent, HW2Event, NMIEvent, CompareEvent, SpecialEvent

(* The passing of time.                                                    *)
LEMMA AddCyclesGood ==
  ASSUME NEW d, Good(d), NEW n \in Int
  PROVE  Good(AddCycles(d, n))
<1>1. d \in Device /\ d.count \in Counts /\ d.cycle + n \in Int
  BY DEF Good, Fits, Device
<1>2. /\ AddCycles(d, n) \in Device /\ AddCycles(d, n).q = d.q
      /\ SameButCount(d, AddCycles(d, n))
  <2> DEFINE m == Wrap(d.count + n)  k == d.cycle + n
  <2>1. m \in Counts /\ k \in Int /\ AddCycles(d, n) = [d EXCEPT !.count = m, !.cycle = k]
    BY <1>1, WrapSum DEF AddCycles
  <2> HIDE DEF m, k
  <2>2. [d EXCEPT !.count = m, !.cycle = k] \in Device
    BY <1>1, <2>1 DEF Device
  <2>3. /\ [d EXCEPT !.count = m, !.cycle = k].q = d.q
        /\ SameButCount(d, [d EXCEPT !.count = m, !.cycle = k])
    BY <1>1 DEF Device, SameButCount
  <2> QED
    BY <2>1, <2>2, <2>3, Zenon
<1>3. AddCycles(d, n).compare = d.compare
  BY <1>2 DEF SameButCount
<1> QED
  BY <1>2, <1>3, SameQueue

(* exception_general leaves the queue alone.                               *)
LEMMA ExceptionGeneralGood ==
  ASSUME NEW d, Good(d)
  PROVE  Good(ExceptionGeneral(d))
<1> DEFINE masked == [d EXCEPT !.exl = TRUE]
           e == AddCycles(masked, 1)
           left == [e EXCEPT !.skip = TRUE, !.cycle = 0]
<1>1. masked \in Device /\ masked.q = d.q /\ masked.compare = d.compare
  BY DEF Good, Fits, Device
<1> HIDE DEF masked
<1>2. Good(e)
  BY <1>1, SameQueue, AddCyclesGood
<1> HIDE DEF e
<1>3. left \in Device /\ left.q = e.q /\ left.compare = e.compare
  BY <1>2, DeviceSkip, ZeroInt, Zenon DEF Good, Fits
<1> HIDE DEF left
<1>4. Good(left)
  BY <1>2, <1>3, SameQueue
<1> QED
  BY <1>2, <1>4, Zenon DEF ExceptionGeneral, e, masked, left

(* A CHECK_INT pushed in front of the queue leaves the timers queued.      *)
LEMMA PushGood ==
  ASSUME NEW d, Good(d), Len(d.q) < POOL_CAPACITY
  PROVE  Good([d EXCEPT !.q = <<Event(CheckEvent, d.count)>> \o @, !.cycle = 0])
<1> DEFINE x == Event(CheckEvent, d.count)
           r == <<x>> \o d.q
           e == [d EXCEPT !.q = r, !.cycle = 0]
<1>0. d \in Device /\ d.q \in Seq(EventType) /\ d.count \in Counts /\ Len(d.q) \in Nat
  BY GoodQueue DEF Good, Fits, Device
<1>1. x \in EventType /\ x.type = CheckEvent
  BY <1>0, OtherTypes DEF Event, EventType
<1> HIDE DEF x
<1>2. r = InsertAt(d.q, 1, x) /\ 1 \in 1 .. Len(d.q) + 1
  <2>1. 1 \in 1 .. Len(d.q) + 1
    BY <1>0
  <2> QED
    BY <2>1, <1>0, <1>1, PushIsInsertAt, Zenon
<1>3. r \in Seq(EventType) /\ Len(r) = Len(d.q) + 1
  BY <1>0, <1>1, <1>2, InsertAtProps
<1>4. /\ QueuedOnce(r, CompareEvent) /\ QueuedOnce(r, SpecialEvent)
      /\ NoNMI => ArmedAt(r, CompareEvent, d.compare) /\ ~Queued(r, NMIEvent)
  <2>1. CheckEvent # CompareEvent /\ CheckEvent # SpecialEvent /\ CheckEvent # NMIEvent
    BY DEF CheckEvent, CompareEvent, SpecialEvent, NMIEvent
  <2>2. d.q \in Seq(Entry(EventTypes)) /\ x \in Entry(EventTypes)
    BY <1>0, <1>1, EntryType
  <2> QED
    BY <2>1, <2>2, <1>1, <1>2, InsertOther, Zenon DEF Good, Timers, Armed
<1> HIDE DEF r
<1>5. e \in Device /\ e.q = r /\ e.compare = d.compare
  <2> DEFINE z == 0
  <2>1. d \in Device /\ r \in Seq(EventType) /\ z \in Int /\ e = [d EXCEPT !.q = r, !.cycle = z]
    BY <1>0, <1>3
  <2> HIDE DEF e, z
  <2>2. e.q = r /\ e.compare = d.compare
    BY <2>1 DEF Device
  <2>3. e \in Device
    BY <2>1 DEF Device
  <2> QED
    BY <2>2, <2>3
<1>6. Good([d EXCEPT !.q = r, !.cycle = 0])
  <2>1. Len(r) <= POOL_CAPACITY
    BY <1>0, <1>3, PoolAssumption
  <2> QED
    BY <2>1, <1>4, <1>5 DEF Good, Fits, Timers, Armed
<1> QED
  BY <1>6 DEF r, x

(* r4300_check_interrupt pushes a CHECK_INT only if a node is left.        *)
LEMMA CheckInterruptGood ==
  ASSUME NEW d, Good(d), NEW line \in IPs, NEW set
  PROVE  Good(CheckInterrupt(d, line, set))
<1> DEFINE lines == IF set THEN d.ip \cup {line} ELSE d.ip \ {line}
           e == [d EXCEPT !.ip = lines]
<1>1. lines \in SUBSET IPs
  BY DEF Good, Fits, Device
<1> HIDE DEF lines
<1>2. e \in Device /\ e.q = d.q /\ e.count = d.count /\ e.compare = d.compare
  BY <1>1 DEF Good, Fits, Device
<1>3. CheckInterrupt(d, line, set)
        = IF Takeable(e) /\ Len(e.q) < POOL_CAPACITY
          THEN [e EXCEPT !.q = <<Event(CheckEvent, d.count)>> \o @, !.cycle = 0] ELSE e
  BY Zenon DEF CheckInterrupt, e, lines
<1> HIDE DEF e
<1>4. Good(e)
  BY <1>2, SameQueue
<1>5. Len(e.q) < POOL_CAPACITY
        => Good([e EXCEPT !.q = <<Event(CheckEvent, d.count)>> \o @, !.cycle = 0])
  BY <1>2, <1>4, PushGood, Zenon
<1> QED
  BY <1>3, <1>4, <1>5, Zenon

(* The same of the copy of the RCP line.                                   *)
LEMMA CheckRCPGood ==
  ASSUME NEW d, Good(d)
  PROVE  Good(CheckRCP(d))
  BY CheckInterruptGood DEF CheckRCP, IPs

(* raise_maskable_interrupt leaves the queue alone.                        *)
LEMMA RaiseMaskableGood ==
  ASSUME NEW d, Good(d), NEW line \in IPs
  PROVE  Good(RaiseMaskable(d, line))
<1> DEFINE e == [d EXCEPT !.ip = @ \cup {line}]
<1>1. e \in Device /\ e.q = d.q /\ e.compare = d.compare
  BY DEF Good, Fits, Device
<1>2. RaiseMaskable(d, line) = IF Takeable(e) THEN ExceptionGeneral(e) ELSE e
  BY Zenon DEF RaiseMaskable
<1> HIDE DEF e
<1> QED
  BY <1>1, <1>2, SameQueue, ExceptionGeneralGood

(* raise_rcp_interrupt leaves the queue alone.                             *)
LEMMA RaiseRCPGood ==
  ASSUME NEW d, Good(d), NEW line \in Lines
  PROVE  Good(RaiseRCP(d, line))
<1> DEFINE e == [d EXCEPT !.intr = @ \cup {line}]
<1>1. e \in Device /\ e.q = d.q /\ e.compare = d.compare
  BY DEF Good, Fits, Device
<1>2. RaiseRCP(d, line) = IF e.intr \cap e.mask # {} THEN RaiseMaskable(e, RCP) ELSE e
  BY Zenon DEF RaiseRCP
<1>3. RCP \in IPs
  BY DEF IPs
<1> HIDE DEF e
<1> QED
  BY <1>1, <1>2, <1>3, SameQueue, RaiseMaskableGood

-----------------------------------------------------------------------------
(* Handlers: each one runs with a good queue whose head is its event.      *)

(* Removing an event that is not a timer leaves the timers queued.         *)
LEMMA RemoveHeadGood ==
  ASSUME NEW d, Good(d), d.q[1].type \notin {CompareEvent, SpecialEvent}
  PROVE  Good(RemoveHead(d))
<1> DEFINE e == RemoveHead(d)
<1>1. Fits(e) /\ (\A t : t # d.q[1].type => Kept(d, e, t)) /\ e.compare = d.compare
  BY GoodQueue, RemoveHeadProps, Zenon DEF Good, SameRest, SameButCount
<1>2. ~Queued(d.q, NMIEvent) => d.q[1].type # NMIEvent
  <2>1. 1 \in DOMAIN d.q
    BY GoodQueue
  <2> QED
    BY <2>1, NotQueued
<1> HIDE DEF e
<1>3. Timers(e) /\ (NoNMI => Armed(e))
  BY <1>1, <1>2, Zenon DEF Good, Timers, Armed, Kept
<1> QED
  BY <1>1, <1>3 DEF Good, e

(* remove_event of a device event keeps the timers.                        *)
LEMMA RemoveEventGood ==
  ASSUME NEW d, Good(d), NEW t, t \notin {CompareEvent, SpecialEvent, NMIEvent}
  PROVE  Good(RemoveEvent(d, t))
<1> DEFINE e == RemoveEvent(d, t)
<1>1. Fits(e) /\ (\A u : u # t => Kept(d, e, u)) /\ e.compare = d.compare
  BY RemoveEventProps, Zenon DEF Good, SameRest, SameButCount
<1> HIDE DEF e
<1>2. Timers(e) /\ (NoNMI => Armed(e))
  BY <1>1, Zenon DEF Good, Timers, Armed, Kept
<1> QED
  BY <1>1, <1>2 DEF Good, e

(* SPECIAL_INT is queued again in the node it has freed.                   *)
LEMMA SpecialHandlerGood ==
  ASSUME NEW d, Good(d), d.q[1].type = SpecialEvent
  PROVE  Good(SpecialHandler(d))
<1> DEFINE e == RemoveHead(d)
           f == AddSpecial(e)
<1>1. /\ Fits(e) /\ Len(e.q) < POOL_CAPACITY /\ ~Queued(e.q, SpecialEvent)
      /\ \A t : t # SpecialEvent => Kept(d, e, t)
      /\ e.compare = d.compare
  BY GoodQueue, RemoveHeadProps, Zenon DEF Good, Timers, SameRest, SameButCount
<1> HIDE DEF e
<1>2. /\ Fits(f) /\ QueuedOnce(f.q, SpecialEvent)
      /\ \A t : t # SpecialEvent => Kept(e, f, t)
      /\ f.compare = e.compare
  BY <1>1, AddSpecialProps, Zenon DEF SameRest, SameButCount
<1> HIDE DEF f
<1>3. Timers(f) /\ (NoNMI => Armed(f))
  BY <1>1, <1>2, TimerTypes, Zenon DEF Good, Timers, Armed, Kept
<1> QED
  BY <1>2, <1>3 DEF SpecialHandler, Good, e, f

(* COMPARE_INT is queued again in the node it has freed.                   *)
LEMMA CompareHandlerGood ==
  ASSUME NEW d, Good(d), d.q[1].type = CompareEvent
  PROVE  Good(CompareHandler(RemoveHead(d)))
<1> DEFINE e == RemoveHead(d)
<1>1. /\ Fits(e) /\ Len(e.q) < POOL_CAPACITY
      /\ ~Queued(e.q, CompareEvent) /\ QueuedOnce(e.q, SpecialEvent)
      /\ NoNMI => ~Queued(e.q, NMIEvent)
  BY GoodQueue, RemoveHeadProps, TimerTypes, Zenon DEF Good, Timers, Armed, Kept
<1> HIDE DEF e
<1>2. e.compare \in Counts
  BY <1>1 DEF Fits, Device
<1>3. Good(AddCompare(e, e.compare))
  BY <1>1, <1>2, AddCompareGood
<1>4. Good(CompareHandler(e))
  BY <1>3, RaiseMaskableGood DEF CompareHandler, IPs
<1> QED
  BY <1>4 DEF e

(* The count of the VI_INT that follows the one at the head.               *)
LEMMA ViCountType ==
  ASSUME NEW d, Good(d), d.q[1].type = ViEvent
  PROVE  Wrap(EventCount(d.q, ViEvent) + VI_DELAY) \in Counts
<1>0. d.q \in Seq(EventType) /\ d.q # <<>> /\ DOMAIN d.q = 1 .. Len(d.q) /\ 1 \in DOMAIN d.q
  BY GoodQueue, LenProperties
<1>1. Queued(d.q, ViEvent)
  BY <1>0 DEF Queued, IndicesOf
<1>2. EventCount(d.q, ViEvent) \in Counts
  <2>1. Min(IndicesOf(d.q, ViEvent)) \in 1 .. Len(d.q)
    BY <1>0, <1>1, FirstOfType, Zenon
  <2>2. d.q[Min(IndicesOf(d.q, ViEvent))] \in EventType
    BY <1>0, <2>1, Zenon, ElementOfSeq
  <2> QED
    BY <2>2 DEF EventCount, EventType
<1> QED
  BY <1>2, WrapSum, InterruptAssumption

(* VI_INT, at the head, is replaced in its own node.                       *)
LEMMA ViHandlerGood ==
  ASSUME NEW d, Good(d), d.q[1].type = ViEvent
  PROVE  Good(ViHandler(d))
<1> DEFINE next == Wrap(EventCount(d.q, ViEvent) + VI_DELAY)
<1>1. next \in Counts
  BY ViCountType
<1> HIDE DEF next
<1>2. ViEvent \in EventTypes \ {CompareEvent, SpecialEvent} /\ ViEvent # NMIEvent
  BY OtherTypes DEF ViEvent, NMIEvent
<1>3. Good(AddEventCount(RemoveHead(d), ViEvent, next))
  BY <1>1, <1>2, RemoveHeadGood, AddEventCountGood
<1> QED
  BY <1>3, RaiseRCPGood DEF ViHandler, next, Lines

(* The NMI rebuilds the queue.                                             *)
LEMMA NmiHandlerGood ==
  ASSUME NEW d, Good(d), ~NoNMI
  PROVE  Good(NmiHandler(d))
<1> DEFINE clear == [d EXCEPT !.ie = FALSE, !.exl = FALSE, !.im = {}, !.ip = {},
                              !.intr = @ \ {"SP_INT", "PI_INT", ViEvent}]
           boot == CheckRCP(clear)
           zero == [boot EXCEPT !.count = 0]
<1>1. clear \in Device /\ clear.q = d.q /\ clear.compare = d.compare
  BY DEF Good, Fits, Device
<1> HIDE DEF clear
<1>2. Good(boot)
  BY <1>1, SameQueue, CheckRCPGood
<1> HIDE DEF boot
<1>3. zero \in Device
  <2>1. 0 \in Counts
    BY HalfAssumption DEF Counts, COUNT_MOD
  <2> QED
    BY <1>2, <2>1 DEF Good, Fits, Device
<1> HIDE DEF zero
<1>4. Good(AddEvent(InitInterrupt(zero), ViEvent, VI_DELAY))
  BY <1>3, InitInterruptGood, AddEventGood, OtherTypes, InterruptAssumption
<1>5. NmiHandler(d) = AddEvent(InitInterrupt(zero), ViEvent, VI_DELAY)
  BY Zenon DEF NmiHandler, zero, boot, clear
<1> QED
  BY <1>4, <1>5

(* Power-on builds the queue with its two timers.                          *)
LEMMA PowerOnGood == Good(PowerOn)
<1>1. <<>> \in Seq(EventType)
  OBVIOUS
<1>2. POWERON_COUNT \in Counts /\ 0 \in Counts
  BY InterruptAssumption, HalfAssumption DEF Counts, COUNT_MOD
<1>3. [count |-> POWERON_COUNT, compare |-> 0, cycle |-> 0, q |-> <<>>,
       ie |-> FALSE, exl |-> FALSE, im |-> {}, ip |-> {},
       slot |-> "no", skip |-> FALSE, unsafe |-> {}, goes_on |-> FALSE,
       intr |-> {}, mask |-> {}, job |-> "none", loading |-> FALSE, reset |-> FALSE] \in Device
  BY <1>1, <1>2 DEF Device
<1> QED
  BY <1>3, InitInterruptGood, Zenon DEF PowerOn

(* It masks every interrupt.                                               *)
LEMMA PowerOnMasks == PowerOn.ie = FALSE
<1> DEFINE clear == [count |-> POWERON_COUNT, compare |-> 0, cycle |-> 0, q |-> <<>>,
                     ie |-> FALSE, exl |-> FALSE, im |-> {}, ip |-> {},
                     slot |-> "no", skip |-> FALSE, unsafe |-> {}, goes_on |-> FALSE,
                     intr |-> {}, mask |-> {}, job |-> "none", loading |-> FALSE, reset |-> FALSE]
           cleared == [clear EXCEPT !.q = <<>>]
           one == AddEventCount(cleared, SpecialEvent, HALF)
           two == AddEventCount(one, CompareEvent, 0)
<1>0. HALF \in Counts /\ 0 \in Counts /\ POWERON_COUNT \in Counts
  BY HalfAssumption, InterruptAssumption DEF Counts, COUNT_MOD
<1>1. <<>> \in Seq(EventType) /\ Len(<<>>) = 0
  OBVIOUS
<1>2. cleared \in Device /\ cleared.ie = FALSE /\ cleared.q = <<>>
  <2>1. clear \in Device /\ clear.ie = FALSE
    BY <1>0, <1>1 DEF Device
  <2> HIDE DEF clear
  <2> QED
    BY <1>1, <2>1, DeviceQueue, Zenon DEF SameRest, SameButCount
<1> HIDE DEF cleared
<1>3. Fits(cleared)
  BY <1>1, <1>2, PoolAssumption DEF Fits
<1>4. Fits(one) /\ one.ie = FALSE
  BY <1>0, <1>2, <1>3, TimerTypes, AddEventCountProps, Zenon DEF SameRest, SameButCount
<1> HIDE DEF one
<1>5. two.ie = FALSE
  BY <1>0, <1>4, TimerTypes, AddEventCountProps, Zenon DEF SameRest, SameButCount
<1> QED
  BY <1>5, Zenon DEF PowerOn, InitInterrupt, two, one, cleared, clear

(* A hard reset is a power-on.                                             *)
LEMMA ResetHardHandlerGood ==
  ASSUME NEW d, Good(d)
  PROVE  Good(ResetHardHandler(d))
<1>1. /\ ResetHardHandler(d) \in Device /\ ResetHardHandler(d).q = PowerOn.q
      /\ ResetHardHandler(d).compare = PowerOn.compare
  <2>1. PowerOn \in Device /\ d \in Device
    BY PowerOnGood DEF Good, Fits
  <2> HIDE DEF PowerOn
  <2> QED
    BY <2>1 DEF ResetHardHandler, Device
<1> QED
  BY <1>1, PowerOnGood, SameQueue

-----------------------------------------------------------------------------
(* gen_interrupt and the instructions.                                     *)

(* The handler of each event type.                                         *)
LEMMA Handlers ==
  ASSUME NEW d
  PROVE  LET type == d.q[1].type
         IN  /\ type = ViEvent => Dispatch(d) = ViHandler(d)
             /\ type = SpecialEvent => Dispatch(d) = SpecialHandler(d)
             /\ type = CompareEvent => Dispatch(d) = CompareHandler(RemoveHead(d))
             /\ type = CheckEvent => Dispatch(d) = ExceptionGeneral(RemoveHead(d))
             /\ type = HW2Event => Dispatch(d) = RaiseMaskable(RemoveHead(d), Cart)
             /\ type = NMIEvent => Dispatch(d) = NmiHandler(RemoveHead(d))
             /\ type \notin {ViEvent, SpecialEvent, CompareEvent, CheckEvent, HW2Event, NMIEvent}
                  => Dispatch(d) = TaskEnded(RaiseRCP(RemoveHead(d), type), type)
<1> DEFINE type == d.q[1].type
<1> USE DEF Dispatch, ViEvent, SpecialEvent, CompareEvent, CheckEvent, HW2Event, NMIEvent
<1>1. type = ViEvent => Dispatch(d) = ViHandler(d)
  OBVIOUS
<1>2. type = SpecialEvent => Dispatch(d) = SpecialHandler(d)
  OBVIOUS
<1>3. type = CompareEvent => Dispatch(d) = CompareHandler(RemoveHead(d))
  OBVIOUS
<1>4. type = CheckEvent => Dispatch(d) = ExceptionGeneral(RemoveHead(d))
  OBVIOUS
<1>5. type = HW2Event => Dispatch(d) = RaiseMaskable(RemoveHead(d), Cart)
  OBVIOUS
<1>6. type = NMIEvent => Dispatch(d) = NmiHandler(RemoveHead(d))
  OBVIOUS
<1>7. type \notin {ViEvent, SpecialEvent, CompareEvent, CheckEvent, HW2Event, NMIEvent}
        => Dispatch(d) = TaskEnded(RaiseRCP(RemoveHead(d), type), type)
  OBVIOUS
<1> QED
  BY <1>1, <1>2, <1>3, <1>4, <1>5, <1>6, <1>7, Zenon

(* Without soft resets no NMI reaches the head of the queue.               *)
LEMMA NoNmiAtHead ==
  ASSUME NEW d, Good(d), d.q[1].type = NMIEvent
  PROVE  ~NoNMI
<1>1. 1 \in DOMAIN d.q
  BY GoodQueue
<1> QED
  BY <1>1, NotQueued DEF Good, Armed

(* Whatever heads the queue, its handler keeps the invariant.              *)
LEMMA DispatchGood ==
  ASSUME NEW d, Good(d)
  PROVE  Good(Dispatch(d))
<1> DEFINE type == d.q[1].type
<1>0. type \in EventTypes
  BY GoodQueue
<1>b. /\ type = ViEvent => Dispatch(d) = ViHandler(d)
      /\ type = SpecialEvent => Dispatch(d) = SpecialHandler(d)
      /\ type = CompareEvent => Dispatch(d) = CompareHandler(RemoveHead(d))
      /\ type = CheckEvent => Dispatch(d) = ExceptionGeneral(RemoveHead(d))
      /\ type = HW2Event => Dispatch(d) = RaiseMaskable(RemoveHead(d), Cart)
      /\ type = NMIEvent => Dispatch(d) = NmiHandler(RemoveHead(d))
      /\ type \notin {ViEvent, SpecialEvent, CompareEvent, CheckEvent, HW2Event, NMIEvent}
           => Dispatch(d) = TaskEnded(RaiseRCP(RemoveHead(d), type), type)
  BY Handlers
<1>c. type = NMIEvent => ~NoNMI
  BY NoNmiAtHead
<1> HIDE DEF type
<1>1. CASE type = ViEvent
  BY <1>1, <1>b, ViHandlerGood DEF type
<1>2. CASE type = SpecialEvent
  BY <1>2, <1>b, SpecialHandlerGood DEF type
<1>3. CASE type = CompareEvent
  BY <1>3, <1>b, CompareHandlerGood DEF type
<1>4. CASE type \notin {ViEvent, SpecialEvent, CompareEvent}
  <2>0. Good(RemoveHead(d))
    BY <1>4, RemoveHeadGood DEF type
  <2>1. CASE type \in {CheckEvent, HW2Event, NMIEvent}
    BY <2>0, <2>1, <1>b, <1>c, ExceptionGeneralGood, RaiseMaskableGood, NmiHandlerGood DEF IPs
  <2>2. CASE type \notin {CheckEvent, HW2Event, NMIEvent}
    <3>1. type \in Lines
      BY <1>0, <1>4, <2>2, OtherTypes DEF Lines
    <3>2. Good(RaiseRCP(RemoveHead(d), type))
      BY <3>1, <2>0, RaiseRCPGood
    <3>3. SameButFlags(RaiseRCP(RemoveHead(d), type), TaskEnded(RaiseRCP(RemoveHead(d), type), type))
      BY <3>2, TaskFlags DEF Good, Fits
    <3> QED
      BY <3>2, <3>3, <1>4, <2>2, <1>b, FlagsGood
  <2> QED
    BY <2>1, <2>2, Zenon
<1> QED
  BY <1>1, <1>2, <1>3, <1>4

(* A save changes nothing of the queue.                                    *)
LEMMA SaveJobGood ==
  ASSUME NEW d, Good(d)
  PROVE  Good(SaveJob(d))
<1>1. /\ [d EXCEPT !.job = "none"] \in Device /\ [d EXCEPT !.job = "none"].q = d.q
      /\ [d EXCEPT !.job = "none"].compare = d.compare
  BY DEF Good, Fits, Device
<1> QED
  BY <1>1, SameQueue DEF SaveJob

(* gen_interrupt keeps the invariant in each of its four cases.            *)
LEMMA GenInterruptGood ==
  ASSUME NEW d, Good(d)
  PROVE  Good(GenInterrupt(d))
<1> DEFINE loading == [d EXCEPT !.loading = TRUE]
           resumed == [d EXCEPT !.skip = FALSE, !.cycle = HeadCycles(d)]
<1>0. d \in Device
  BY DEF Good, Fits
<1>1. Good(loading)
  <2>1. loading \in Device /\ loading.q = d.q /\ loading.compare = d.compare
    BY <1>0 DEF Device
  <2> QED
    BY <2>1, SameQueue
<1>2. Good(resumed)
  <2>1. resumed \in Device /\ resumed.q = d.q /\ resumed.compare = d.compare
    BY <1>0, HeadCyclesType, DeviceSkip
  <2> QED
    BY <2>1, SameQueue
<1>3. Good(ResetHardHandler(d)) /\ Good(SaveJob(Dispatch(d)))
  BY ResetHardHandlerGood, DispatchGood, SaveJobGood
<1> QED
  BY <1>1, <1>2, <1>3, Zenon DEF GenInterrupt

(* So does the test of cycle_count that calls it.                          *)
LEMMA GenIfDueGood ==
  ASSUME NEW d, Good(d)
  PROVE  Good(GenIfDue(d))
  BY GenInterruptGood DEF GenIfDue

(* An instruction that leaves a good device ends in a good device.         *)
LEMMA ExecuteGood ==
  ASSUME NEW d, Good(d), Execute(d)
  PROVE  Good(dev')
<1> DEFINE s == IF d.slot = "pending" THEN "done" ELSE d.slot
<1>1. dev' = [d EXCEPT !.slot = s]
  BY DEF Execute
<1>2. s \in {"no", "pending", "done"} /\ d \in Device
  BY DEF Good, Fits, Device
<1> HIDE DEF s
<1>3. /\ [d EXCEPT !.slot = s] \in Device /\ [d EXCEPT !.slot = s].q = d.q
      /\ [d EXCEPT !.slot = s].compare = d.compare
  BY <1>2 DEF Device
<1> QED
  BY <1>1, <1>3, SameQueue

-----------------------------------------------------------------------------
(* One lemma for each kind of action.                                      *)

(* An instruction that only takes time.                                    *)
LEMMA StepGood ==
  ASSUME Good(dev), NEW n \in STEPS, Step(n)
  PROVE  Good(dev')
<1>1. n \in Int
  BY InterruptAssumption
<1> QED
  BY <1>1, AddCyclesGood, ExecuteGood DEF Step

(* A skip to the next event.                                               *)
LEMMA IdleLoopGood ==
  ASSUME Good(dev), NEW n \in STEPS, IdleLoop(n)
  PROVE  Good(dev')
<1>1. n - dev.cycle \in Int
  BY InterruptAssumption DEF Good, Fits, Device
<1> QED
  BY <1>1, AddCyclesGood, GenIfDueGood DEF IdleLoop

(* A jump, and its end.                                                    *)
LEMMA JumpGood ==
  ASSUME Good(dev), JumpStart \/ JumpEnd
  PROVE  Good(dev')
<1>1. ASSUME NEW s \in {"no", "pending"}
      PROVE  Good([dev EXCEPT !.slot = s])
  <2>1. /\ [dev EXCEPT !.slot = s] \in Device /\ [dev EXCEPT !.slot = s].q = dev.q
        /\ [dev EXCEPT !.slot = s].compare = dev.compare
    BY DEF Good, Fits, Device
  <2> QED
    BY <2>1, SameQueue
<1>2. Good([dev EXCEPT !.slot = "pending"]) /\ Good([dev EXCEPT !.slot = "no"])
  BY <1>1
<1> QED
  BY <1>2, GenIfDueGood, Zenon DEF JumpStart, JumpEnd

(* Stores to the registers of the devices and of the MI.                   *)
LEMMA StoreGood ==
  ASSUME Good(dev),
         \/ \E t \in DEVICES, delay \in DELAYS : StartDevice(t, delay)
         \/ \E t \in CANCELABLE : CancelDevice(t)
         \/ \E l \in SIGNALS : SignalLine(l)
         \/ \E l \in Lines : ClearLine(l)
         \/ StartVI
         \/ \E m \in MASK_WRITES : WriteMask(m)
  PROVE  Good(dev')
<1>0. dev \in Device
  BY DEF Good, Fits
<1>1. ASSUME NEW t \in DEVICES, NEW delay \in DELAYS, StartDevice(t, delay)
      PROVE  Good(dev')
  <2> DEFINE e == AddEvent(dev, t, delay)
  <2>1. Good(e)
    BY OtherTypes, InterruptAssumption, AddEventGood
  <2>2. PICK on \in BOOLEAN : Execute(TaskStarted(e, t, on))
    BY <1>1 DEF StartDevice
  <2> HIDE DEF e
  <2>3. Good(TaskStarted(e, t, on))
    BY <2>1, TaskFlags, FlagsGood DEF Good, Fits
  <2> QED
    BY <2>2, <2>3, ExecuteGood
<1>2. ASSUME NEW t \in CANCELABLE, CancelDevice(t)
      PROVE  Good(dev')
  BY <1>2, OtherTypes, InterruptAssumption, RemoveEventGood, ExecuteGood DEF CancelDevice
<1>3. ASSUME NEW l \in Lines
      PROVE  Good(SignalRCP(dev, l)) /\ Good(ClearRCP(dev, l))
  <2>1. /\ [dev EXCEPT !.intr = @ \cup {l}] \in Device
        /\ [dev EXCEPT !.intr = @ \cup {l}].q = dev.q
        /\ [dev EXCEPT !.intr = @ \cup {l}].compare = dev.compare
    BY <1>0 DEF Device
  <2>2. /\ [dev EXCEPT !.intr = @ \ {l}] \in Device
        /\ [dev EXCEPT !.intr = @ \ {l}].q = dev.q
        /\ [dev EXCEPT !.intr = @ \ {l}].compare = dev.compare
    BY <1>0 DEF Device
  <2> QED
    BY <2>1, <2>2, SameQueue, CheckRCPGood DEF SignalRCP, ClearRCP
<1>4. ASSUME NEW l \in SIGNALS, SignalLine(l)
      PROVE  Good(dev')
  BY <1>3, <1>4, InterruptAssumption, ExecuteGood DEF SignalLine, Lines
<1>5. ASSUME NEW l \in Lines, ClearLine(l)
      PROVE  Good(dev')
  BY <1>3, <1>5, ExecuteGood DEF ClearLine
<1>6. ASSUME StartVI
      PROVE  Good(dev')
  BY <1>6, OtherTypes, InterruptAssumption, AddEventGood, ExecuteGood
     DEF StartVI, ViEvent, NMIEvent
<1>7. ASSUME NEW m \in MASK_WRITES, WriteMask(m)
      PROVE  Good(dev')
  <2>1. /\ [dev EXCEPT !.mask = m] \in Device /\ [dev EXCEPT !.mask = m].q = dev.q
        /\ [dev EXCEPT !.mask = m].compare = dev.compare
    <3>1. m \in SUBSET Lines
      BY InterruptAssumption
    <3> QED
      BY <1>0, <3>1 DEF Device
  <2> QED
    BY <1>7, <2>1, SameQueue, CheckRCPGood, GenIfDueGood, ExecuteGood DEF WriteMask
<1> QED
  BY <1>1, <1>2, <1>4, <1>5, <1>6, <1>7

(* The instructions that write the registers of coprocessor 0.             *)
LEMMA UnsafeGood ==
  ASSUME NEW d, Good(d)
  PROVE  /\ Good(R4300Unsafe(d)) /\ Good(R4300Safe(d))
         /\ Good([d EXCEPT !.unsafe = @ \cup {"RSP"}])
  BY R4300Flags, FlagsGood DEF Good, Fits

(* A run of the RSP that queues nothing.                                   *)
LEMMA RunTaskGood ==
  ASSUME Good(dev), RunTask
  PROVE  Good(dev')
  BY UnsafeGood, ExecuteGood DEF RunTask

(* A write of COUNT takes the timers out and puts them back.               *)
LEMMA WriteCountGood ==
  ASSUME Good(dev), NEW n \in COUNT_WRITES, WriteCount(n)
  PROVE  Good(dev')
<1> DEFINE due == R4300Safe(GenIfDue(R4300Unsafe(dev)))
<1>1. Good(due)
  BY UnsafeGood, GenIfDueGood
<1>2. Execute(TranslateEventQueue(due, n))
  BY Zenon DEF WriteCount
<1> HIDE DEF due
<1>3. n \in Counts
  BY InterruptAssumption
<1> QED
  BY <1>1, <1>2, <1>3, TranslateGood, ExecuteGood

(* A write of COMPARE moves COMPARE_INT in its own node.                   *)
LEMMA WriteCompareGood ==
  ASSUME Good(dev), NEW n \in COMPARE_WRITES, WriteCompare(n)
  PROVE  Good(dev')
<1> DEFINE rest == RemoveEvent(dev, CompareEvent)
           armed == AddCompare(rest, n)
           final == [armed EXCEPT !.compare = n, !.ip = @ \ {Timer}]
<1>0. Fits(dev) /\ Len(dev.q) \in Nat /\ Len(dev.q) <= POOL_CAPACITY
  BY GoodQueue DEF Good, Fits
<1>1. n \in Counts
  BY InterruptAssumption
<1>2. /\ Fits(rest) /\ Len(rest.q) = Len(dev.q) - 1
      /\ QueuedOnce(rest.q, SpecialEvent) /\ ~Queued(rest.q, CompareEvent)
      /\ NoNMI => ~Queued(rest.q, NMIEvent)
  BY <1>0, RemoveEventProps, OnceQueued, TimerTypes, Zenon DEF Good, Timers, Armed, Kept
<1> HIDE DEF rest
<1>3. Len(rest.q) < POOL_CAPACITY
  BY <1>0, <1>2, PoolAssumption
<1>4. /\ Fits(armed) /\ QueuedOnce(armed.q, SpecialEvent) /\ ~(NoNMI /\ Queued(armed.q, NMIEvent))
      /\ QueuedOnce(armed.q, CompareEvent) /\ ArmedAt(armed.q, CompareEvent, n)
  BY <1>1, <1>2, <1>3, AddCompareProps, TimerTypes, Zenon DEF Kept
<1>5. Execute(final)
  BY Zenon DEF WriteCompare, armed, rest
<1> HIDE DEF armed
<1>6. final \in Device /\ final.q = armed.q /\ final.compare = n
  BY <1>1, <1>4 DEF Fits, Device
<1> HIDE DEF final
<1>7. Good(final)
  BY <1>4, <1>6, Zenon DEF Good, Fits, Timers, Armed
<1> QED
  BY <1>5, <1>7, ExecuteGood

(* A write of STATUS.                                                      *)
LEMMA WriteStatusGood ==
  ASSUME Good(dev), NEW ie \in BOOLEAN, NEW exl \in BOOLEAN, NEW im \in IM_WRITES,
         WriteStatus(ie, exl, im)
  PROVE  Good(dev')
<1> DEFINE s == [dev EXCEPT !.ie = ie, !.exl = exl, !.im = im]
           due == GenIfDue(R4300Unsafe(CheckRCP(s)))
<1>1. s \in Device /\ s.q = dev.q /\ s.compare = dev.compare
  <2>1. im \in SUBSET IPs
    BY InterruptAssumption
  <2> QED
    BY <2>1 DEF Good, Fits, Device
<1>2. Execute(R4300Safe(due))
  BY Zenon DEF WriteStatus
<1> HIDE DEF s
<1>3. Good(due)
  BY <1>1, SameQueue, CheckRCPGood, UnsafeGood, GenIfDueGood
<1> HIDE DEF due
<1> QED
  BY <1>2, <1>3, UnsafeGood, ExecuteGood

(* ERET.                                                                   *)
LEMMA EretGood ==
  ASSUME Good(dev), Eret
  PROVE  Good(dev')
<1>1. /\ [dev EXCEPT !.exl = FALSE] \in Device /\ [dev EXCEPT !.exl = FALSE].q = dev.q
      /\ [dev EXCEPT !.exl = FALSE].compare = dev.compare
  BY DEF Good, Fits, Device
<1> QED
  BY <1>1, SameQueue, CheckRCPGood, GenIfDueGood, ExecuteGood DEF Eret

(* An instruction that raises an exception.                                *)
LEMMA TrapGood ==
  ASSUME Good(dev), Trap
  PROVE  Good(dev')
<1>1. /\ [dev EXCEPT !.ip = {}] \in Device /\ [dev EXCEPT !.ip = {}].q = dev.q
      /\ [dev EXCEPT !.ip = {}].compare = dev.compare
  BY DEF Good, Fits, Device
<1> QED
  BY <1>1, SameQueue, ExceptionGeneralGood, ExecuteGood DEF Trap

(* The requests of the front end.                                          *)
LEMMA RequestGood ==
  ASSUME Good(dev), NEW j \in JOBS, Request(j)
  PROVE  Good(dev')
<1>1. CASE j \in {"save", "load"} /\ dev' = [dev EXCEPT !.job = j]
  <2>1. /\ [dev EXCEPT !.job = j] \in Device /\ [dev EXCEPT !.job = j].q = dev.q
        /\ [dev EXCEPT !.job = j].compare = dev.compare
    BY <1>1 DEF Good, Fits, Device
  <2> QED
    BY <1>1, <2>1, SameQueue
<1>2. CASE dev' = [dev EXCEPT !.reset = TRUE]
  <2>1. /\ [dev EXCEPT !.reset = TRUE] \in Device /\ [dev EXCEPT !.reset = TRUE].q = dev.q
        /\ [dev EXCEPT !.reset = TRUE].compare = dev.compare
    BY DEF Good, Fits, Device
  <2> QED
    BY <1>2, <2>1, SameQueue
<1>3. CASE j = "soft" /\ dev' = AddEvent(AddEvent(dev, HW2Event, 0), NMIEvent, NMI_DELAY)
  <2>1. 0 \in Nat /\ ~NoNMI
    BY <1>3 DEF NoNMI
  <2>2. HW2Event \in EventTypes \ {CompareEvent, SpecialEvent}
    BY OtherTypes
  <2>3. Good(AddEvent(dev, HW2Event, 0))
    BY <2>1, <2>2, AddEventGood
  <2> QED
    BY <1>3, <2>1, <2>3, OtherTypes, InterruptAssumption, AddEventGood
<1> QED
  BY <1>1, <1>2, <1>3 DEF Request

-----------------------------------------------------------------------------
(* The invariant is inductive.                                             *)

IInv == TypeOK /\ TimersQueued /\ (NoNMI => Armed(dev))

(* Its parts together are the invariant Good of the device.                *)
LEMMA InvariantIsGood == IInv <=> Good(dev)
  BY Zenon DEF IInv, TypeOK, TimersQueued, Good, Fits, Timers, Armed

(* The invariant holds at power-on.                                        *)
LEMMA InitGood == Init => IInv
  BY PowerOnGood, InvariantIsGood DEF Init

(* Every step keeps it, by the lemma of its action.                        *)
LEMMA NextGood == IInv /\ [Next]_dev => IInv'
<1> SUFFICES ASSUME Good(dev), [Next]_dev
             PROVE  Good(dev')
  <2>1. IInv' <=> Good(dev')
    BY Zenon DEF IInv, TypeOK, TimersQueued, Good, Fits, Timers, Armed
  <2> QED
    BY <2>1, InvariantIsGood, Zenon
<1>1. ASSUME NEW n \in STEPS, Step(n) PROVE Good(dev')
  BY <1>1, StepGood
<1>2. ASSUME NEW n \in STEPS, IdleLoop(n) PROVE Good(dev')
  BY <1>2, IdleLoopGood
<1>3. CASE JumpStart \/ JumpEnd
  BY <1>3, JumpGood
<1>4. CASE \/ \E t \in DEVICES, delay \in DELAYS : StartDevice(t, delay)
           \/ \E t \in CANCELABLE : CancelDevice(t)
           \/ \E l \in SIGNALS : SignalLine(l)
           \/ \E l \in Lines : ClearLine(l)
           \/ StartVI
           \/ \E m \in MASK_WRITES : WriteMask(m)
  BY <1>4, StoreGood, Zenon
<1>5. ASSUME NEW n \in COUNT_WRITES, WriteCount(n) PROVE Good(dev')
  BY <1>5, WriteCountGood
<1>6. ASSUME NEW n \in COMPARE_WRITES, WriteCompare(n) PROVE Good(dev')
  BY <1>6, WriteCompareGood
<1>7. ASSUME NEW ie \in BOOLEAN, NEW exl \in BOOLEAN, NEW im \in IM_WRITES,
             WriteStatus(ie, exl, im)
      PROVE  Good(dev')
  BY <1>7, WriteStatusGood
<1>8. CASE Eret
  BY <1>8, EretGood
<1>9. ASSUME NEW t \in TRAPS, Trap PROVE Good(dev')
  BY <1>9, TrapGood
<1>10. ASSUME NEW j \in JOBS, Request(j) PROVE Good(dev')
  BY <1>10, RequestGood
<1>11. ASSUME NEW t \in TASKS, RunTask PROVE Good(dev')
  BY <1>11, RunTaskGood
<1>12. CASE UNCHANGED dev
  BY <1>12, Zenon DEF Good, Fits, Timers, Armed
<1> QED
  BY <1>1, <1>2, <1>3, <1>4, <1>5, <1>6, <1>7, <1>8, <1>9, <1>10, <1>11, <1>12, Zenon DEF Next

(* The invariant holds of every state.                                     *)
LEMMA Invariance == Spec => []IInv
  BY InitGood, NextGood, PTL DEF Spec

(* For every size of the pool and of the range of COUNT, and whatever the  *)
(* program, the devices and the front end do: every field keeps its type   *)
(* and the queue never holds more events than the pool has nodes.          *)
THEOREM TypeCorrect == Spec => []TypeOK
<1>1. IInv => TypeOK
  BY DEF IInv
<1> QED
  BY <1>1, Invariance, PTL

(* Likewise, exactly one COMPARE_INT and one SPECIAL_INT are queued at all *)
(* times, so q.first is never null where the code reads it unchecked. The  *)
(* invariant needs TypeOK: the timers can be put back because the removal  *)
(* that precedes has freed a node, the queue having fitted in the pool.    *)
THEOREM TimersAlwaysQueued == Spec => []TimersQueued
<1>1. IInv => TimersQueued
  BY DEF IInv
<1> QED
  BY <1>1, Invariance, PTL

(* As long as the front end asks for no soft reset, the timer is armed at  *)
(* the COMPARE register: through overdue events, writes of COUNT and of    *)
(* COMPARE, hard resets and an exhausted pool. (After a soft reset it is   *)
(* not: nmi_int_handler queues COMPARE_INT at 0 and keeps the register.)   *)
THEOREM CompareAlwaysArmed == "soft" \notin JOBS => (Spec => []CompareArmed)
<1> SUFFICES ASSUME "soft" \notin JOBS
             PROVE  Spec => []CompareArmed
  OBVIOUS
<1>1. IInv => CompareArmed
  <2> SUFFICES ASSUME IInv PROVE CompareArmed
    OBVIOUS
  <2>1. dev.q \in Seq(EventType) /\ ArmedAt(dev.q, CompareEvent, dev.compare)
    BY DEF IInv, TypeOK, Device, NoNMI, Armed
  <2> QED
    BY <2>1, ArmedCount DEF CompareArmed
<1> QED
  BY <1>1, Invariance, PTL

-----------------------------------------------------------------------------
(* No interrupt is forgotten.                                              *)

(* A CHECK_INT heads the queue and is due, by cycle ticks.                 *)
HeadCheck(d) ==
  /\ d.q # <<>> /\ d.q[1].type = CheckEvent
  /\ 0 <= d.cycle /\ d.cycle < HALF
  /\ d.cycle = Wrap(d.count - d.q[1].count)

(* An interrupt the CPU accepts has such a CHECK_INT. The jump that runs   *)
(* it needs cycle_count not negative; that later events are queued behind  *)
(* it needs cycle_count to be what BeforeEvent takes it for.               *)
Heard(d) == Waiting(d) => HeadCheck(d)

SameLines(d, e) ==
  /\ e.ie = d.ie /\ e.exl = d.exl /\ e.im = d.im /\ e.ip = d.ip
  /\ e.intr = d.intr /\ e.mask = d.mask

(* Whether an interrupt waits depends on the lines and on STATUS only.     *)
LEMMA LinesDecide ==
  ASSUME NEW d, NEW e, SameLines(d, e)
  PROVE  Waiting(e) <=> Waiting(d)
  BY Zenon DEF SameLines, Waiting

LEMMA HeardStays ==
  ASSUME NEW d, NEW e, Heard(d), SameLines(d, e), HeadCheck(d) => HeadCheck(e)
  PROVE  Heard(e)
  BY LinesDecide, Zenon DEF Heard

(* The updates of the queue leave the lines alone.                         *)
LEMMA RestLines ==
  ASSUME NEW d, NEW e, SameRest(d, e)
  PROVE  SameLines(d, e) /\ e.count = d.count
  BY Zenon DEF SameRest, SameButCount, SameLines

-----------------------------------------------------------------------------
(* A CHECK_INT that is due stays at the head of the queue.                 *)

(* The flags leave the lines alone, and all that is read of the queue.     *)
LEMMA FlagsLines ==
  ASSUME NEW d, NEW e, SameButFlags(d, e)
  PROVE  SameLines(d, e)
  BY Zenon DEF SameButFlags, SameLines

LEMMA FlagsHeard ==
  ASSUME NEW d, NEW e, SameButFlags(d, e), Heard(d)
  PROVE  Heard(e)
<1>1. HeadCheck(d) => HeadCheck(e)
  BY Zenon DEF SameButFlags, HeadCheck
<1> QED
  BY <1>1, FlagsLines, HeardStays

(* Types of what the ordering reads.                                       *)
LEMMA HeadTypes ==
  ASSUME NEW d \in Device, d.q # <<>>
  PROVE  /\ d.count \in Int /\ d.cycle \in Int /\ d.q[1].count \in Int
         /\ d.count \in Counts /\ d.q[1].count \in Counts
         /\ Len(d.q) \in Nat /\ Len(d.q) >= 1 /\ DOMAIN d.q = 1 .. Len(d.q)
<1>1. d.q \in Seq(EventType) /\ Len(d.q) \in Nat /\ DOMAIN d.q = 1 .. Len(d.q)
  BY LenProperties DEF Device
<1>2. Len(d.q) >= 1
  BY <1>1
<1>3. d.q[1] \in EventType
  BY <1>1, <1>2
<1>4. d.q[1].count \in Counts /\ d.count \in Counts /\ d.cycle \in Int
  BY <1>3 DEF EventType, Device
<1> QED
  BY <1>1, <1>2, <1>4, RangeType

(* Nothing precedes an event at distance 0 from the base of the order.     *)
LEMMA InsertBehind ==
  ASSUME NEW d \in Device, d.q # <<>>, NEW n \in Counts,
         Wrap(d.q[1].count - OrderBase(d)) = 0
  PROVE  InsertPosition(d, n) > 1
<1> DEFINE later == {i \in DOMAIN d.q : BeforeEvent(d, n, d.q[i].count)}
<1>1. Len(d.q) \in Nat /\ Len(d.q) >= 1 /\ DOMAIN d.q = 1 .. Len(d.q)
  BY HeadTypes
<1>2. OrderBase(d) \in Int /\ n \in Int
  BY HeadTypes, RangeType DEF OrderBase
<1>3. Wrap(n - OrderBase(d)) >= 0
  BY <1>2, WrapType, RangeType
<1>4. 1 \notin later
  <2>1. ~(Wrap(n - OrderBase(d)) < 0)
    <3>1. n - OrderBase(d) \in Int
      BY <1>2
    <3>2. Wrap(n - OrderBase(d)) \in Int
      BY <3>1, WrapType, RangeType
    <3> QED
      BY <3>2, <1>3
  <2>2. ~BeforeEvent(d, n, d.q[1].count)
    BY <2>1, Zenon DEF BeforeEvent
  <2> QED
    BY <2>2
<1>5. later \subseteq Nat /\ \A i \in later : i >= 1
  BY <1>1
<1> HIDE DEF later
<1>6. CASE later = {}
  BY <1>1, <1>6 DEF InsertPosition, later
<1>7. CASE later # {}
  <2>1. Min(later) \in later
    BY <1>5, <1>7, MinNat
  <2>2. InsertPosition(d, n) = Min(later)
    BY <1>7, Zenon DEF InsertPosition, later
  <2>3. Min(later) # 1
    BY <1>4, <2>1
  <2>4. Min(later) >= 1 /\ Min(later) \in Nat
    BY <1>5, <2>1
  <2> QED
    BY <2>2, <2>3, <2>4
<1> QED
  BY <1>6, <1>7

(* An event added behind the head leaves the head in its place, and the    *)
(* distance of the head is recomputed, unless the pool is exhausted.       *)
LEMMA AddBehind ==
  ASSUME NEW d, Fits(d), d.q # <<>>, Wrap(d.q[1].count - OrderBase(d)) = 0,
         NEW type \in EventTypes, NEW n \in Counts
  PROVE  LET e == AddEventCount(d, type, n)
         IN  /\ e.q # <<>> /\ e.q[1] = d.q[1]
             /\ e.cycle \in {d.cycle, Signed(Wrap(d.count - d.q[1].count))}
<1>0. d \in Device /\ d.q \in Seq(EventType) /\ Len(d.q) \in Nat /\ Len(d.q) >= 1
  BY HeadTypes DEF Fits, Device
<1>1. CASE Len(d.q) >= POOL_CAPACITY
  BY <1>1 DEF AddEventCount
<1>2. CASE ~(Len(d.q) >= POOL_CAPACITY)
  <2> DEFINE i == InsertPosition(d, n)
             x == Event(type, n)
             r == InsertAt(d.q, i, x)
             e == [d EXCEPT !.q = r]
             f == [e EXCEPT !.cycle = HeadCycles(e)]
  <2>1. i \in 1 .. Len(d.q) + 1 /\ i > 1
    BY <1>0, InsertPositionType, InsertBehind
  <2>2. x \in EventType
    BY DEF Event, EventType
  <2>3. AddEventCount(d, type, n) = f
    BY <1>2, Zenon DEF AddEventCount
  <2> HIDE DEF i, x
  <2>4. r \in Seq(EventType)
    BY <1>0, <2>1, <2>2, InsertAtProps
  <2>5. r[1] = d.q[1] /\ r # <<>>
    BY <1>0, <2>1, <2>2, InsertHead
  <2> HIDE DEF r
  <2>6. e \in Device /\ e.q = r /\ e.count = d.count
    BY <1>0, <2>4 DEF Device
  <2> HIDE DEF e
  <2>7. HeadCycles(e) = Signed(Wrap(d.count - d.q[1].count))
    BY <2>5, <2>6 DEF HeadCycles
  <2>8. f.q = r /\ f.cycle = HeadCycles(e)
    BY <2>6, HeadCyclesType, DeviceCycle
  <2> HIDE DEF f
  <2> QED
    BY <2>3, <2>5, <2>7, <2>8
<1> QED
  BY <1>1, <1>2

(* cycle_count is the distance of a due CHECK_INT: it is at the base.      *)
LEMMA CheckAtBase ==
  ASSUME NEW d \in Device, HeadCheck(d)
  PROVE  /\ Wrap(d.q[1].count - OrderBase(d)) = 0
         /\ Signed(Wrap(d.count - d.q[1].count)) = d.cycle
<1> DEFINE x == d.q[1].count
<1>0. x \in Int /\ d.count \in Int /\ d.cycle \in Int /\ d.cycle = Wrap(d.count - x)
      /\ 0 <= d.cycle /\ d.cycle < HALF
  BY HeadTypes DEF HeadCheck
<1> HIDE DEF x
<1>1. OrderBase(d) = d.count - d.cycle
  BY <1>0 DEF OrderBase
<1>2. Wrap(Wrap(d.count - x) + (x - d.count)) = Wrap((d.count - x) + (x - d.count))
  <2>1. d.count - x \in Int /\ x - d.count \in Int
    BY <1>0
  <2> QED
    BY <2>1, WrapAgain
<1>3. Wrap(0) = 0
  BY WrapNear, RangeType
<1>4. x - OrderBase(d) = d.cycle + (x - d.count) /\ (d.count - x) + (x - d.count) = 0
  BY <1>0, <1>1
<1>5. Wrap(x - OrderBase(d)) = 0
  BY <1>0, <1>2, <1>3, <1>4
<1>6. Signed(Wrap(d.count - x)) = d.cycle
  BY <1>0, HalfAssumption DEF Signed
<1> QED
  BY <1>5, <1>6 DEF x

LEMMA AddKeepsCheck ==
  ASSUME NEW d, Fits(d), HeadCheck(d), NEW type \in EventTypes, NEW n \in Counts
  PROVE  HeadCheck(AddEventCount(d, type, n))
<1> DEFINE e == AddEventCount(d, type, n)
<1>1. d \in Device /\ d.q # <<>>
  BY DEF Fits, HeadCheck
<1>2. /\ e.q # <<>> /\ e.q[1] = d.q[1]
      /\ e.cycle \in {d.cycle, Signed(Wrap(d.count - d.q[1].count))}
  BY <1>1, CheckAtBase, AddBehind
<1>3. SameRest(d, e)
  BY AddEventCountProps
<1> HIDE DEF e
<1>4. e.cycle = d.cycle /\ e.count = d.count
  BY <1>1, <1>2, <1>3, CheckAtBase, RestLines
<1> QED
  BY <1>2, <1>4 DEF HeadCheck, e

(* COMPARE_INT is placed as if COUNT and the head were two ticks later:    *)
(* the CHECK_INT is still at the base.                                     *)
LEMMA AddCompareKeepsCheck ==
  ASSUME NEW d, Fits(d), HeadCheck(d), NEW n \in Counts
  PROVE  HeadCheck(AddCompare(d, n))
<1> DEFINE x == d.q[1].count
           m == Wrap(d.count + 2)
           k == d.cycle + 2
           ahead == [d EXCEPT !.count = m, !.cycle = k]
           moved == AddEventCount(ahead, CompareEvent, n)
           added == [moved EXCEPT !.count = d.count]
           final == [added EXCEPT !.cycle = HeadCycles(added)]
<1>0. /\ d \in Device /\ d.q # <<>> /\ d.count \in Counts /\ x \in Int
      /\ d.count \in Int /\ d.cycle \in Int /\ d.cycle = Wrap(d.count - x)
      /\ 0 <= d.cycle
  BY HeadTypes DEF Fits, HeadCheck
<1>1. m \in Counts /\ m \in Int /\ k \in Int /\ k > 0
  <2>1. m \in Counts
    BY <1>0, WrapSum
  <2>2. k \in Int /\ k > 0
    BY <1>0
  <2> HIDE DEF m, k
  <2> QED
    BY <2>1, <2>2, RangeType
<1>2. Wrap(x - (m - k)) = 0
  <2>1. Wrap((x + k) - m) = Wrap((x + k) - (d.count + 2))
    <3>1. x + k \in Int /\ d.count + 2 \in Int
      BY <1>0
    <3> QED
      BY <3>1, WrapAgain
  <2>2. Wrap(Wrap(d.count - x) + (x - d.count)) = Wrap((d.count - x) + (x - d.count))
    <3>1. d.count - x \in Int /\ x - d.count \in Int
      BY <1>0
    <3> QED
      BY <3>1, WrapAgain
  <2>3. (x + k) - (d.count + 2) = d.cycle + (x - d.count) /\ (d.count - x) + (x - d.count) = 0
    BY <1>0
  <2>4. x - (m - k) = (x + k) - m
    <3> HIDE DEF x, m, k
    <3> QED
      BY <1>0, <1>1
  <2>5. Wrap(0) = 0
    BY WrapNear, RangeType
  <2> HIDE DEF x, m, k
  <2> QED
    BY <1>0, <2>1, <2>2, <2>3, <2>4, <2>5
<1>3. AddCompare(d, n) = final
  BY DEF AddCompare
<1> HIDE DEF x, m, k
<1>4. ahead \in Device /\ ahead.q = d.q /\ ahead.count = m /\ ahead.cycle = k
  BY <1>0, <1>1 DEF Device
<1> HIDE DEF ahead
<1>5. Fits(ahead) /\ ahead.q # <<>> /\ Wrap(ahead.q[1].count - OrderBase(ahead)) = 0
  BY <1>0, <1>1, <1>2, <1>4 DEF Fits, OrderBase, x
<1>6. moved.q # <<>> /\ moved.q[1] = d.q[1]
  BY <1>4, <1>5, TimerTypes, AddBehind
<1>7. Fits(moved)
  BY <1>5, TimerTypes, AddEventCountProps
<1> HIDE DEF moved
<1>8. added \in Device /\ added.q = moved.q /\ added.count = d.count
  BY <1>0, <1>7 DEF Fits, Device
<1> HIDE DEF added
<1>9. final.q = moved.q /\ final.cycle = HeadCycles(added) /\ final.count = d.count
  <2>1. final.q = added.q /\ final.cycle = HeadCycles(added) /\ SameRest(added, final)
    BY <1>8, HeadCyclesType, DeviceCycle
  <2> QED
    BY <1>8, <2>1, RestLines
<1> HIDE DEF final
<1>10. HeadCycles(added) = d.cycle
  BY <1>0, <1>6, <1>8, CheckAtBase DEF HeadCycles
<1> QED
  BY <1>3, <1>6, <1>9, <1>10 DEF HeadCheck

(* The removal of an event that is not a CHECK_INT leaves the head.        *)
LEMMA RemoveKeepsCheck ==
  ASSUME NEW d, Fits(d), HeadCheck(d), NEW t, t # CheckEvent
  PROVE  HeadCheck(RemoveEvent(d, t))
<1> DEFINE e == RemoveEvent(d, t)
           i == Min(IndicesOf(d.q, t))
           r == RemoveAt(d.q, i)
<1>0. d \in Device /\ d.q \in Seq(EventType)
  BY DEF Fits, Device
<1>1. CASE ~Queued(d.q, t)
  BY <1>1 DEF RemoveEvent
<1>2. CASE Queued(d.q, t)
  <2>1. i \in 1 .. Len(d.q) /\ d.q[i].type = t
    BY <1>0, <1>2, FirstOfType, Zenon
  <2>2. e = [d EXCEPT !.q = r]
    BY <1>2, Zenon DEF RemoveEvent
  <2> HIDE DEF i
  <2>3. i # 1
    BY <2>1 DEF HeadCheck
  <2>4. r \in Seq(EventType)
    BY <1>0, <2>1, RemoveAtProps
  <2>5. r[1] = d.q[1] /\ r # <<>>
    BY <1>0, <2>1, <2>3, RemoveBehindHead
  <2> HIDE DEF r, e
  <2>6. e.q = r /\ e.cycle = d.cycle /\ e.count = d.count
    BY <1>0, <2>2, <2>4 DEF Device
  <2> QED
    BY <2>5, <2>6 DEF HeadCheck, e
<1> QED
  BY <1>1, <1>2

(* It stays at the head when COUNT is written and the events move with it. *)
LEMMA TranslateKeepsCheck ==
  ASSUME NEW d, Fits(d), HeadCheck(d), NEW base \in Counts
  PROVE  HeadCheck(TranslateEventQueue(d, base))
<1> DEFINE once == RemoveEvent(d, CompareEvent)
           rest == RemoveEvent(once, SpecialEvent)
           shifted == Shift(rest, d.count, base)
           special == AddSpecial(shifted)
<1>0. /\ d \in Device /\ d.count \in Counts /\ d.compare \in Counts
      /\ CompareEvent # CheckEvent /\ SpecialEvent # CheckEvent
  BY DEF Fits, Device, CompareEvent, SpecialEvent, CheckEvent
<1>1. Fits(once) /\ HeadCheck(once) /\ once.count = d.count
  <2>1. SameRest(d, once)
    BY RemoveEventProps
  <2> QED
    BY <1>0, <2>1, RemoveEventProps, RemoveKeepsCheck, RestLines
<1> HIDE DEF once
<1>2. Fits(rest) /\ HeadCheck(rest) /\ rest.count = d.count
  <2>1. SameRest(once, rest)
    BY <1>1, RemoveEventProps
  <2> QED
    BY <1>0, <1>1, <2>1, RemoveEventProps, RemoveKeepsCheck, RestLines
<1> HIDE DEF rest
<1>3. /\ Fits(shifted) /\ shifted.q = Moved(rest.q, d.count, base)
      /\ Len(shifted.q) = Len(rest.q) /\ shifted.count = base
      /\ shifted.cycle = rest.cycle
  BY <1>0, <1>2, ShiftProps, Zenon
<1> HIDE DEF shifted
<1>4. /\ rest \in Device /\ 1 \in DOMAIN rest.q /\ rest.q[1].count \in Int /\ d.count \in Int
      /\ base \in Int /\ rest.cycle = Wrap(d.count - rest.q[1].count)
  BY <1>2, HeadTypes, RangeType DEF Fits, HeadCheck
<1>5. /\ shifted.q # <<>> /\ shifted.q[1].type = CheckEvent
      /\ shifted.q[1].count = Wrap(rest.q[1].count - d.count + base)
  <2>1. shifted.q[1] = Event(rest.q[1].type, Wrap(rest.q[1].count - d.count + base))
    BY <1>3, <1>4 DEF Moved
  <2>2. shifted.q # <<>>
    BY <1>3, <1>4 DEF Moved
  <2> QED
    BY <2>1, <2>2, <1>2 DEF Event, HeadCheck
<1>6. Wrap(base - Wrap(rest.q[1].count - d.count + base)) = rest.cycle
  <2> DEFINE x == rest.q[1].count  c == d.count
  <2> HIDE DEF x, c
  <2>1. x - c + base \in Int /\ base - (x - c + base) = c - x
    BY <1>4 DEF x, c
  <2>2. Wrap(base - Wrap(x - c + base)) = Wrap(base - (x - c + base))
    BY <2>1, <1>4, WrapAgain
  <2> QED
    BY <2>1, <2>2, <1>4 DEF x, c
<1>7. HeadCheck(shifted)
  BY <1>2, <1>3, <1>5, <1>6 DEF HeadCheck
<1>8. Fits(special) /\ HeadCheck(special)
  <2>1. SpecialCount(shifted.count) \in Counts
    BY <1>3, SpecialCountType
  <2> QED
    BY <2>1, <1>3, <1>7, TimerTypes, AddEventCountProps, AddKeepsCheck, Zenon DEF AddSpecial
<1> HIDE DEF special
<1>9. HeadCheck(AddCompare(special, d.compare))
  BY <1>0, <1>8, AddCompareKeepsCheck
<1> QED
  BY <1>9, Zenon DEF TranslateEventQueue, special, shifted, rest, once, Shift, Moved

(* A write of COUNT changes no line.                                       *)
LEMMA TranslateLines ==
  ASSUME NEW d, Good(d), NEW base \in Counts
  PROVE  SameLines(d, TranslateEventQueue(d, base))
<1> DEFINE once == RemoveEvent(d, CompareEvent)
           rest == RemoveEvent(once, SpecialEvent)
           shifted == Shift(rest, d.count, base)
           special == AddSpecial(shifted)
           armed == AddCompare(special, d.compare)
<1>0. Fits(d) /\ d.count \in Counts
  BY DEF Good, Fits, Device
<1>1. Fits(once) /\ SameRest(d, once)
  BY <1>0, RemoveEventProps, Zenon
<1> HIDE DEF once
<1>2. Fits(rest) /\ SameRest(once, rest)
  BY <1>1, RemoveEventProps, Zenon
<1> HIDE DEF rest
<1>3. Fits(shifted) /\ SameButCount(rest, shifted) /\ shifted.count \in Counts
  BY <1>0, <1>2, ShiftProps, Zenon
<1> HIDE DEF shifted
<1>4. Fits(special) /\ SameRest(shifted, special)
  BY <1>3, SpecialCountType, TimerTypes, AddEventCountProps, Zenon DEF AddSpecial
<1> HIDE DEF special
<1>5. SameLines(special, armed)
  <2>1. d.compare \in Counts
    BY <1>0 DEF Fits, Device
  <2> QED
    BY <1>4, <2>1, AddCompareProps, RestLines, Zenon
<1> HIDE DEF armed
<1>6. SameLines(d, armed)
  BY <1>1, <1>2, <1>3, <1>4, <1>5, Zenon DEF SameRest, SameButCount, SameLines
<1> QED
  BY <1>6, Zenon DEF TranslateEventQueue, armed, special, shifted, rest, once, Shift, Moved

-----------------------------------------------------------------------------
(* Where an interrupt is noticed, it is taken or a CHECK_INT is pushed.    *)

(* The fields that an update of the lines leaves alone.                    *)
LEMMA DeviceLines ==
  ASSUME NEW d \in Device, NEW s \in SUBSET IPs
  PROVE  /\ [d EXCEPT !.ip = s] \in Device
         /\ [d EXCEPT !.ip = s].q = d.q /\ [d EXCEPT !.ip = s].count = d.count
         /\ [d EXCEPT !.ip = s].ip = s
         /\ [d EXCEPT !.ip = s].ie = d.ie /\ [d EXCEPT !.ip = s].exl = d.exl
         /\ [d EXCEPT !.ip = s].im = d.im
         /\ [d EXCEPT !.ip = s].intr = d.intr /\ [d EXCEPT !.ip = s].mask = d.mask
  BY DEF Device

(* A CHECK_INT pushed in front of the queue is due at once.                *)
LEMMA PushedCheck ==
  ASSUME NEW d \in Device
  PROVE  HeadCheck([d EXCEPT !.q = <<Event(CheckEvent, d.count)>> \o @, !.cycle = 0])
<1> DEFINE x == Event(CheckEvent, d.count)
           r == <<x>> \o d.q
           e == [d EXCEPT !.q = r, !.cycle = 0]
<1>0. d.count \in Counts /\ d.q \in Seq(EventType) /\ d.count \in Int
  BY RangeType DEF Device
<1>1. x \in EventType /\ x.type = CheckEvent /\ x.count = d.count
  BY <1>0, OtherTypes DEF Event, EventType
<1> HIDE DEF x
<1>2. r[1] = x /\ r # <<>>
  BY <1>0, <1>1
<1> HIDE DEF r
<1>3. e.q = r /\ e.count = d.count /\ e.cycle = 0
  BY DEF Device
<1> HIDE DEF e
<1>4. d.count - d.count = 0 /\ Wrap(0) = 0 /\ 0 < HALF
  BY <1>0, WrapNear, RangeType, HalfAssumption
<1>5. HeadCheck(e)
  BY <1>1, <1>2, <1>3, <1>4 DEF HeadCheck
<1> QED
  BY <1>5 DEF e, r, x

(* r4300_check_interrupt, called with the state of the RCP line, looks at  *)
(* every line: what waits after it has a CHECK_INT, if a node was left.    *)
LEMMA CheckRCPHeard ==
  ASSUME NEW d \in Device, Len(d.q) < POOL_CAPACITY
  PROVE  Heard(CheckRCP(d))
<1> DEFINE set == d.intr \cap d.mask # {}
           s == IF set THEN d.ip \cup {RCP} ELSE d.ip \ {RCP}
           e == [d EXCEPT !.ip = s]
           f == [e EXCEPT !.q = <<Event(CheckEvent, d.count)>> \o @, !.cycle = 0]
<1>1. s \in SUBSET IPs
  BY DEF Device, IPs
<1>2. CheckRCP(d) = IF Takeable(e) /\ Len(e.q) < POOL_CAPACITY THEN f ELSE e
  BY Zenon DEF CheckRCP, CheckInterrupt
<1>3. set => RCP \in s
  OBVIOUS
<1> HIDE DEF s
<1>4. /\ e \in Device /\ e.q = d.q /\ e.count = d.count /\ e.ip = s
      /\ e.intr = d.intr /\ e.mask = d.mask
  BY <1>1, DeviceLines, Zenon
<1> HIDE DEF e
<1>5. CASE Takeable(e)
  <2>1. HeadCheck(f)
    BY <1>4, PushedCheck, Zenon
  <2> QED
    BY <1>2, <1>4, <1>5, <2>1, Zenon DEF Heard
<1>6. CASE ~Takeable(e)
  <2>1. ~Waiting(e)
    BY <1>3, <1>4, <1>6 DEF Waiting, Takeable
  <2> QED
    BY <1>2, <1>6, <2>1, Zenon DEF Heard
<1> QED
  BY <1>5, <1>6

(* An exception masks the interrupts: EXL is set.                          *)
LEMMA ExceptionMasks ==
  ASSUME NEW d \in Device
  PROVE  ~Waiting(ExceptionGeneral(d))
<1>1. ExceptionGeneral(d).exl = TRUE
  BY DEF ExceptionGeneral, AddCycles, Device
<1> QED
  BY <1>1 DEF Waiting

(* raise_maskable_interrupt takes every interrupt the CPU accepts.         *)
LEMMA RaiseMaskableTakes ==
  ASSUME NEW d \in Device, NEW line \in IPs, line = RCP \/ ~Waiting(d)
  PROVE  ~Waiting(RaiseMaskable(d, line))
<1> DEFINE s == d.ip \cup {line}
           e == [d EXCEPT !.ip = s]
<1>1. s \in SUBSET IPs
  BY DEF Device
<1>2. RaiseMaskable(d, line) = IF Takeable(e) THEN ExceptionGeneral(e) ELSE e
  BY Zenon DEF RaiseMaskable
<1>3. line \in s
  OBVIOUS
<1> HIDE DEF s
<1>4. /\ e \in Device /\ e.ip = s /\ e.ie = d.ie /\ e.exl = d.exl /\ e.im = d.im
      /\ e.intr = d.intr /\ e.mask = d.mask
  BY <1>1, DeviceLines, Zenon
<1> HIDE DEF e
<1>5. ~Takeable(e) => ~Waiting(e)
  BY <1>3, <1>4 DEF Waiting, Takeable
<1> QED
  BY <1>2, <1>4, <1>5, ExceptionMasks, Zenon

(* So does raise_rcp_interrupt, where no interrupt was waiting.            *)
LEMMA RaiseRCPTakes ==
  ASSUME NEW d \in Device, NEW line \in Lines, ~Waiting(d)
  PROVE  ~Waiting(RaiseRCP(d, line))
<1> DEFINE e == [d EXCEPT !.intr = @ \cup {line}]
<1>1. /\ e \in Device /\ e.ie = d.ie /\ e.exl = d.exl /\ e.im = d.im /\ e.ip = d.ip
  BY DEF Device
<1>2. RaiseRCP(d, line) = IF e.intr \cap e.mask # {} THEN RaiseMaskable(e, RCP) ELSE e
  BY Zenon DEF RaiseRCP
<1> HIDE DEF e
<1>3. e.intr \cap e.mask = {} => ~Waiting(e)
  BY <1>1 DEF Waiting
<1>4. ~Waiting(RaiseMaskable(e, RCP))
  BY <1>1, RaiseMaskableTakes DEF IPs
<1> QED
  BY <1>2, <1>3, <1>4, Zenon

(* The boot code of an NMI leaves IE clear.                                *)
LEMMA NmiMasks ==
  ASSUME NEW d, Good(d)
  PROVE  ~Waiting(NmiHandler(d))
<1> DEFINE clear == [d EXCEPT !.ie = FALSE, !.exl = FALSE, !.im = {}, !.ip = {},
                              !.intr = @ \ {"SP_INT", "PI_INT", ViEvent}]
           boot == CheckRCP(clear)
           zero == [boot EXCEPT !.count = 0]
           cleared == [zero EXCEPT !.q = <<>>]
           one == AddEventCount(cleared, SpecialEvent, HALF)
           two == AddEventCount(one, CompareEvent, 0)
           three == AddEvent(two, ViEvent, VI_DELAY)
<1>0. HALF \in Counts /\ 0 \in Counts
  BY HalfAssumption DEF Counts, COUNT_MOD
<1>1. clear \in Device /\ clear.q = d.q /\ clear.compare = d.compare /\ clear.ie = FALSE
  BY DEF Good, Fits, Device
<1> HIDE DEF clear
<1>2. Good(boot)
  BY <1>1, SameQueue, CheckRCPGood
<1>3. boot.ie = FALSE
  BY <1>1 DEF CheckRCP, CheckInterrupt, Device
<1> HIDE DEF boot
<1>4. zero \in Device /\ zero.ie = FALSE
  BY <1>0, <1>2, <1>3 DEF Good, Fits, Device
<1> HIDE DEF zero
<1>5. <<>> \in Seq(EventType) /\ Len(<<>>) = 0
  OBVIOUS
<1>6. cleared \in Device /\ cleared.q = <<>> /\ SameRest(zero, cleared)
  BY <1>4, <1>5, DeviceQueue, Zenon
<1> HIDE DEF cleared
<1>7. Fits(cleared) /\ cleared.ie = FALSE
  BY <1>4, <1>5, <1>6, PoolAssumption DEF Fits, SameRest, SameButCount
<1>8. Fits(one) /\ one.ie = FALSE
  BY <1>0, <1>7, TimerTypes, AddEventCountProps, RestLines, Zenon DEF SameLines
<1> HIDE DEF one
<1>9. Fits(two) /\ two.ie = FALSE
  BY <1>0, <1>8, TimerTypes, AddEventCountProps, RestLines, Zenon DEF SameLines
<1> HIDE DEF two
<1>10. three.ie = FALSE
  <2>1. two.count \in Counts
    BY <1>9 DEF Fits, Device
  <2>2. Wrap(two.count + VI_DELAY) \in Counts
    BY <2>1, WrapSum, InterruptAssumption
  <2>3. ViEvent \in EventTypes
    BY OtherTypes
  <2> QED
    BY <1>9, <2>2, <2>3, AddEventCountProps, RestLines, Zenon DEF AddEvent, SameLines
<1>11. NmiHandler(d) = three
  BY Zenon DEF NmiHandler, InitInterrupt, three, two, one, cleared, zero, boot, clear
<1> HIDE DEF three
<1> QED
  BY <1>10, <1>11 DEF Waiting

(* After the handler of the head event no interrupt waits: the handler of  *)
(* CHECK_INT takes what waited, the others what they raise.                *)
LEMMA DispatchTakes ==
  ASSUME NEW d, Good(d), Heard(d)
  PROVE  ~Waiting(Dispatch(d))
<1> DEFINE type == d.q[1].type
           rest == RemoveHead(d)
<1>0. Fits(d) /\ d.q # <<>> /\ type \in EventTypes
  BY GoodQueue DEF Good
<1>1. Fits(rest) /\ SameRest(d, rest)
  BY <1>0, RemoveHeadProps, Zenon
<1>b. /\ type = ViEvent => Dispatch(d) = ViHandler(d)
      /\ type = SpecialEvent => Dispatch(d) = SpecialHandler(d)
      /\ type = CompareEvent => Dispatch(d) = CompareHandler(RemoveHead(d))
      /\ type = CheckEvent => Dispatch(d) = ExceptionGeneral(RemoveHead(d))
      /\ type = HW2Event => Dispatch(d) = RaiseMaskable(RemoveHead(d), Cart)
      /\ type = NMIEvent => Dispatch(d) = NmiHandler(RemoveHead(d))
      /\ type \notin {ViEvent, SpecialEvent, CompareEvent, CheckEvent, HW2Event, NMIEvent}
           => Dispatch(d) = TaskEnded(RaiseRCP(RemoveHead(d), type), type)
  BY Handlers
<1>2. type # CheckEvent => ~Waiting(rest)
  BY <1>1, RestLines, LinesDecide DEF Heard, HeadCheck
<1>3. rest \in Device /\ rest.count \in Counts /\ rest.compare \in Counts
  BY <1>1 DEF Fits, Device
<1>4. CASE type = CheckEvent
  BY <1>3, <1>4, <1>b, ExceptionMasks
<1>5. CASE type = SpecialEvent
  <2>1. SpecialCount(rest.count) \in Counts
    BY <1>3, SpecialCountType
  <2>2. SameRest(rest, AddSpecial(rest))
    BY <1>1, <2>1, TimerTypes, AddEventCountProps, Zenon DEF AddSpecial
  <2>3. type # CheckEvent
    BY <1>5 DEF SpecialEvent, CheckEvent
  <2> QED
    BY <1>2, <1>5, <1>b, <2>2, <2>3, RestLines, LinesDecide, Zenon DEF SpecialHandler
<1>6. CASE type = CompareEvent
  <2> DEFINE armed == AddCompare(rest, rest.compare)
  <2>1. Fits(armed) /\ SameRest(rest, armed)
    BY <1>1, <1>3, AddCompareProps, Zenon
  <2>2. type # CheckEvent
    BY <1>6 DEF CompareEvent, CheckEvent
  <2>3. ~Waiting(armed)
    BY <1>2, <2>1, <2>2, RestLines, LinesDecide, Zenon
  <2>4. armed \in Device /\ Timer \in IPs
    BY <2>1 DEF Fits, IPs
  <2> QED
    BY <1>6, <1>b, <2>3, <2>4, RaiseMaskableTakes, Zenon DEF CompareHandler
<1>7. CASE type = HW2Event
  <2>1. type # CheckEvent /\ Cart \in IPs
    BY <1>7 DEF HW2Event, CheckEvent, IPs
  <2> QED
    BY <1>2, <1>3, <1>7, <1>b, <2>1, RaiseMaskableTakes, Zenon
<1>8. CASE type = NMIEvent
  <2>1. type \notin {CompareEvent, SpecialEvent}
    BY <1>8, TimerTypes
  <2>2. Good(rest)
    BY <2>1, RemoveHeadGood
  <2> QED
    BY <1>8, <1>b, <2>2, NmiMasks, Zenon
<1>9. CASE type = ViEvent
  <2> DEFINE next == Wrap(EventCount(d.q, ViEvent) + VI_DELAY)
             added == AddEventCount(rest, ViEvent, next)
  <2>1. next \in Counts
    BY <1>9, ViCountType, GoodQueue
  <2> HIDE DEF next
  <2>2. type # CheckEvent /\ ViEvent \in EventTypes /\ ViEvent \in Lines
    BY <1>9, OtherTypes DEF ViEvent, CheckEvent, Lines
  <2>3. Fits(added) /\ SameRest(rest, added)
    BY <1>1, <2>1, <2>2, AddEventCountProps, Zenon
  <2>4. ~Waiting(added) /\ added \in Device
    BY <1>2, <2>2, <2>3, RestLines, LinesDecide, Zenon DEF Fits
  <2> QED
    BY <1>9, <1>b, <2>2, <2>4, RaiseRCPTakes, Zenon DEF ViHandler, next
<1>10. CASE type \notin {ViEvent, SpecialEvent, CompareEvent, CheckEvent, HW2Event, NMIEvent}
  <2>1. type \in Lines
    BY <1>0, <1>10, OtherTypes DEF Lines
  <2> DEFINE f == RaiseRCP(rest, type)
  <2>2. type # CheckEvent
    BY <1>10
  <2>3. ~Waiting(f)
    BY <1>2, <1>3, <2>1, <2>2, RaiseRCPTakes, Zenon
  <2>4. f \in Device
    <3>1. type \notin {CompareEvent, SpecialEvent} /\ (type = NMIEvent => ~NoNMI)
      BY <1>10, NoNmiAtHead
    <3>2. Good(rest)
      BY <3>1, RemoveHeadGood
    <3> QED
      BY <2>1, <3>2, RaiseRCPGood DEF Good, Fits
  <2> HIDE DEF f
  <2>5. SameButFlags(f, TaskEnded(f, type))
    BY <2>4, TaskFlags
  <2>6. ~Waiting(TaskEnded(f, type))
    BY <2>3, <2>5, FlagsLines, LinesDecide
  <2> QED
    BY <1>10, <1>b, <2>6 DEF f
<1> HIDE DEF type
<1> QED
  BY <1>4, <1>5, <1>6, <1>7, <1>8, <1>9, <1>10

(* A change outside of the queue, the lines and COUNT changes nothing.     *)
LEMMA HeardElsewhere ==
  ASSUME NEW d, Heard(d), NEW e, SameLines(d, e),
         e.q = d.q /\ e.count = d.count /\ e.cycle = d.cycle
  PROVE  Heard(e)
  BY LinesDecide, Zenon DEF Heard, HeadCheck

(* gen_interrupt leaves no interrupt behind.                               *)
LEMMA GenInterruptHeard ==
  ASSUME NEW d, Good(d), Heard(d)
  PROVE  Heard(GenInterrupt(d))
<1> DEFINE loading == [d EXCEPT !.loading = TRUE]
           resumed == [d EXCEPT !.skip = FALSE, !.cycle = HeadCycles(d)]
           taken == Dispatch(d)
           saved == [taken EXCEPT !.job = "none"]
<1>0. d \in Device /\ taken \in Device
  BY DispatchGood DEF Good, Fits
<1>1. Heard(loading)
  <2>1. SameLines(d, loading) /\ loading.q = d.q /\ loading.count = d.count /\ loading.cycle = d.cycle
    BY <1>0 DEF Device, SameLines
  <2> QED
    BY <2>1, HeardElsewhere, Zenon
<1>2. Heard(resumed)
  <2> DEFINE n == HeadCycles(d)
  <2>1. HeadCheck(d) => n = d.cycle
    BY <1>0, CheckAtBase DEF HeadCycles, HeadCheck
  <2>2. n \in Int
    BY <1>0, HeadCyclesType
  <2> HIDE DEF n
  <2>3. SameLines(d, resumed) /\ resumed.q = d.q /\ resumed.count = d.count /\ resumed.cycle = n
    BY <1>0, <2>2 DEF Device, SameLines, n
  <2> HIDE DEF resumed
  <2> QED
    BY <2>1, <2>3, LinesDecide DEF Heard, HeadCheck
<1>3. Heard(ResetHardHandler(d))
  <2>1. ResetHardHandler(d).ie = FALSE
    <3>1. PowerOn \in Device /\ PowerOn.ie = FALSE
      BY PowerOnGood, PowerOnMasks DEF Good, Fits
    <3> HIDE DEF PowerOn
    <3> QED
      BY <3>1 DEF ResetHardHandler, Device
  <2> QED
    BY <2>1 DEF Heard, Waiting
<1>4. Heard(SaveJob(taken))
  <2>1. ~Waiting(taken)
    BY DispatchTakes
  <2> HIDE DEF taken
  <2>2. SameLines(taken, saved)
    BY <1>0 DEF Device, SameLines
  <2>3. ~Waiting(saved)
    BY <2>1, <2>2, LinesDecide, Zenon
  <2> QED
    BY <2>1, <2>3, Zenon DEF SaveJob, Heard
<1> QED
  BY <1>1, <1>2, <1>3, <1>4, Zenon DEF GenInterrupt

(* So does the test of cycle_count that calls it.                          *)
LEMMA GenIfDueHeard ==
  ASSUME NEW d, Good(d), Heard(d)
  PROVE  Heard(GenIfDue(d))
  BY GenInterruptHeard DEF GenIfDue

(* The end of an instruction.                                              *)
LEMMA ExecuteHeard ==
  ASSUME NEW d \in Device, Heard(d), Execute(d)
  PROVE  Heard(dev')
<1> DEFINE s == IF d.slot = "pending" THEN "done" ELSE d.slot
           e == [d EXCEPT !.slot = s]
<1>1. dev' = e
  BY DEF Execute
<1>2. SameLines(d, e) /\ e.q = d.q /\ e.count = d.count /\ e.cycle = d.cycle
  <2> HIDE DEF s
  <2> QED
    BY DEF Device, SameLines
<1> HIDE DEF e
<1>3. Heard(e)
  BY <1>2, HeardElsewhere, Zenon
<1> QED
  BY <1>1, <1>3

-----------------------------------------------------------------------------
(* One lemma for each kind of action, again.                               *)

(* An instruction is too short to bring a due CHECK_INT out of sight.      *)
Short == \A n \in STEPS : MAX_LATE + n < HALF

LEMMA StepHeard ==
  ASSUME Short, Good(dev), Heard(dev), NEW n \in STEPS, Step(n)
  PROVE  Heard(dev')
<1> DEFINE m == Wrap(dev.count + n)  k == dev.cycle + n
           e == [dev EXCEPT !.count = m, !.cycle = k]
<1>0. /\ dev \in Device /\ dev.count \in Counts /\ dev.count \in Int /\ dev.cycle \in Int
      /\ n \in Int /\ n >= 0 /\ MAX_LATE + n < HALF /\ MAX_LATE \in Int
  BY RangeType, InterruptAssumption DEF Good, Fits, Device, Short
<1>1. m \in Counts /\ k \in Int
  <2>1. m \in Counts
    BY <1>0, WrapSum, Zenon
  <2> QED
    BY <2>1, <1>0
<1>2. Execute(e) /\ dev.cycle <= MAX_LATE
  BY DEF Step, AddCycles, Execute
<1>3. e \in Device /\ SameLines(dev, e) /\ e.q = dev.q /\ e.count = m /\ e.cycle = k
  <2> HIDE DEF m, k
  <2>1. SameLines(dev, e) /\ e.q = dev.q /\ e.count = m /\ e.cycle = k
    BY <1>0 DEF Device, SameLines
  <2>2. e \in Device
    BY <1>0, <1>1 DEF Device
  <2> QED
    BY <2>1, <2>2
<1> HIDE DEF e
<1>4. ASSUME HeadCheck(dev)
      PROVE  HeadCheck(e)
  <2> DEFINE x == dev.q[1].count
  <2>1. x \in Int /\ dev.cycle = Wrap(dev.count - x) /\ 0 <= dev.cycle
    BY <1>0, <1>4, HeadTypes DEF HeadCheck
  <2> HIDE DEF x
  <2>2. 0 <= k /\ k < HALF
    BY <1>0, <1>2, <2>1, HalfAssumption
  <2>3. Wrap(m - x) = k
    <3> DEFINE a == dev.count + n  b == dev.count - x
    <3>1. a \in Int /\ b \in Int /\ -x \in Int /\ a + (-x) = b + n
      BY <1>0, <2>1
    <3>2. Wrap(Wrap(a) + (-x)) = Wrap(a + (-x)) /\ Wrap(Wrap(b) + n) = Wrap(b + n)
      <4> HIDE DEF a, b
      <4> QED
        BY <3>1, <1>0, WrapAgain
    <3>3. Wrap(Wrap(b) + n) = k
      <4>1. k < COUNT_MOD /\ k = Wrap(b) + n
        BY <1>0, <2>1, <2>2, RangeType, HalfAssumption
      <4> HIDE DEF k, b
      <4> QED
        BY <4>1, <1>1, <2>2, WrapNear
    <3>4. m - x = Wrap(a) + (-x)
      <4>1. Wrap(a) \in Int
        BY <3>1, WrapType, RangeType
      <4> HIDE DEF a
      <4> QED
        BY <4>1, <2>1 DEF a
    <3> HIDE DEF a, b, m, k
    <3> QED
      BY <3>1, <3>2, <3>3, <3>4
  <2> QED
    BY <1>3, <1>4, <2>2, <2>3 DEF HeadCheck, x
<1>5. Heard(e)
  BY <1>3, <1>4, HeardStays, Zenon
<1> QED
  BY <1>2, <1>3, <1>5, ExecuteHeard, Zenon

(* A jump to itself waits for an event that is not due: none was pushed.   *)
LEMMA IdleLoopHeard ==
  ASSUME Good(dev), Heard(dev), NEW n \in STEPS, IdleLoop(n)
  PROVE  Heard(dev')
<1> DEFINE e == AddCycles(dev, n - dev.cycle)
<1>0. dev \in Device /\ n - dev.cycle \in Int /\ dev.cycle < 0
  BY InterruptAssumption DEF Good, Fits, Device, IdleLoop
<1>1. ~Waiting(dev)
  BY <1>0 DEF Heard, HeadCheck, Device
<1>2. SameLines(dev, e)
  BY <1>0 DEF AddCycles, Device, SameLines
<1>3. Good(e)
  BY <1>0, AddCyclesGood
<1>4. dev' = GenIfDue(e)
  BY DEF IdleLoop
<1> HIDE DEF e
<1>5. Heard(e)
  BY <1>1, <1>2, LinesDecide, Zenon DEF Heard
<1> QED
  BY <1>3, <1>4, <1>5, GenIfDueHeard

(* A jump, and its end.                                                    *)
LEMMA JumpHeard ==
  ASSUME Good(dev), Heard(dev), JumpStart \/ JumpEnd
  PROVE  Heard(dev')
<1>1. ASSUME NEW s \in {"no", "pending"}
      PROVE  Good([dev EXCEPT !.slot = s]) /\ Heard([dev EXCEPT !.slot = s])
  <2> DEFINE e == [dev EXCEPT !.slot = s]
  <2>1. /\ e \in Device /\ e.compare = dev.compare /\ SameLines(dev, e)
        /\ e.q = dev.q /\ e.count = dev.count /\ e.cycle = dev.cycle
    BY DEF Good, Fits, Device, SameLines
  <2> HIDE DEF e
  <2>2. Good(e) /\ Heard(e)
    BY <2>1, SameQueue, HeardElsewhere, Zenon
  <2> QED
    BY <2>2 DEF e
<1>2. /\ Good([dev EXCEPT !.slot = "pending"]) /\ Good([dev EXCEPT !.slot = "no"])
      /\ Heard([dev EXCEPT !.slot = "pending"]) /\ Heard([dev EXCEPT !.slot = "no"])
  BY <1>1
<1> QED
  BY <1>2, GenIfDueHeard, Zenon DEF JumpStart, JumpEnd

(* An event queued with a delay, whatever its type, is queued behind.      *)
LEMMA AddEventHeard ==
  ASSUME NEW d, Fits(d), Heard(d), NEW t \in EventTypes, NEW delay \in Nat
  PROVE  Fits(AddEvent(d, t, delay)) /\ Heard(AddEvent(d, t, delay))
<1> DEFINE n == Wrap(d.count + delay)  e == AddEventCount(d, t, n)
<1>1. n \in Counts
  <2>1. d.count \in Counts /\ delay \in Int
    BY DEF Fits, Device
  <2> QED
    BY <2>1, WrapSum, Zenon
<1> HIDE DEF n
<1>2. Fits(e) /\ SameRest(d, e)
  BY <1>1, AddEventCountProps, Zenon
<1>3. HeadCheck(d) => HeadCheck(e)
  BY <1>1, AddKeepsCheck, Zenon
<1> HIDE DEF e
<1>4. Heard(e)
  BY <1>2, <1>3, RestLines, HeardStays, Zenon
<1> QED
  BY <1>2, <1>4 DEF AddEvent, e, n

(* Stores to the registers of the devices and of the MI.                   *)
LEMMA StoreHeard ==
  ASSUME Good(dev), Heard(dev), Len(dev.q) < POOL_CAPACITY,
         \/ \E t \in DEVICES, delay \in DELAYS : StartDevice(t, delay)
         \/ \E t \in CANCELABLE : CancelDevice(t)
         \/ \E l \in SIGNALS : SignalLine(l)
         \/ \E l \in Lines : ClearLine(l)
         \/ StartVI
         \/ \E m \in MASK_WRITES : WriteMask(m)
  PROVE  Heard(dev')
<1>0. dev \in Device /\ Fits(dev)
  BY DEF Good, Fits
<1>1. ASSUME NEW t \in DEVICES, NEW delay \in DELAYS, StartDevice(t, delay)
      PROVE  Heard(dev')
  <2>1. t \in EventTypes /\ delay \in Nat
    BY OtherTypes, InterruptAssumption
  <2>2. Fits(AddEvent(dev, t, delay)) /\ Heard(AddEvent(dev, t, delay))
    BY <1>0, <2>1, AddEventHeard, Zenon
  <2> DEFINE e == AddEvent(dev, t, delay)
  <2>3. PICK on \in BOOLEAN : Execute(TaskStarted(e, t, on))
    BY <1>1 DEF StartDevice
  <2>4. e \in Device /\ Heard(e)
    BY <2>2 DEF Fits
  <2> HIDE DEF e
  <2>5. TaskStarted(e, t, on) \in Device /\ Heard(TaskStarted(e, t, on))
    BY <2>4, TaskFlags, FlagsHeard DEF SameButFlags
  <2> QED
    BY <2>3, <2>5, ExecuteHeard
<1>2. ASSUME NEW t \in CANCELABLE, CancelDevice(t)
      PROVE  Heard(dev')
  <2> DEFINE e == RemoveEvent(dev, t)
  <2>1. t # CheckEvent
    BY InterruptAssumption
  <2>2. Fits(e) /\ SameRest(dev, e)
    BY <1>0, RemoveEventProps, Zenon
  <2>3. HeadCheck(dev) => HeadCheck(e)
    BY <1>0, <2>1, RemoveKeepsCheck, Zenon
  <2>4. Execute(e)
    BY <1>2 DEF CancelDevice
  <2> HIDE DEF e
  <2>5. Heard(e)
    BY <2>2, <2>3, RestLines, HeardStays, Zenon
  <2> QED
    BY <2>2, <2>4, <2>5, ExecuteHeard, Zenon DEF Fits
<1>3. ASSUME NEW l \in Lines
      PROVE  /\ SignalRCP(dev, l) \in Device /\ ClearRCP(dev, l) \in Device
             /\ Heard(SignalRCP(dev, l)) /\ Heard(ClearRCP(dev, l))
  <2> DEFINE e == [dev EXCEPT !.intr = @ \cup {l}]
             f == [dev EXCEPT !.intr = @ \ {l}]
  <2>1. e \in Device /\ e.q = dev.q /\ e.compare = dev.compare
    BY <1>0 DEF Device
  <2>2. f \in Device /\ f.q = dev.q /\ f.compare = dev.compare
    BY <1>0 DEF Device
  <2> HIDE DEF e, f
  <2>3. CheckRCP(e) \in Device /\ CheckRCP(f) \in Device
    BY <2>1, <2>2, SameQueue, CheckRCPGood DEF Good, Fits
  <2>4. Heard(CheckRCP(e)) /\ Heard(CheckRCP(f))
    BY <2>1, <2>2, CheckRCPHeard
  <2> QED
    BY <2>3, <2>4, Zenon DEF SignalRCP, ClearRCP, e, f
<1>4. ASSUME NEW l \in SIGNALS, SignalLine(l)
      PROVE  Heard(dev')
  <2>1. l \in Lines
    BY InterruptAssumption DEF Lines
  <2> QED
    BY <1>3, <1>4, <2>1, ExecuteHeard, Zenon DEF SignalLine
<1>5. ASSUME NEW l \in Lines, ClearLine(l)
      PROVE  Heard(dev')
  BY <1>3, <1>5, ExecuteHeard, Zenon DEF ClearLine
<1>6. ASSUME StartVI
      PROVE  Heard(dev')
  <2>1. ViEvent \in EventTypes /\ VI_DELAY \in Nat
    BY OtherTypes, InterruptAssumption
  <2>2. Fits(AddEvent(dev, ViEvent, VI_DELAY)) /\ Heard(AddEvent(dev, ViEvent, VI_DELAY))
    BY <1>0, <2>1, AddEventHeard, Zenon
  <2> QED
    BY <1>6, <2>2, ExecuteHeard, Zenon DEF StartVI, Fits
<1>7. ASSUME NEW m \in MASK_WRITES, WriteMask(m)
      PROVE  Heard(dev')
  <2> DEFINE e == [dev EXCEPT !.mask = m]
  <2>1. e \in Device /\ e.q = dev.q /\ e.compare = dev.compare
    <3>1. m \in SUBSET Lines
      BY InterruptAssumption
    <3> QED
      BY <1>0, <3>1 DEF Device
  <2>2. Execute(GenIfDue(CheckRCP(e)))
    BY <1>7 DEF WriteMask
  <2> HIDE DEF e
  <2>3. Good(CheckRCP(e)) /\ Heard(CheckRCP(e))
    BY <2>1, SameQueue, CheckRCPGood, CheckRCPHeard
  <2>4. GenIfDue(CheckRCP(e)) \in Device /\ Heard(GenIfDue(CheckRCP(e)))
    BY <2>3, GenIfDueGood, GenIfDueHeard DEF Good, Fits
  <2> QED
    BY <2>2, <2>4, ExecuteHeard
<1> QED
  BY <1>1, <1>2, <1>4, <1>5, <1>6, <1>7

(* The flag that bars a reset or a savestate inside MTC0.                  *)
LEMMA UnsafeHeard ==
  ASSUME NEW d \in Device, Heard(d)
  PROVE  /\ Heard(R4300Unsafe(d)) /\ Heard(R4300Safe(d))
         /\ Heard([d EXCEPT !.unsafe = @ \cup {"RSP"}])
  BY R4300Flags, FlagsHeard

(* A run of the RSP that queues nothing.                                   *)
LEMMA RunTaskHeard ==
  ASSUME Good(dev), Heard(dev), RunTask
  PROVE  Heard(dev')
<1>1. dev \in Device
  BY DEF Good, Fits
<1>2. [dev EXCEPT !.unsafe = @ \cup {"RSP"}] \in Device
  BY <1>1, R4300Flags DEF SameButFlags
<1> QED
  BY <1>1, <1>2, UnsafeHeard, ExecuteHeard DEF RunTask

(* A due interrupt run inside MTC0.                                        *)
LEMMA DueHeard ==
  ASSUME NEW d, Good(d), Heard(d)
  PROVE  LET due == R4300Safe(GenIfDue(R4300Unsafe(d)))
         IN  Good(due) /\ Heard(due)
<1> DEFINE e == R4300Unsafe(d)
           f == GenIfDue(e)
<1>0. d \in Device
  BY DEF Good, Fits
<1>1. Good(e) /\ Heard(e)
  BY <1>0, UnsafeGood, UnsafeHeard
<1> HIDE DEF e
<1>2. Good(f) /\ Heard(f) /\ f \in Device
  BY <1>1, GenIfDueGood, GenIfDueHeard DEF Good, Fits
<1> HIDE DEF f
<1>3. Good(R4300Safe(f)) /\ Heard(R4300Safe(f))
  BY <1>2, UnsafeGood, UnsafeHeard
<1> QED
  BY <1>3 DEF f, e

(* A write of COUNT.                                                       *)
LEMMA WriteCountHeard ==
  ASSUME Good(dev), Heard(dev), NEW n \in COUNT_WRITES, WriteCount(n)
  PROVE  Heard(dev')
<1> DEFINE due == R4300Safe(GenIfDue(R4300Unsafe(dev)))
           e == TranslateEventQueue(due, n)
<1>1. Good(due) /\ Heard(due)
  BY DueHeard
<1>2. Execute(e)
  BY Zenon DEF WriteCount
<1>3. n \in Counts
  BY InterruptAssumption
<1> HIDE DEF due
<1>4. Good(e) /\ SameLines(due, e)
  BY <1>1, <1>3, TranslateGood, TranslateLines
<1>5. HeadCheck(due) => HeadCheck(e)
  BY <1>1, <1>3, TranslateKeepsCheck DEF Good
<1> HIDE DEF e
<1>6. Heard(e)
  BY <1>1, <1>4, <1>5, HeardStays, Zenon
<1> QED
  BY <1>2, <1>4, <1>6, ExecuteHeard DEF Good, Fits

(* A write of COMPARE, which also clears the line of the timer.            *)
LEMMA WriteCompareHeard ==
  ASSUME Good(dev), Heard(dev), NEW n \in COMPARE_WRITES, WriteCompare(n)
  PROVE  Heard(dev')
<1> DEFINE rest == RemoveEvent(dev, CompareEvent)
           armed == AddCompare(rest, n)
           final == [armed EXCEPT !.compare = n, !.ip = @ \ {Timer}]
<1>1. n \in Counts /\ CompareEvent # CheckEvent
  BY InterruptAssumption DEF CompareEvent, CheckEvent
<1>2. Fits(rest) /\ SameRest(dev, rest)
  BY RemoveEventProps, Zenon DEF Good
<1>3. HeadCheck(dev) => HeadCheck(rest)
  BY <1>1, RemoveKeepsCheck, Zenon DEF Good
<1>4. Execute(final)
  BY Zenon DEF WriteCompare
<1> HIDE DEF rest
<1>5. Fits(armed) /\ SameRest(rest, armed)
  BY <1>1, <1>2, AddCompareProps, Zenon
<1>6. HeadCheck(rest) => HeadCheck(armed)
  BY <1>1, <1>2, AddCompareKeepsCheck, Zenon
<1> HIDE DEF armed
<1>7. Heard(armed)
  <2>1. Heard(rest)
    BY <1>2, <1>3, RestLines, HeardStays, Zenon
  <2> QED
    BY <2>1, <1>5, <1>6, RestLines, HeardStays, Zenon
<1>8. /\ final.q = armed.q /\ final.count = armed.count /\ final.cycle = armed.cycle
      /\ final.ie = armed.ie /\ final.exl = armed.exl /\ final.im = armed.im
      /\ final.ip \subseteq armed.ip /\ final.intr = armed.intr /\ final.mask = armed.mask
  BY <1>5 DEF Fits, Device
<1>9. final \in Device
  BY <1>1, <1>5 DEF Fits, Device
<1> HIDE DEF final
<1>10. Heard(final)
  <2>1. Waiting(final) => Waiting(armed)
    BY <1>8 DEF Waiting
  <2>2. HeadCheck(armed) => HeadCheck(final)
    BY <1>8, Zenon DEF HeadCheck
  <2> QED
    BY <1>7, <2>1, <2>2, Zenon DEF Heard
<1> QED
  BY <1>4, <1>9, <1>10, ExecuteHeard

(* The instructions that may unmask an interrupt: MTC0 STATUS and ERET.    *)
LEMMA WriteStatusHeard ==
  ASSUME Good(dev), Len(dev.q) < POOL_CAPACITY,
         NEW ie \in BOOLEAN, NEW exl \in BOOLEAN, NEW im \in IM_WRITES,
         WriteStatus(ie, exl, im)
  PROVE  Heard(dev')
<1> DEFINE s == [dev EXCEPT !.ie = ie, !.exl = exl, !.im = im]
           written == CheckRCP(s)
           due == R4300Safe(GenIfDue(R4300Unsafe(written)))
<1>1. s \in Device /\ s.q = dev.q /\ s.compare = dev.compare
  <2>1. im \in SUBSET IPs
    BY InterruptAssumption
  <2> QED
    BY <2>1 DEF Good, Fits, Device
<1>2. Execute(due)
  BY Zenon DEF WriteStatus
<1> HIDE DEF s
<1>3. Good(written) /\ Heard(written)
  BY <1>1, SameQueue, CheckRCPGood, CheckRCPHeard
<1> HIDE DEF written
<1>4. Good(due) /\ Heard(due)
  BY <1>3, DueHeard
<1> HIDE DEF due
<1> QED
  BY <1>2, <1>4, ExecuteHeard DEF Good, Fits

LEMMA EretHeard ==
  ASSUME Good(dev), Len(dev.q) < POOL_CAPACITY, Eret
  PROVE  Heard(dev')
<1> DEFINE e == [dev EXCEPT !.exl = FALSE]
           written == CheckRCP(e)
<1>1. e \in Device /\ e.q = dev.q /\ e.compare = dev.compare
  BY DEF Good, Fits, Device
<1>2. Execute(GenIfDue(written))
  BY DEF Eret
<1> HIDE DEF e
<1>3. Good(written) /\ Heard(written)
  BY <1>1, SameQueue, CheckRCPGood, CheckRCPHeard
<1> HIDE DEF written
<1>4. GenIfDue(written) \in Device /\ Heard(GenIfDue(written))
  BY <1>3, GenIfDueGood, GenIfDueHeard DEF Good, Fits
<1> QED
  BY <1>2, <1>4, ExecuteHeard

(* An instruction that raises an exception.                                *)
LEMMA TrapHeard ==
  ASSUME Good(dev), Trap
  PROVE  Heard(dev')
<1> DEFINE e == [dev EXCEPT !.ip = {}]
<1>1. e \in Device /\ e.q = dev.q /\ e.compare = dev.compare
  BY DEF Good, Fits, Device
<1>2. Execute(ExceptionGeneral(e))
  BY DEF Trap
<1> HIDE DEF e
<1>3. ExceptionGeneral(e) \in Device
  BY <1>1, SameQueue, ExceptionGeneralGood DEF Good, Fits
<1>4. Heard(ExceptionGeneral(e))
  BY <1>1, ExceptionMasks DEF Heard
<1> QED
  BY <1>2, <1>3, <1>4, ExecuteHeard

(* The requests of the front end.                                          *)
LEMMA RequestHeard ==
  ASSUME Good(dev), Heard(dev), NEW j \in JOBS, Request(j)
  PROVE  Heard(dev')
<1>0. dev \in Device /\ Fits(dev)
  BY DEF Good, Fits
<1>1. CASE dev' = [dev EXCEPT !.job = j]
  <2> DEFINE e == [dev EXCEPT !.job = j]
  <2>1. SameLines(dev, e) /\ e.q = dev.q /\ e.count = dev.count /\ e.cycle = dev.cycle
    BY <1>0 DEF Device, SameLines
  <2> HIDE DEF e
  <2>2. Heard(e)
    BY <2>1, HeardElsewhere, Zenon
  <2> QED
    BY <1>1, <2>2 DEF e
<1>2. CASE dev' = [dev EXCEPT !.reset = TRUE]
  <2> DEFINE e == [dev EXCEPT !.reset = TRUE]
  <2>1. SameLines(dev, e) /\ e.q = dev.q /\ e.count = dev.count /\ e.cycle = dev.cycle
    BY <1>0 DEF Device, SameLines
  <2> HIDE DEF e
  <2>2. Heard(e)
    BY <2>1, HeardElsewhere, Zenon
  <2> QED
    BY <1>2, <2>2 DEF e
<1>3. CASE dev' = AddEvent(AddEvent(dev, HW2Event, 0), NMIEvent, NMI_DELAY)
  <2>1. HW2Event \in EventTypes /\ NMIEvent \in EventTypes /\ NMI_DELAY \in Nat /\ 0 \in Nat
    BY OtherTypes, InterruptAssumption
  <2> DEFINE e == AddEvent(dev, HW2Event, 0)
  <2>2. Fits(e) /\ Heard(e)
    BY <1>0, <2>1, AddEventHeard
  <2> HIDE DEF e
  <2>3. Heard(AddEvent(e, NMIEvent, NMI_DELAY))
    BY <2>1, <2>2, AddEventHeard
  <2> QED
    BY <1>3, <2>3 DEF e
<1> QED
  BY <1>1, <1>2, <1>3 DEF Request

-----------------------------------------------------------------------------
(* The invariant of the interrupts, as long as the pool has a node left.   *)

HInv == IInv /\ Heard(dev)

LEMMA NextHeard ==
  ASSUME Short, HInv, NodeLeft, [Next]_dev
  PROVE  HInv'
<1>0. Good(dev) /\ Heard(dev) /\ Len(dev.q) < POOL_CAPACITY
  BY InvariantIsGood DEF HInv, NodeLeft
<1>a. IInv'
  BY NextGood DEF HInv
<1> SUFFICES Heard(dev')
  BY <1>a, Zenon DEF HInv, Heard, HeadCheck, Waiting
<1>1. ASSUME NEW n \in STEPS, Step(n) PROVE Heard(dev')
  BY <1>0, <1>1, StepHeard
<1>2. ASSUME NEW n \in STEPS, IdleLoop(n) PROVE Heard(dev')
  BY <1>0, <1>2, IdleLoopHeard
<1>3. CASE JumpStart \/ JumpEnd
  BY <1>0, <1>3, JumpHeard
<1>4. CASE \/ \E t \in DEVICES, delay \in DELAYS : StartDevice(t, delay)
           \/ \E t \in CANCELABLE : CancelDevice(t)
           \/ \E l \in SIGNALS : SignalLine(l)
           \/ \E l \in Lines : ClearLine(l)
           \/ StartVI
           \/ \E m \in MASK_WRITES : WriteMask(m)
  BY <1>0, <1>4, StoreHeard, Zenon
<1>5. ASSUME NEW n \in COUNT_WRITES, WriteCount(n) PROVE Heard(dev')
  BY <1>0, <1>5, WriteCountHeard
<1>6. ASSUME NEW n \in COMPARE_WRITES, WriteCompare(n) PROVE Heard(dev')
  BY <1>0, <1>6, WriteCompareHeard
<1>7. ASSUME NEW ie \in BOOLEAN, NEW exl \in BOOLEAN, NEW im \in IM_WRITES,
             WriteStatus(ie, exl, im)
      PROVE  Heard(dev')
  BY <1>0, <1>7, WriteStatusHeard
<1>8. CASE Eret
  BY <1>0, <1>8, EretHeard
<1>9. ASSUME NEW t \in TRAPS, Trap PROVE Heard(dev')
  BY <1>0, <1>9, TrapHeard
<1>10. ASSUME NEW j \in JOBS, Request(j) PROVE Heard(dev')
  BY <1>0, <1>10, RequestHeard
<1>11. ASSUME NEW t \in TASKS, RunTask PROVE Heard(dev')
  BY <1>0, <1>11, RunTaskHeard
<1>12. CASE UNCHANGED dev
  BY <1>0, <1>12, Zenon DEF Heard, HeadCheck, Waiting
<1> QED
  BY <1>1, <1>2, <1>3, <1>4, <1>5, <1>6, <1>7, <1>8, <1>9, <1>10, <1>11, <1>12, Zenon DEF Next

(* An interrupt that the CPU accepts is never forgotten, whatever unmasks  *)
(* it and whatever is queued, cancelled or translated meanwhile, if no     *)
(* instruction takes half the range of COUNT and the pool never fills up:  *)
(* r4300_check_interrupt drops the CHECK_INT when it has no node left.     *)
THEOREM InterruptNeverLost ==
  (\A n \in STEPS : MAX_LATE + n < HALF)
    => (Spec /\ [](Len(dev.q) < POOL_CAPACITY) => []NoLostInterrupt)
<1> SUFFICES ASSUME \A n \in STEPS : MAX_LATE + n < HALF
             PROVE  Spec /\ []NodeLeft => []NoLostInterrupt
  BY DEF NodeLeft
<1>1. Init => HInv
  <2>1. Heard(PowerOn)
    BY PowerOnMasks DEF Heard, Waiting
  <2> QED
    BY <2>1, InitGood DEF HInv, Init
<1>2. HInv /\ NodeLeft /\ [Next]_dev => HInv'
  BY NextHeard DEF Short
<1>3. HInv => NoLostInterrupt
  BY DEF HInv, Heard, HeadCheck, NoLostInterrupt
<1> QED
  BY <1>1, <1>2, <1>3, PTL DEF Spec

-----------------------------------------------------------------------------
(* The order of the events.                                                *)

(* The head of the queue is at tick h of COUNT, and cycle_count tells it.  *)
At(d, h) == InOrder(d.q, d.count, h) /\ d.cycle = -h

(* Some event other than COMPARE_INT is queued.                            *)
Paced(q) == \E i \in 1 .. Len(q) : q[i].type # CompareEvent

LEMMA QueueTypes ==
  ASSUME NEW d \in Device
  PROVE  /\ d.q \in Seq(EventType) /\ d.q \in Seq(Entry(EventTypes))
         /\ Len(d.q) \in Nat /\ DOMAIN d.q = 1 .. Len(d.q)
         /\ d.count \in Counts /\ d.count \in Int /\ d.cycle \in Int
         /\ d.compare \in Counts /\ d.compare \in Int
  BY EntryType, RangeType, LenProperties DEF Device

LEMMA QueuedPaces ==
  ASSUME NEW d \in Device, NEW t, t # CompareEvent, Queued(d.q, t)
  PROVE  Paced(d.q)
<1>1. PICK i \in DOMAIN d.q : d.q[i].type = t
  BY DEF Queued, IndicesOf
<1> QED
  BY <1>1, QueueTypes DEF Paced

(* What a computed cycle_count says of a queue in order.                   *)
LEMMA HeadOfFrom ==
  ASSUME NEW d \in Device, NEW b \in Int, -HALF < b, From(d.q, d.count, b), Paced(d.q),
         d.cycle = HeadCycles(d)
  PROVE  \E k \in Int : At(d, k) /\ b <= k /\ k <= HALF
<1>0. d.q \in Seq(Entry(EventTypes)) /\ d.count \in Counts /\ d.q # <<>>
  BY QueueTypes DEF Paced
<1>1. PICK k \in Int : InOrder(d.q, d.count, k) /\ b <= k
  BY <1>0, FirstHead, Zenon
<1>2. -HALF < k
  BY <1>1, HalfAssumption
<1>3. k <= HALF /\ HeadCycles(d) = -k
  BY <1>0, <1>1, <1>2, HeadDistance, Zenon DEF Paced
<1> QED
  BY <1>1, <1>3 DEF At

(* The queue with an event added, and its cycle_count.                     *)
LEMMA AddedQueue ==
  ASSUME NEW d, Fits(d), Len(d.q) < POOL_CAPACITY, NEW type \in EventTypes, NEW n \in Counts
  PROVE  LET e == AddEventCount(d, type, n)
         IN  /\ e.q = InsertAt(d.q, InsertPosition(d, n), Event(type, n))
             /\ e.cycle = HeadCycles(e)
<1> DEFINE r == InsertAt(d.q, InsertPosition(d, n), Event(type, n))
           e == [d EXCEPT !.q = r]
           f == [e EXCEPT !.cycle = HeadCycles(e)]
<1>0. d \in Device /\ ~(Len(d.q) >= POOL_CAPACITY)
  BY QueueTypes, PoolAssumption DEF Fits
<1>1. AddEventCount(d, type, n) = f
  BY <1>0, Zenon DEF AddEventCount
<1>2. Fits(f) /\ f.count = d.count
  <2> HIDE DEF f
  <2>1. /\ Fits(AddEventCount(d, type, n))
        /\ AddEventCount(d, type, n).count = d.count
    BY AddEventCountProps, Zenon DEF SameRest
  <2> QED
    BY <1>1, <2>1, Zenon
<1>3. f.q = r /\ f.cycle = HeadCycles(e) /\ e.q = r /\ e.count = d.count
  <2> HIDE DEF r
  <2> QED
    BY <1>0 DEF Device
<1>4. HeadCycles(e) = HeadCycles(f)
  <2> HIDE DEF e, f
  <2> QED
    BY <1>2, <1>3 DEF HeadCycles
<1> QED
  BY <1>1, <1>3, <1>4, Zenon

(* An event queued v ticks ahead of COUNT takes its place in the order.    *)
LEMMA AddPlaced ==
  ASSUME NEW d, Fits(d), Len(d.q) < POOL_CAPACITY, NEW h \in Int, d.cycle = -h, -HALF < h,
         Between(d.q, d.count, Base0(h), Base0(h) + COUNT_MOD),
         NEW t \in EventTypes, NEW v \in Int, Base0(h) <= v, v < Base0(h) + COUNT_MOD,
         t # CompareEvent => v <= HALF,
         t = CompareEvent => v <= COUNT_MOD,
         Paced(AddEventCount(d, t, Wrap(d.count + v)).q)
  PROVE  \E k \in Int : /\ At(AddEventCount(d, t, Wrap(d.count + v)), k)
                        /\ Base0(h) <= k /\ k <= HALF
<1> DEFINE n == Wrap(d.count + v)  e == AddEventCount(d, t, n)  b == Base0(h)
<1>0. d \in Device /\ d.q \in Seq(Entry(EventTypes)) /\ d.count \in Counts /\ d.count \in Int
  BY QueueTypes DEF Fits
<1>1. b \in Int /\ -HALF < b
  BY HalfAssumption DEF Base0
<1>2. n \in Counts
  BY <1>0, WrapSum, Zenon
<1>3. BasedAt(OrderBase(d), d.count, b)
  BY <1>0, OrderBased
<1>4. From(InsertAt(d.q, InsertPosition(d, n), Event(t, n)), d.count, b)
  <2> HIDE DEF b
  <2>1. Between(d.q, d.count, b, b + COUNT_MOD) /\ b <= v /\ v < b + COUNT_MOD
    BY DEF b
  <2> QED
    BY <2>1, <1>0, <1>1, <1>3, InsertInOrder, Zenon
<1>5. /\ e.q = InsertAt(d.q, InsertPosition(d, n), Event(t, n))
      /\ e.cycle = HeadCycles(e) /\ e.count = d.count /\ e \in Device
  <2> HIDE DEF n
  <2> QED
    BY <1>2, AddedQueue, AddEventCountProps, Zenon DEF SameRest, Fits
<1>6. From(e.q, e.count, b) /\ Paced(e.q)
  BY <1>4, <1>5, Zenon
<1> HIDE DEF e, b
<1>7. \E k \in Int : At(e, k) /\ b <= k /\ k <= HALF
  BY <1>1, <1>5, <1>6, HeadOfFrom, Zenon
<1> QED
  BY <1>7 DEF e, b

(* The head leaves the queue.                                              *)
LEMMA RemoveHeadPlaced ==
  ASSUME NEW d, Fits(d), NEW h \in Int, InOrder(d.q, d.count, h), -HALF < h,
         Paced(RemoveHead(d).q)
  PROVE  \E k \in Int : /\ At(RemoveHead(d), k) /\ h <= k /\ k <= HALF
                        /\ Between(RemoveHead(d).q, d.count, k, h + COUNT_MOD)
<1> DEFINE e == RemoveHead(d)
<1>0. /\ d \in Device /\ d.q \in Seq(Entry(EventTypes)) /\ d.count \in Counts
      /\ d.q \in Seq(EventType) /\ d.q # <<>>
  BY QueueTypes DEF Fits, InOrder
<1>1. /\ e \in Device /\ e.count = d.count /\ e.q \in Seq(Entry(EventTypes))
  BY <1>0, RemoveHeadProps, QueueTypes DEF Fits, SameRest
<1>2. e.q = RemoveAt(d.q, 1) /\ 1 \in 1 .. Len(d.q) /\ e.cycle = HeadCycles(e)
  <2> DEFINE r == Tail(d.q)
             m == [d EXCEPT !.q = r]
             f == [m EXCEPT !.cycle = HeadCycles(m)]
  <2>1. r = RemoveAt(d.q, 1) /\ 1 \in 1 .. Len(d.q)
    BY <1>0, TailIsRemoveAt, Zenon
  <2>2. e = f
    BY DEF RemoveHead
  <2> HIDE DEF r
  <2>3. f.q = r /\ f.cycle = HeadCycles(m) /\ m.q = r /\ m.count = d.count
    BY <1>0 DEF Device
  <2> HIDE DEF m, f, e
  <2>4. HeadCycles(m) = HeadCycles(e)
    BY <2>2, <2>3, <1>1 DEF HeadCycles
  <2> QED
    BY <2>1, <2>2, <2>3, <2>4, Zenon
<1>3. Between(d.q, d.count, h, h + COUNT_MOD)
  BY <1>0, WindowFromHead, Zenon
<1> HIDE DEF e
<1>4. Between(e.q, d.count, h, h + COUNT_MOD)
  BY <1>0, <1>2, <1>3, RemoveFrom
<1>5. e.q # <<>>
  BY DEF Paced, e
<1>6. PICK k \in Int : /\ InOrder(e.q, d.count, k) /\ Between(e.q, d.count, k, h + COUNT_MOD)
                       /\ h <= k
  BY <1>1, <1>4, <1>5, HeadBetween, Zenon
<1>7. -HALF < k
  BY <1>6, HalfAssumption
<1>8. e.count \in Counts /\ InOrder(e.q, e.count, k) /\ Paced(e.q)
  BY <1>0, <1>1, <1>6 DEF e
<1>9. k <= HALF /\ HeadCycles(e) = -k
  BY <1>1, <1>7, <1>8, HeadDistance, Zenon DEF Paced
<1> QED
  BY <1>1, <1>2, <1>6, <1>8, <1>9 DEF At, e

(* After an overdue head has left, an event that is added is compared from *)
(* the new head if that is overdue too, and from COUNT if not.             *)
LEMMA RemovedWindow ==
  ASSUME NEW d, Fits(d), NEW h \in Int, InOrder(d.q, d.count, h), -HALF < h, h <= 0,
         Paced(RemoveHead(d).q)
  PROVE  \E k \in Int : /\ At(RemoveHead(d), k) /\ h <= k /\ k <= HALF
                        /\ Between(RemoveHead(d).q, d.count, Base0(k), Base0(k) + COUNT_MOD)
<1> DEFINE e == RemoveHead(d)
<1>1. PICK k \in Int : /\ At(e, k) /\ h <= k /\ k <= HALF
                       /\ Between(e.q, d.count, k, h + COUNT_MOD)
  BY RemoveHeadPlaced, Zenon
<1>2. e.q \in Seq(Entry(EventTypes))
  <2>1. d.q # <<>>
    BY DEF InOrder
  <2> QED
    BY <2>1, RemoveHeadProps, QueueTypes DEF Fits
<1> HIDE DEF e
<1> DEFINE b == Base0(k)
<1>3. b \in Int /\ b <= k /\ h <= b
  BY <1>1 DEF Base0
<1> HIDE DEF b
<1>4. b + COUNT_MOD \in Int /\ h + COUNT_MOD \in Int /\ h + COUNT_MOD <= b + COUNT_MOD
  BY <1>3, RangeType
<1>5. Between(e.q, d.count, b, b + COUNT_MOD)
  BY <1>1, <1>2, <1>3, <1>4, BetweenWider, Zenon
<1> QED
  BY <1>1, <1>5 DEF e, b

(* COMPARE_INT takes its place when no COMPARE_INT is queued: it is put at *)
(* most a turn of COUNT ahead.                                             *)
LEMMA AddComparePlaced ==
  ASSUME NEW d, Fits(d), Len(d.q) < POOL_CAPACITY, ~Queued(d.q, CompareEvent),
         QueuedOnce(d.q, SpecialEvent),
         NEW h \in Int, d.cycle = -h, -HALF < h, From(d.q, d.count, Base2(h)),
         NEW n \in Counts, h < 2 \/ Wrap(n - d.count) # 1
  PROVE  \E k \in Int : At(AddCompare(d, n), k) /\ Base2(h) <= k /\ k <= HALF
<1> DEFINE b == Base2(h)
           c2 == Wrap(d.count + 2)
           k2 == d.cycle + 2
           ahead == [d EXCEPT !.count = c2, !.cycle = k2]
           moved == AddEventCount(ahead, CompareEvent, n)
           added == [moved EXCEPT !.count = d.count]
           final == [added EXCEPT !.cycle = HeadCycles(added)]
<1>0. /\ d \in Device /\ d.q \in Seq(Entry(EventTypes)) /\ d.count \in Counts /\ d.count \in Int
      /\ d.cycle \in Int /\ DOMAIN d.q = 1 .. Len(d.q) /\ Len(d.q) \in Nat
  BY QueueTypes DEF Fits
<1>1. b \in Int /\ -HALF < b /\ b <= 2 /\ (b = 2 => Wrap(n - d.count) # 1)
  BY HalfAssumption DEF Base2
<1>2. ahead \in Device /\ ahead.q = d.q /\ ahead.count = c2 /\ ahead.cycle = k2
  <2>1. c2 \in Counts /\ k2 \in Int
    BY <1>0, WrapSum
  <2> HIDE DEF c2, k2
  <2> QED
    BY <1>0, <2>1 DEF Device
<1>3. AddCompare(d, n) = final
  BY DEF AddCompare
<1>4. BasedAt(OrderBase(ahead), d.count, b)
  <2>1. k2 = -h + 2
    BY <1>0
  <2> HIDE DEF ahead, k2
  <2> QED
    BY <1>0, <1>2, <2>1, AheadBased
<1> HIDE DEF ahead
<1>5. Fits(ahead)
  BY <1>2 DEF Fits
<1>6. Between(d.q, d.count, b, b + COUNT_MOD)
  <2>1. \A i \in 1 .. Len(d.q) : d.q[i].type # CompareEvent
    BY <1>0, NotQueued
  <2>2. From(d.q, d.count, b)
    OBVIOUS
  <2> HIDE DEF b
  <2> QED
    BY <1>0, <1>1, <2>1, <2>2, WindowWithoutCompare
<1> HIDE DEF b
<1>7. PICK v \in Int : b <= v /\ v < b + COUNT_MOD /\ v <= COUNT_MOD /\ n = Wrap(d.count + v)
  BY <1>0, <1>1, CompareAhead
<1>8. From(InsertAt(d.q, InsertPosition(ahead, n), Event(CompareEvent, n)), d.count, b)
  <2>1. /\ ahead.q \in Seq(Entry(EventTypes)) /\ Between(ahead.q, d.count, b, b + COUNT_MOD)
        /\ CompareEvent \in EventTypes
    BY <1>0, <1>2, <1>6, TimerTypes
  <2>2. From(InsertAt(ahead.q, InsertPosition(ahead, Wrap(d.count + v)),
                      Event(CompareEvent, Wrap(d.count + v))), d.count, b)
    BY <2>1, <1>0, <1>1, <1>4, <1>7, InsertInOrder
  <2> QED
    BY <1>2, <1>7, <2>2
<1>9. /\ moved.q = InsertAt(d.q, InsertPosition(ahead, n), Event(CompareEvent, n))
      /\ moved \in Device
  <2>1. Len(ahead.q) < POOL_CAPACITY /\ CompareEvent \in EventTypes
    BY <1>2, TimerTypes
  <2>2. /\ moved.q = InsertAt(ahead.q, InsertPosition(ahead, n), Event(CompareEvent, n))
        /\ Fits(moved)
    BY <2>1, <1>5, AddedQueue, AddEventCountProps
  <2> HIDE DEF moved
  <2> QED
    BY <1>2, <2>2 DEF Fits
<1> HIDE DEF moved
<1>10. added \in Device /\ added.q = moved.q /\ added.count = d.count
  BY <1>0, <1>9 DEF Device
<1> HIDE DEF added
<1>11. final \in Device /\ final.q = moved.q /\ final.cycle = HeadCycles(added) /\ final.count = d.count
  BY <1>10, HeadCyclesType, DeviceCycle DEF SameRest
<1> HIDE DEF final
<1>12. final.cycle = HeadCycles(final)
  BY <1>10, <1>11 DEF HeadCycles
<1>13. Paced(final.q)
  <2>1. QueuedOnce(final.q, SpecialEvent)
    <3>1. \A t : t # CompareEvent => Kept(d, AddCompare(d, n), t)
      BY AddCompareProps, Zenon
    <3> QED
      BY <3>1, <1>3, TimerTypes, Zenon DEF Kept
  <2> QED
    BY <1>11, <2>1, OnceQueued, QueuedPaces, TimerTypes
<1>14. From(final.q, final.count, b)
  BY <1>8, <1>9, <1>11
<1> QED
  BY <1>1, <1>3, <1>11, <1>12, <1>13, <1>14, HeadOfFrom DEF b

-----------------------------------------------------------------------------
(* The hypotheses, and what the order of the events implies.               *)

(* A program whose jumps come often enough for the VI, on a device whose   *)
(* delays are at most half the range of COUNT, without the requests, the   *)
(* signals and the cancellations that leave cycle_count or the order stale.*)
Tuned ==
  /\ SIGNALS = {} /\ CANCELABLE = {} /\ "soft" \notin JOBS
  /\ \A n \in STEPS : n <= MAX_LATE + 2 /\ MAX_LATE + n < VI_DELAY
  /\ MAX_LATE < VI_DELAY /\ VI_DELAY <= HALF /\ 2 * MAX_LATE + 3 < HALF
  /\ \A n \in DELAYS : n <= HALF
  /\ POWERON_COUNT <= HALF

(* How late an event may be when its handler runs.                         *)
Late == IF VI_DELAY < 2 * MAX_LATE + 3 THEN VI_DELAY ELSE 2 * MAX_LATE + 3

LEMMA LateBounds ==
  ASSUME Tuned
  PROVE  /\ Late \in Int /\ 0 < Late /\ Late < HALF /\ MAX_LATE < Late
         /\ Late <= VI_DELAY /\ Late <= 2 * MAX_LATE + 3
         /\ \A n \in STEPS : n \in Int /\ 0 <= n /\ MAX_LATE + n < Late /\ n <= MAX_LATE + 2
         /\ MAX_LATE \in Int /\ MAX_LATE >= 0 /\ VI_DELAY \in Int /\ VI_DELAY <= HALF
         /\ HALF \in Int /\ HALF > 2
<1>1. /\ MAX_LATE \in Int /\ MAX_LATE >= 0 /\ VI_DELAY \in Int /\ VI_DELAY >= 0
      /\ HALF \in Int /\ HALF > 2 /\ \A n \in STEPS : n \in Int /\ 0 <= n
  BY InterruptAssumption, HalfAssumption
<1>2. /\ MAX_LATE < VI_DELAY /\ VI_DELAY <= HALF /\ 2 * MAX_LATE + 3 < HALF
      /\ \A n \in STEPS : n <= MAX_LATE + 2 /\ MAX_LATE + n < VI_DELAY
  BY DEF Tuned
<1>3. Late \in Int /\ Late <= VI_DELAY /\ Late <= 2 * MAX_LATE + 3 /\ (Late = VI_DELAY \/ Late = 2 * MAX_LATE + 3)
  BY <1>1 DEF Late
<1>4. ASSUME NEW n \in STEPS
      PROVE  n \in Int /\ 0 <= n /\ MAX_LATE + n < Late /\ n <= MAX_LATE + 2
  <2>1. n \in Int /\ 0 <= n /\ n <= MAX_LATE + 2 /\ MAX_LATE + n < VI_DELAY
    BY <1>1, <1>2
  <2> QED
    BY <2>1, <1>1, <1>3
<1>5. 0 < Late /\ Late < HALF /\ MAX_LATE < Late
  BY <1>1, <1>2, <1>3
<1> QED
  BY <1>1, <1>2, <1>3, <1>4, <1>5

(* The events are in order, the head at tick h of COUNT: late, but the     *)
(* exception of its handler is still in time. Only an exception in a delay *)
(* slot leaves cycle_count behind.                                         *)
Placed(d, h) ==
  /\ InOrder(d.q, d.count, h)
  /\ -Late <= h /\ (~d.exl => -Late < h)
  /\ ~d.skip => d.cycle = -h
Order(d) == \E h \in Int : Placed(d, h)

(* The three properties of the order, of any device.                       *)
LateBy(d, e) == Signed(Wrap(d.count - e.count))
Sorted(d) ==
  \A i, j \in DOMAIN d.q :
    /\ i < j
    /\ d.q[i].type \in DEVICES \cup {ViEvent}
    /\ d.q[j].type \in DEVICES \cup {ViEvent}
    => LateBy(d, d.q[i]) >= LateBy(d, d.q[j])
Shown(d) ==
  /\ ~d.skip => d.cycle = HeadCycles(d)
  /\ HeadCycles(d) <= 2 * MAX_LATE + 3
  /\ Sorted(d)

LEMMA ShownIsShown == Shown(dev) => CycleTracksHead /\ HeadWithinHalf /\ DevicesInOrder
  BY Zenon DEF Shown, Sorted, LateBy, CycleTracksHead, HeadWithinHalf, DevicesInOrder, Lateness

(* A distance within half a turn is read back exactly.                     *)
LEMMA LateByTick ==
  ASSUME NEW n \in Int, NEW o \in Int, -HALF < o, o <= HALF
  PROVE  Signed(Wrap(n - Wrap(n + o))) = -o
<1>1. n + o \in Int /\ -o \in Int
  OBVIOUS
<1>2. Wrap(n - Wrap(n + o)) = Wrap(-o)
  <2>1. Wrap(n - Wrap(n + o)) = Wrap(n - (n + o)) /\ n - (n + o) = -o
    BY <1>1, WrapAgain
  <2> QED
    BY <2>1
<1>3. CASE o <= 0
  <2>1. Wrap(-o) = -o
    BY <1>1, <1>3, WrapNear, RangeType, HalfAssumption
  <2> QED
    BY <1>2, <1>3, <2>1, HalfAssumption DEF Signed
<1>4. CASE o > 0
  <2>1. 0 <= -o + COUNT_MOD /\ -o < 0
    BY <1>4, RangeType, HalfAssumption
  <2>2. Wrap(-o) = -o + COUNT_MOD
    BY <2>1, <1>1, WrapNear
  <2> QED
    BY <1>2, <1>4, <2>2, HalfAssumption, RangeType DEF Signed
<1> QED
  BY <1>3, <1>4

(* Device events of a queue in order lie within half a turn of COUNT.      *)
LEMMA OrderSorts ==
  ASSUME NEW d \in Device, NEW h \in Int, InOrder(d.q, d.count, h), -HALF < h
  PROVE  Sorted(d)
<1> DEFINE q == d.q  n == d.count
<1>0. q \in Seq(Entry(EventTypes)) /\ n \in Int /\ DOMAIN q = 1 .. Len(q)
  BY QueueTypes
<1>1. PICK o : q # <<>> /\ Line(q, n, o) /\ Spaced(q, o) /\ o[1] = h
  BY DEF InOrder
<1>2. Len(q) \in Nat /\ Len(q) >= 1 /\ \A i \in 1 .. Len(q) : o[i] \in Int
  BY <1>0, <1>1, LineTypes
<1>3. ASSUME NEW i \in 1 .. Len(q), q[i].type \in DEVICES \cup {ViEvent}
      PROVE  LateBy(d, q[i]) = -o[i]
  <2>1. q[i].type # CompareEvent
    BY <1>3, OtherTypes
  <2>2. o[i] \in Int /\ o[i] <= HALF /\ h <= o[i] /\ q[i].count = Wrap(n + o[i])
    BY <1>1, <1>2, <2>1 DEF Spaced, Line
  <2>3. -HALF < o[i]
    BY <2>2, HalfAssumption
  <2>4. Signed(Wrap(n - Wrap(n + o[i]))) = -o[i]
    BY <1>0, <2>2, <2>3, LateByTick
  <2> QED
    BY <2>2, <2>4 DEF LateBy
<1>4. \A i, j \in 1 .. Len(q) : i < j => -o[i] >= -o[j]
  BY <1>1, <1>2 DEF Line
<1> QED
  BY <1>0, <1>3, <1>4 DEF Sorted

(* A device in order shows the three properties.                           *)
LEMMA OrderShows ==
  ASSUME Tuned, NEW d, Good(d), NEW h \in Int, Placed(d, h)
  PROVE  /\ Shown(d) /\ HeadCycles(d) = -h /\ h <= HALF /\ -HALF < h
<1>0. d \in Device /\ d.q \in Seq(Entry(EventTypes)) /\ d.count \in Counts
  BY QueueTypes DEF Good, Fits
<1>1. -HALF < h
  BY LateBounds DEF Placed
<1>2. Paced(d.q)
  BY <1>0, OnceQueued, QueuedPaces, TimerTypes DEF Good, Timers
<1>3. h <= HALF /\ HeadCycles(d) = -h
  BY <1>0, <1>1, <1>2, HeadDistance, Zenon DEF Placed, Paced
<1>4. HeadCycles(d) <= 2 * MAX_LATE + 3
  BY <1>3, LateBounds DEF Placed
<1>5. Sorted(d)
  BY <1>0, <1>1, OrderSorts DEF Placed
<1> QED
  BY <1>1, <1>3, <1>4, <1>5 DEF Shown, Placed

-----------------------------------------------------------------------------
(* Exceptions and lines.                                                   *)

(* What an exception of the CPU or a line leaves alone.                    *)
Steady(d, e) ==
  /\ e.q = d.q /\ e.compare = d.compare /\ e.loading = d.loading /\ e.slot = d.slot
  /\ e.count \in {d.count, Wrap(d.count + 1)}

(* An abandoned jump is one in progress, and is noticed when it ends.      *)
Held(d) == d.skip => d.slot # "no" /\ d.cycle = 0

LEMMA ExceptionProps ==
  ASSUME NEW d \in Device
  PROVE  LET e == ExceptionGeneral(d)
         IN  /\ e \in Device /\ Steady(d, e) /\ e.count = Wrap(d.count + 1)
             /\ e.exl = TRUE /\ e.ip = d.ip
             /\ d.slot = "no" => e.skip = d.skip /\ e.cycle = d.cycle + 1
             /\ d.slot # "no" => e.skip = TRUE /\ e.cycle = 0
<1> DEFINE masked == [d EXCEPT !.exl = TRUE]
           m == Wrap(masked.count + 1)  k == masked.cycle + 1
           e == [masked EXCEPT !.count = m, !.cycle = k]
           left == [e EXCEPT !.skip = TRUE, !.cycle = 0]
<1>1. /\ masked \in Device /\ masked.q = d.q /\ masked.compare = d.compare
      /\ masked.count = d.count /\ masked.cycle = d.cycle /\ masked.exl = TRUE
      /\ masked.ip = d.ip /\ masked.slot = d.slot /\ masked.skip = d.skip
      /\ masked.loading = d.loading
  BY DEF Device
<1>2. m = Wrap(d.count + 1) /\ k = d.cycle + 1 /\ m \in Counts /\ k \in Int
  BY <1>1, QueueTypes, WrapSum
<1> HIDE DEF masked, m, k
<1>3. /\ e \in Device /\ e.q = d.q /\ e.compare = d.compare
      /\ e.count = m /\ e.cycle = k /\ e.exl = TRUE
      /\ e.ip = d.ip /\ e.slot = d.slot /\ e.skip = d.skip
      /\ e.loading = d.loading
  <2>1. e \in Device
    BY <1>1, <1>2 DEF Device
  <2>2. /\ e.q = masked.q /\ e.compare = masked.compare
        /\ e.count = m /\ e.cycle = k /\ e.exl = masked.exl
        /\ e.ip = masked.ip /\ e.slot = masked.slot /\ e.skip = masked.skip
        /\ e.loading = masked.loading
    BY <1>1 DEF Device
  <2> QED
    BY <2>1, <2>2, <1>1, Zenon
<1> HIDE DEF e
<1>4. /\ left \in Device /\ left.q = e.q /\ left.compare = e.compare
      /\ left.count = e.count /\ left.cycle = 0 /\ left.exl = e.exl
      /\ left.ip = e.ip /\ left.slot = e.slot /\ left.skip = TRUE
      /\ left.loading = e.loading
  <2>1. left \in Device
    BY <1>3, DeviceSkip, ZeroInt, Zenon
  <2>2. /\ left.q = e.q /\ left.compare = e.compare
        /\ left.count = e.count /\ left.cycle = 0 /\ left.exl = e.exl
        /\ left.ip = e.ip /\ left.slot = e.slot /\ left.skip = TRUE
        /\ left.loading = e.loading
    BY <1>3 DEF Device
  <2> QED
    BY <2>1, <2>2
<1> HIDE DEF left
<1>5. ExceptionGeneral(d) = IF d.slot = "no" THEN e ELSE left
  BY Zenon DEF ExceptionGeneral, AddCycles, left, e, m, k, masked
<1>6. CASE d.slot = "no"
  BY <1>2, <1>3, <1>5, <1>6, Zenon DEF Steady
<1>7. CASE d.slot # "no"
  BY <1>2, <1>3, <1>4, <1>5, <1>7, Zenon DEF Steady
<1> QED
  BY <1>6, <1>7

(* An exception takes a tick of COUNT.                                     *)
LEMMA ExceptionPlaced ==
  ASSUME Tuned, NEW d \in Device, NEW h \in Int, InOrder(d.q, d.count, h),
         -Late < h, ~d.skip, d.cycle = -h
  PROVE  Order(ExceptionGeneral(d)) /\ Held(ExceptionGeneral(d))
<1> DEFINE e == ExceptionGeneral(d)
<1>1. /\ e.q = d.q /\ e.count = Wrap(d.count + 1) /\ e.exl = TRUE /\ e.slot = d.slot
      /\ d.slot = "no" => e.skip = d.skip /\ e.cycle = d.cycle + 1
      /\ d.slot # "no" => e.skip = TRUE /\ e.cycle = 0
  BY ExceptionProps, Zenon DEF Steady
<1> HIDE DEF e
<1>2. InOrder(e.q, e.count, h - 1)
  <2>1. 1 \in Nat /\ d.q \in Seq(Entry(EventTypes)) /\ d.count \in Int
    BY QueueTypes
  <2>2. InOrder(d.q, Wrap(d.count + 1), h - 1)
    BY <2>1, LaterInOrder
  <2> QED
    BY <1>1, <2>2
<1>3. -Late <= h - 1 /\ h - 1 \in Int
  BY LateBounds
<1>4. ~e.skip => e.cycle = -(h - 1)
  <2>1. d.cycle + 1 = -(h - 1)
    OBVIOUS
  <2>2. ~e.skip => d.slot = "no"
    BY <1>1, Zenon
  <2> QED
    BY <1>1, <2>1, <2>2
<1>5. Placed(e, h - 1)
  BY <1>1, <1>2, <1>3, <1>4, Zenon DEF Placed
<1>6. Held(e)
  BY <1>1, Zenon DEF Held
<1> QED
  BY <1>3, <1>5, <1>6, Zenon DEF Order, e

(* The outcome of a handler that raises a line: the order and COUNT, but   *)
(* for the tick of an exception, and no other line.                        *)
Raised(d, e, line) ==
  /\ Order(e) /\ Held(e) /\ Steady(d, e) /\ e \in Device
  /\ e.ip \subseteq d.ip \cup {line}

LEMMA RaiseMaskablePlaced ==
  ASSUME Tuned, NEW d \in Device, NEW h \in Int, Placed(d, h), ~d.skip, NEW line \in IPs
  PROVE  Raised(d, RaiseMaskable(d, line), line)
<1> DEFINE s == d.ip \cup {line}
           e == [d EXCEPT !.ip = s]
<1>1. s \in SUBSET IPs
  BY DEF Device
<1>2. RaiseMaskable(d, line) = IF Takeable(e) THEN ExceptionGeneral(e) ELSE e
  BY Zenon DEF RaiseMaskable
<1> HIDE DEF s
<1>3. /\ e \in Device /\ e.q = d.q /\ e.count = d.count /\ e.ip = s /\ e.exl = d.exl
      /\ e.skip = d.skip /\ e.cycle = d.cycle /\ e.slot = d.slot
      /\ e.compare = d.compare /\ e.loading = d.loading
  BY <1>1 DEF Device
<1> HIDE DEF e
<1>4. Placed(e, h)
  BY <1>3, Zenon DEF Placed
<1>5. Steady(d, e) /\ Held(e) /\ Order(e) /\ e.ip = s
  BY <1>3, <1>4, Zenon DEF Steady, Held, Order
<1>6. CASE Takeable(e)
  <2>1. -Late < h /\ InOrder(e.q, e.count, h) /\ ~e.skip /\ e.cycle = -h
    BY <1>3, <1>4, <1>6, Zenon DEF Takeable, Placed
  <2>2. Order(ExceptionGeneral(e)) /\ Held(ExceptionGeneral(e))
    BY <1>3, <2>1, ExceptionPlaced
  <2>3. /\ Steady(e, ExceptionGeneral(e)) /\ ExceptionGeneral(e).ip = e.ip
        /\ ExceptionGeneral(e) \in Device
    BY <1>3, ExceptionProps, Zenon
  <2>4. Steady(d, ExceptionGeneral(e))
    BY <1>3, <2>3, Zenon DEF Steady
  <2>5. RaiseMaskable(d, line) = ExceptionGeneral(e)
    BY <1>2, <1>6
  <2>6. ExceptionGeneral(e).ip \subseteq s
    BY <1>3, <2>3
  <2> QED
    BY <2>2, <2>3, <2>4, <2>5, <2>6, Zenon DEF Raised, s
<1>7. CASE ~Takeable(e)
  <2>1. RaiseMaskable(d, line) = e
    BY <1>2, <1>7
  <2>2. e.ip \subseteq s
    BY <1>3
  <2> QED
    BY <1>3, <1>5, <2>1, <2>2, Zenon DEF Raised, s
<1> QED
  BY <1>6, <1>7

LEMMA RaiseRCPPlaced ==
  ASSUME Tuned, NEW d \in Device, NEW h \in Int, Placed(d, h), ~d.skip, NEW line \in Lines
  PROVE  Raised(d, RaiseRCP(d, line), RCP)
<1> DEFINE e == [d EXCEPT !.intr = @ \cup {line}]
<1>1. /\ e \in Device /\ e.q = d.q /\ e.count = d.count /\ e.ip = d.ip /\ e.exl = d.exl
      /\ e.skip = d.skip /\ e.cycle = d.cycle /\ e.slot = d.slot
      /\ e.compare = d.compare /\ e.loading = d.loading
  BY DEF Device
<1>2. RaiseRCP(d, line) = IF e.intr \cap e.mask # {} THEN RaiseMaskable(e, RCP) ELSE e
  BY Zenon DEF RaiseRCP
<1> HIDE DEF e
<1>3. Placed(e, h) /\ RCP \in IPs /\ ~e.skip
  BY <1>1, Zenon DEF Placed, IPs
<1>4. Raised(e, RaiseMaskable(e, RCP), RCP)
  BY <1>1, <1>3, RaiseMaskablePlaced
<1>5. Raised(d, RaiseMaskable(e, RCP), RCP)
  BY <1>1, <1>4, Zenon DEF Raised, Steady
<1>6. e.ip \subseteq d.ip \cup {RCP}
  BY <1>1
<1>7. Raised(d, e, RCP)
  BY <1>1, <1>3, <1>6, Zenon DEF Raised, Steady, Held, Order
<1> QED
  BY <1>2, <1>5, <1>7, Zenon

-----------------------------------------------------------------------------
(* The handlers.                                                           *)

(* No CHECK_INT is queued, and no soft reset is in progress.               *)
Quiet(d) == ~Queued(d.q, CheckEvent) /\ ~Queued(d.q, HW2Event) /\ Cart \notin d.ip

LEMMA QuietKept ==
  ASSUME NEW d, NEW e, Quiet(d), Kept(d, e, CheckEvent), Kept(d, e, HW2Event), e.ip \subseteq d.ip
  PROVE  Quiet(e)
  BY DEF Quiet, Kept

(* The tick of the head after an update of the queue.                      *)
LEMMA PlacedAfter ==
  ASSUME Tuned, NEW d, NEW e, NEW h \in Int, NEW k \in Int, Placed(d, h), At(e, k),
         Base0(h) <= k, e.exl = d.exl
  PROVE  Placed(e, k)
<1>1. /\ -Late <= h /\ (~d.exl => -Late < h)
      /\ InOrder(e.q, e.count, k) /\ e.cycle = -k
  BY DEF Placed, At
<1>2. -Late <= k /\ (-Late < h => -Late < k)
  BY <1>1, LateBounds DEF Base0
<1>3. ~e.exl => -Late < k
  BY <1>1, <1>2
<1> QED
  BY <1>1, <1>2, <1>3, Zenon DEF Placed

(* The head is due, at tick h, and gen_interrupt runs its handler.         *)
Due(d, h) ==
  /\ Good(d) /\ NoNMI /\ Quiet(d) /\ ~d.skip
  /\ Placed(d, h) /\ h <= 0
  /\ d.q[1].type = SpecialEvent => Queued(d.q, ViEvent)

(* What the handlers start from: the queue without its head.               *)
Rest(d, e, h) ==
  /\ Fits(e) /\ SameRest(d, e) /\ Len(e.q) < POOL_CAPACITY /\ Quiet(e)
  /\ \A t : t # d.q[1].type => Kept(d, e, t)
  /\ \E k \in Int : /\ At(e, k) /\ Placed(e, k) /\ h <= k /\ k <= HALF
                    /\ Between(e.q, e.count, Base0(k), Base0(k) + COUNT_MOD)

LEMMA RestPlaced ==
  ASSUME Tuned, NEW d, NEW h \in Int, Due(d, h)
  PROVE  Rest(d, RemoveHead(d), h)
<1> DEFINE type == d.q[1].type
           e == RemoveHead(d)
<1>0. /\ Fits(d) /\ d.q # <<>> /\ 1 \in DOMAIN d.q /\ d \in Device
      /\ InOrder(d.q, d.count, h) /\ -Late <= h /\ h <= 0
  BY GoodQueue DEF Due, Good, Fits, Placed
<1>1. /\ Fits(e) /\ Len(e.q) < POOL_CAPACITY /\ SameRest(d, e)
      /\ \A t : t # type => Kept(d, e, t)
  BY <1>0, RemoveHeadProps, Zenon
<1>2. type # CheckEvent /\ type # HW2Event
  <2>1. \A t : ~Queued(d.q, t) => type # t
    BY <1>0, NotQueued
  <2> QED
    BY <2>1, Zenon DEF Due, Quiet
<1>3. Quiet(e)
  <2>1. e.ip \subseteq d.ip
    BY <1>1 DEF SameRest, SameButCount
  <2>2. Kept(d, e, CheckEvent) /\ Kept(d, e, HW2Event)
    BY <1>1, <1>2, Zenon
  <2>3. Quiet(d)
    BY DEF Due
  <2> QED
    BY <2>1, <2>2, <2>3, QuietKept, Zenon
<1>4. Paced(e.q)
  <2>0. e \in Device /\ SpecialEvent # CompareEvent /\ ViEvent # CompareEvent /\ ViEvent # SpecialEvent
    BY <1>1 DEF Fits, SpecialEvent, CompareEvent, ViEvent
  <2>1. CASE type = SpecialEvent
    <3>1. PICK i \in DOMAIN d.q : d.q[i].type = ViEvent
      BY <2>1 DEF Due, Queued, IndicesOf
    <3>2. i # 1 /\ i \in 1 .. Len(d.q) /\ Len(d.q) \in Nat /\ d.q \in Seq(EventType)
      BY <1>0, <2>0, <2>1, <3>1, QueueTypes
    <3>3. e.q = Tail(d.q)
      <4> DEFINE r == Tail(d.q)
                 m == [d EXCEPT !.q = r]
      <4>1. e = [m EXCEPT !.cycle = HeadCycles(m)]
        BY DEF RemoveHead
      <4>2. r \in Seq(EventType)
        BY <3>2, <1>0
      <4> HIDE DEF r, e
      <4>3. m \in Device /\ m.q = r
        BY <1>0, <4>2, DeviceQueue, Zenon
      <4> HIDE DEF m
      <4> QED
        BY <4>1, <4>3, HeadCyclesType, DeviceCycle DEF r
    <3>4. Len(Tail(d.q)) = Len(d.q) - 1 /\ i - 1 \in 1 .. Len(d.q) - 1
          /\ Tail(d.q)[i - 1] = d.q[(i - 1) + 1]
      BY <1>0, <3>2, HeadTailProperties
    <3>5. (i - 1) + 1 = i
      BY <3>2
    <3>6. i - 1 \in 1 .. Len(e.q) /\ e.q[i - 1].type = ViEvent
      BY <3>1, <3>3, <3>4, <3>5
    <3> QED
      BY <3>6, <2>0 DEF Paced
  <2>2. CASE type # SpecialEvent
    <3>1. QueuedOnce(e.q, SpecialEvent)
      BY <2>2, <1>1, Zenon DEF Kept, Due, Good, Timers
    <3> QED
      BY <3>1, <2>0, OnceQueued, QueuedPaces
  <2> QED
    BY <2>1, <2>2
<1> HIDE DEF e
<1>5. -HALF < h
  BY <1>0, LateBounds
<1>6. PICK k \in Int : /\ At(e, k) /\ h <= k /\ k <= HALF
                       /\ Between(e.q, d.count, Base0(k), Base0(k) + COUNT_MOD)
  BY <1>0, <1>4, <1>5, RemovedWindow DEF e
<1>7. Placed(e, k)
  <2>1. Base0(h) <= k
    BY <1>6 DEF Base0
  <2>2. e.exl = d.exl /\ Placed(d, h)
    BY <1>1 DEF SameRest, SameButCount, Due
  <2> QED
    BY <1>6, <2>1, <2>2, PlacedAfter
<1>8. e.count = d.count
  BY <1>1 DEF SameRest
<1>9. Rest(d, e, h)
  BY <1>1, <1>3, <1>6, <1>7, <1>8, Zenon DEF Rest
<1> QED
  BY <1>9 DEF e

(* What gen_interrupt finds after a handler.                               *)
Handled(d, e) ==
  /\ Order(e) /\ Held(e) /\ Quiet(e) /\ e \in Device
  /\ e.loading = d.loading /\ e.slot = d.slot /\ e.compare = d.compare
  /\ e.count \in {d.count, Wrap(d.count + 1)}
  /\ Timer \in e.ip => Timer \in d.ip \/ Wrap(d.count - d.compare) = d.cycle

(* A handler that updates the queue and then raises a line.                *)
LEMMA RaisedHandled ==
  ASSUME NEW d, NEW m, NEW e, NEW line, SameRest(d, m), Quiet(m), Raised(m, e, line),
         line # Cart, line = Timer => Wrap(d.count - d.compare) = d.cycle
  PROVE  Handled(d, e)
<1>1. /\ m.count = d.count /\ m.compare = d.compare /\ m.loading = d.loading
      /\ m.slot = d.slot /\ m.ip = d.ip
  BY Zenon DEF SameRest, SameButCount
<1>2. /\ Order(e) /\ Held(e) /\ e \in Device /\ e.q = m.q /\ e.compare = m.compare
      /\ e.loading = m.loading /\ e.slot = m.slot
      /\ e.count \in {m.count, Wrap(m.count + 1)} /\ e.ip \subseteq m.ip \cup {line}
  BY Zenon DEF Raised, Steady
<1>3. Quiet(e)
  BY <1>2 DEF Quiet
<1>4. Timer \in e.ip => Timer \in d.ip \/ Wrap(d.count - d.compare) = d.cycle
  BY <1>1, <1>2
<1> QED
  BY <1>1, <1>2, <1>3, <1>4, Zenon DEF Handled

(* The count of a due head, and how late it is.                            *)
LEMMA HeadTick ==
  ASSUME NEW d \in Device, NEW h \in Int, InOrder(d.q, d.count, h)
  PROVE  /\ d.q[1].count = Wrap(d.count + h) /\ 1 \in DOMAIN d.q
         /\ -HALF < h /\ h <= 0 => /\ Wrap(d.count - d.q[1].count) = -h
                                   /\ Wrap(d.q[1].count - d.count) # 1
<1> DEFINE n == d.count  m == d.q[1].count
<1>0. d.q \in Seq(Entry(EventTypes)) /\ n \in Int /\ DOMAIN d.q = 1 .. Len(d.q)
  BY QueueTypes
<1>1. PICK o : d.q # <<>> /\ Line(d.q, n, o) /\ o[1] = h
  BY DEF InOrder
<1>2. 1 \in 1 .. Len(d.q)
  BY <1>0, <1>1, LineTypes
<1>3. m = Wrap(n + h)
  BY <1>1, <1>2 DEF Line
<1> HIDE DEF n, m
<1>4. ASSUME -HALF < h, h <= 0
      PROVE  Wrap(n - m) = -h /\ Wrap(m - n) # 1
  <2>0. n + h \in Int /\ -h \in Int /\ 0 <= -h /\ -h < COUNT_MOD /\ HALF \in Int /\ HALF > 2
    BY <1>0, <1>4, RangeType, HalfAssumption
  <2>1. Wrap(n - m) = -h
    <3>1. Wrap(n - Wrap(n + h)) = Wrap(n - (n + h)) /\ n - (n + h) = -h
      BY <1>0, <2>0, WrapAgain
    <3>2. Wrap(-h) = -h
      BY <2>0, WrapNear
    <3> QED
      BY <3>1, <3>2, <1>3
  <2>2. Wrap(m - n) = Wrap(h)
    <3>0. -n \in Int /\ Wrap(n + h) \in Int
      BY <1>0, <2>0, WrapType, RangeType
    <3>1. Wrap(Wrap(n + h) + (-n)) = Wrap((n + h) + (-n)) /\ (n + h) + (-n) = h
      BY <1>0, <2>0, <3>0, WrapAgain
    <3>2. Wrap(n + h) + (-n) = Wrap(n + h) - n
      BY <1>0, <3>0
    <3> QED
      BY <3>1, <3>2, <1>3
  <2>3. Wrap(h) = 0 \/ Wrap(h) > HALF
    <3>1. CASE h = 0
      BY <3>1, WrapNear, RangeType
    <3>2. CASE h # 0
      <4>1. h < 0 /\ 0 <= h + COUNT_MOD /\ HALF < h + COUNT_MOD
        BY <3>2, <1>4, RangeType, HalfAssumption
      <4>2. Wrap(h) = h + COUNT_MOD
        BY <4>1, WrapNear
      <4> QED
        BY <4>1, <4>2
    <3> QED
      BY <3>1, <3>2
  <2> QED
    BY <2>0, <2>1, <2>2, <2>3
<1> QED
  BY <1>0, <1>2, <1>3, <1>4 DEF n, m

LEMMA FlagsHandled ==
  ASSUME NEW d, NEW e, NEW f, Handled(d, e), SameButFlags(e, f)
  PROVE  Handled(d, f)
<1>1. Order(f) /\ Held(f) /\ Quiet(f)
  BY Zenon DEF SameButFlags, Handled, Order, Placed, Held, Quiet
<1> QED
  BY <1>1, Zenon DEF SameButFlags, Handled

(* The event of a device.                                                  *)
LEMMA DeviceHandled ==
  ASSUME Tuned, NEW d, NEW h \in Int, Due(d, h), NEW line \in Lines
  PROVE  Handled(d, TaskEnded(RaiseRCP(RemoveHead(d), line), line))
<1> DEFINE m == RemoveHead(d)
<1>1. Rest(d, m, h)
  BY RestPlaced
<1> HIDE DEF m
<1>2. PICK k \in Int : Placed(m, k)
  BY <1>1 DEF Rest
<1>3. m \in Device /\ ~m.skip
  BY <1>1 DEF Rest, Fits, SameRest, SameButCount, Due
<1>4. Raised(m, RaiseRCP(m, line), RCP)
  BY <1>2, <1>3, RaiseRCPPlaced
<1>5. RCP # Cart /\ RCP # Timer
  BY DEF RCP, Cart, Timer
<1>6. SameRest(d, m) /\ Quiet(m)
  BY <1>1 DEF Rest
<1> DEFINE e == RaiseRCP(m, line)
<1>7. Handled(d, e)
  BY <1>4, <1>5, <1>6, RaisedHandled, Zenon
<1> HIDE DEF e
<1>8. SameButFlags(e, TaskEnded(e, line))
  BY <1>7, TaskFlags DEF Handled
<1>9. Handled(d, TaskEnded(e, line))
  BY <1>7, <1>8, FlagsHandled
<1> QED
  BY <1>9 DEF e, m

(* VI_INT is queued again VI_DELAY ticks after the one that is due.        *)
LEMMA ViHandled ==
  ASSUME Tuned, NEW d, NEW h \in Int, Due(d, h), d.q[1].type = ViEvent
  PROVE  Handled(d, ViHandler(d))
<1> DEFINE m == RemoveHead(d)
           next == Wrap(EventCount(d.q, ViEvent) + VI_DELAY)
           e == AddEventCount(m, ViEvent, next)
           v == h + VI_DELAY
<1>0. /\ d \in Device /\ d.q \in Seq(EventType) /\ d.count \in Int /\ InOrder(d.q, d.count, h)
      /\ -Late <= h /\ h <= 0
  BY QueueTypes DEF Due, Good, Fits, Placed
<1>1. Rest(d, m, h)
  BY RestPlaced
<1> HIDE DEF m
<1>2. PICK k \in Int : /\ At(m, k) /\ Placed(m, k) /\ h <= k /\ k <= HALF
                       /\ Between(m.q, m.count, Base0(k), Base0(k) + COUNT_MOD)
  BY <1>1 DEF Rest
<1>3. /\ Fits(m) /\ SameRest(d, m) /\ Len(m.q) < POOL_CAPACITY /\ Quiet(m) /\ m.count = d.count
      /\ m.exl = d.exl /\ m.skip = d.skip /\ m.ip = d.ip
  BY <1>1 DEF Rest, SameRest, SameButCount
<1>4. next = Wrap(m.count + v)
  <2>1. EventCount(d.q, ViEvent) = d.q[1].count
    <3> DEFINE I == IndicesOf(d.q, ViEvent)
    <3>1. 1 \in DOMAIN d.q
      BY <1>0, HeadTick
    <3>2. DOMAIN d.q = 1 .. Len(d.q) /\ Len(d.q) \in Nat
      BY <1>0, LenProperties
    <3>3. I \subseteq Nat /\ 1 \in I /\ \A i \in I : 1 <= i
      BY <3>1, <3>2 DEF IndicesOf
    <3> HIDE DEF I
    <3>4. I # {}
      BY <3>3
    <3>5. Min(I) \in I /\ Min(I) <= 1 /\ Min(I) \in Nat
      BY <3>3, <3>4, MinLeast
    <3>6. Min(I) = 1
      BY <3>3, <3>5
    <3> QED
      BY <3>6 DEF EventCount, I
  <2>2. d.q[1].count = Wrap(d.count + h)
    BY <1>0, HeadTick
  <2>3. d.count + h \in Int /\ VI_DELAY \in Int /\ (d.count + h) + VI_DELAY = d.count + v
    BY <1>0, LateBounds
  <2>4. Wrap(Wrap(d.count + h) + VI_DELAY) = Wrap((d.count + h) + VI_DELAY)
    BY <2>3, WrapAgain
  <2> QED
    BY <2>1, <2>2, <2>3, <2>4, <1>3
<1>5. /\ v \in Int /\ Base0(k) <= v /\ v < Base0(k) + COUNT_MOD /\ v <= HALF /\ -HALF < k
      /\ Base0(k) \in Int
  <2>1. /\ Late <= VI_DELAY /\ VI_DELAY \in Int /\ VI_DELAY <= HALF /\ Late < HALF
        /\ Late \in Int /\ HALF \in Int /\ HALF > 2
    BY LateBounds
  <2>2. v \in Int /\ 0 <= v /\ v <= HALF
    BY <1>0, <2>1
  <2>3. h <= Base0(k) /\ Base0(k) <= 0 /\ Base0(k) \in Int
    BY <1>0, <1>2 DEF Base0
  <2>4. -HALF < h
    BY <1>0, <2>1
  <2>5. v < Base0(k) + COUNT_MOD
    BY <2>1, <2>2, <2>3, <2>4, RangeType
  <2> QED
    BY <1>2, <2>1, <2>2, <2>3, <2>4, <2>5
<1>6. next \in Counts /\ ViEvent \in EventTypes /\ ViEvent # CompareEvent
      /\ ViEvent # CheckEvent /\ ViEvent # HW2Event
  <2>1. m.count + v \in Int
    BY <1>0, <1>3, <1>5
  <2> QED
    BY <2>1, <1>4, WrapType, OtherTypes DEF ViEvent, CheckEvent, HW2Event, CompareEvent
<1> HIDE DEF next, v
<1>7. /\ Fits(e) /\ SameRest(m, e) /\ Kept(m, e, CheckEvent) /\ Kept(m, e, HW2Event)
      /\ Kept(m, e, SpecialEvent)
  BY <1>3, <1>6, AddEventCountProps, Zenon DEF ViEvent, SpecialEvent
<1>8. Paced(e.q)
  <2>1. QueuedOnce(d.q, SpecialEvent) /\ d.q[1].type # SpecialEvent
    BY DEF Due, Good, Timers, ViEvent, SpecialEvent
  <2>2. QueuedOnce(e.q, SpecialEvent)
    BY <2>1, <1>1, <1>7, Zenon DEF Rest, Kept
  <2> QED
    BY <2>2, <1>7, OnceQueued, QueuedPaces, TimerTypes DEF Fits
<1>9. PICK l \in Int : At(e, l) /\ Base0(k) <= l /\ l <= HALF
  <2>1. Paced(AddEventCount(m, ViEvent, Wrap(m.count + v)).q)
    BY <1>4, <1>8
  <2>2. m.cycle = -k
    BY <1>2 DEF At
  <2>3. \E l \in Int : /\ At(AddEventCount(m, ViEvent, Wrap(m.count + v)), l)
                       /\ Base0(k) <= l /\ l <= HALF
    BY <2>1, <2>2, <1>2, <1>3, <1>5, <1>6, AddPlaced
  <2> QED
    BY <2>3, <1>4
<1> HIDE DEF e
<1>10. Placed(e, l) /\ e.skip = d.skip /\ e.ip = d.ip /\ SameRest(d, e)
  <2>1. e.exl = m.exl /\ e.skip = m.skip /\ e.ip = m.ip
    BY <1>7 DEF SameRest, SameButCount
  <2>2. SameRest(d, e)
    BY <1>3, <1>7, Zenon DEF SameRest, SameButCount
  <2> QED
    BY <2>1, <2>2, <1>2, <1>3, <1>9, PlacedAfter
<1>11. Quiet(e)
  <2>1. e.ip \subseteq m.ip
    BY <1>3, <1>10
  <2> QED
    BY <2>1, <1>3, <1>7, QuietKept
<1>12. Raised(e, RaiseRCP(e, ViEvent), RCP)
  <2>1. e \in Device /\ ViEvent \in Lines /\ ~e.skip
    BY <1>7, <1>10 DEF Fits, Lines, Due
  <2> QED
    BY <2>1, <1>10, RaiseRCPPlaced
<1>13. RCP # Cart /\ RCP # Timer
  BY DEF RCP, Cart, Timer
<1>14. ViHandler(d) = RaiseRCP(e, ViEvent)
  BY Zenon DEF ViHandler, e, next, m
<1> QED
  BY <1>10, <1>11, <1>12, <1>13, <1>14, RaisedHandled, Zenon

(* The fake event is queued again, at most half a turn ahead of COUNT.     *)
LEMMA SpecialHandled ==
  ASSUME Tuned, NEW d, NEW h \in Int, Due(d, h), d.q[1].type = SpecialEvent
  PROVE  Handled(d, SpecialHandler(d))
<1> DEFINE m == RemoveHead(d)
           e == AddSpecial(m)
<1>0. /\ d \in Device /\ d.q # <<>> /\ Fits(d) /\ QueuedOnce(d.q, SpecialEvent)
      /\ -Late <= h /\ h <= 0
  BY GoodQueue DEF Due, Good, Fits, Placed, Timers
<1>1. Rest(d, m, h) /\ ~Queued(m.q, SpecialEvent)
  BY <1>0, RestPlaced, RemoveHeadProps
<1> HIDE DEF m
<1>2. PICK k \in Int : /\ At(m, k) /\ Placed(m, k) /\ h <= k /\ k <= HALF
                       /\ Between(m.q, m.count, Base0(k), Base0(k) + COUNT_MOD)
  BY <1>1 DEF Rest
<1>3. /\ Fits(m) /\ SameRest(d, m) /\ Len(m.q) < POOL_CAPACITY /\ Quiet(m)
      /\ m.count \in Counts /\ m.count \in Int
  BY <1>1, QueueTypes DEF Rest, Fits
<1>4. PICK v \in Int : 1 <= v /\ v <= HALF /\ SpecialCount(m.count) = Wrap(m.count + v)
  BY <1>3, SpecialAhead
<1>5. Base0(k) <= v /\ v < Base0(k) + COUNT_MOD /\ -HALF < k /\ Base0(k) \in Int
  <2>1. Late < HALF /\ Late \in Int /\ HALF \in Int
    BY LateBounds
  <2>2. h <= Base0(k) /\ Base0(k) <= 0 /\ Base0(k) \in Int
    BY <1>0, <1>2 DEF Base0
  <2>3. -HALF < h
    BY <1>0, <2>1
  <2> QED
    BY <1>2, <1>4, <2>1, <2>2, <2>3, RangeType
<1>6. /\ Fits(e) /\ SameRest(m, e) /\ QueuedOnce(e.q, SpecialEvent)
      /\ Kept(m, e, CheckEvent) /\ Kept(m, e, HW2Event)
  BY <1>1, <1>3, AddSpecialProps, Zenon DEF CheckEvent, HW2Event, SpecialEvent
<1>7. Paced(e.q)
  BY <1>6, OnceQueued, QueuedPaces, TimerTypes DEF Fits
<1>8. PICK l \in Int : At(e, l) /\ Base0(k) <= l /\ l <= HALF
  <2>0. e = AddEventCount(m, SpecialEvent, Wrap(m.count + v))
    BY <1>4 DEF AddSpecial
  <2>1. Paced(AddEventCount(m, SpecialEvent, Wrap(m.count + v)).q)
    BY <1>7, <2>0
  <2>2. m.cycle = -k
    BY <1>2 DEF At
  <2>3. \E l \in Int : /\ At(AddEventCount(m, SpecialEvent, Wrap(m.count + v)), l)
                       /\ Base0(k) <= l /\ l <= HALF
    BY <2>1, <2>2, <1>2, <1>3, <1>4, <1>5, TimerTypes, AddPlaced
  <2> QED
    BY <2>0, <2>3
<1> HIDE DEF e
<1>9. SameRest(d, e)
  BY <1>3, <1>6, Zenon DEF SameRest, SameButCount
<1>10. /\ e.count = d.count /\ e.compare = d.compare /\ e.loading = d.loading
       /\ e.slot = d.slot /\ e.ip = d.ip /\ e.skip = d.skip /\ e.exl = m.exl /\ e.ip = m.ip
  BY <1>6, <1>9, Zenon DEF SameRest, SameButCount
<1>11. Placed(e, l)
  BY <1>2, <1>8, <1>10, PlacedAfter
<1>12. Quiet(e)
  <2>1. e.ip \subseteq m.ip
    BY <1>10
  <2> QED
    BY <2>1, <1>3, <1>6, QuietKept
<1>13. Order(e) /\ Held(e) /\ e \in Device
  BY <1>6, <1>10, <1>11, Zenon DEF Order, Held, Due, Fits
<1> QED
  BY <1>10, <1>12, <1>13, Zenon DEF Handled, SpecialHandler, e, m

(* COMPARE_INT is queued again, a turn of COUNT after it was due.          *)
LEMMA CompareHandled ==
  ASSUME Tuned, NEW d, NEW h \in Int, Due(d, h), d.q[1].type = CompareEvent
  PROVE  Handled(d, CompareHandler(RemoveHead(d)))
<1> DEFINE m == RemoveHead(d)
           e == AddCompare(m, m.compare)
<1>0. /\ d \in Device /\ d.q # <<>> /\ Fits(d) /\ QueuedOnce(d.q, CompareEvent)
      /\ QueuedOnce(d.q, SpecialEvent) /\ ArmedAt(d.q, CompareEvent, d.compare)
      /\ InOrder(d.q, d.count, h) /\ -Late <= h /\ h <= 0 /\ d.cycle = -h
      /\ d.compare \in Counts /\ d.count \in Int
  BY GoodQueue, QueueTypes, Zenon DEF Due, Good, Fits, Placed, Timers, Armed
<1>1. Rest(d, m, h) /\ ~Queued(m.q, CompareEvent) /\ QueuedOnce(m.q, SpecialEvent)
  <2>1. Rest(d, m, h) /\ ~Queued(m.q, CompareEvent)
    BY <1>0, RestPlaced, RemoveHeadProps
  <2> QED
    BY <2>1, <1>0, TimerTypes, Zenon DEF Rest, Kept
<1> HIDE DEF m
<1>2. PICK k \in Int : /\ At(m, k) /\ Placed(m, k) /\ h <= k /\ k <= HALF
  BY <1>1 DEF Rest
<1>3. /\ Fits(m) /\ SameRest(d, m) /\ Len(m.q) < POOL_CAPACITY /\ Quiet(m)
      /\ m.count = d.count /\ m.compare = d.compare /\ m.skip = d.skip
  BY <1>1, Zenon DEF Rest, SameRest, SameButCount
<1>4. -HALF < h
  BY <1>0, LateBounds
<1>5. d.q[1].count = d.compare
  <2>1. 1 \in DOMAIN d.q
    BY <1>0, HeadTick
  <2> QED
    BY <1>0, <2>1 DEF ArmedAt
<1>6. Wrap(d.count - d.compare) = d.cycle /\ Wrap(m.compare - m.count) # 1
  BY <1>0, <1>3, <1>4, <1>5, HeadTick
<1>7. From(m.q, m.count, Base2(k)) /\ Base2(k) \in Int /\ Base0(k) <= Base2(k) /\ -HALF < k
  <2>1. m.q \in Seq(Entry(EventTypes)) /\ InOrder(m.q, m.count, k)
    BY <1>2, <1>3, QueueTypes DEF At, Fits
  <2>2. From(m.q, m.count, k)
    BY <2>1, HeadFirst
  <2>3. Base2(k) \in Int /\ Base2(k) <= k /\ Base0(k) <= Base2(k)
    BY DEF Base2, Base0
  <2>4. -HALF < k
    BY <1>2, <1>4, HalfAssumption
  <2> HIDE DEF Base2
  <2> QED
    BY <2>1, <2>2, <2>3, <2>4, FromLower
<1>8. PICK l \in Int : At(e, l) /\ Base2(k) <= l /\ l <= HALF
  <2>1. m.cycle = -k
    BY <1>2 DEF At
  <2> QED
    BY <2>1, <1>0, <1>1, <1>3, <1>6, <1>7, AddComparePlaced
<1>9. /\ Fits(e) /\ SameRest(m, e) /\ Kept(m, e, CheckEvent) /\ Kept(m, e, HW2Event)
  BY <1>0, <1>3, AddCompareProps, Zenon DEF CheckEvent, HW2Event, CompareEvent
<1> HIDE DEF e
<1>10. SameRest(d, e) /\ e.exl = m.exl /\ e.skip = d.skip /\ e.ip = m.ip
  BY <1>3, <1>9, Zenon DEF SameRest, SameButCount
<1>11. Placed(e, l)
  <2>1. Base0(k) <= l
    BY <1>7, <1>8 DEF Base0
  <2> QED
    BY <2>1, <1>2, <1>8, <1>10, PlacedAfter
<1>12. Quiet(e)
  <2>1. e.ip \subseteq m.ip
    BY <1>10
  <2> QED
    BY <2>1, <1>3, <1>9, QuietKept
<1>13. Raised(e, RaiseMaskable(e, Timer), Timer)
  <2>1. e \in Device /\ Timer \in IPs /\ ~e.skip
    BY <1>9, <1>10 DEF Fits, IPs, Due
  <2> QED
    BY <2>1, <1>11, RaiseMaskablePlaced
<1>14. Timer # Cart
  BY DEF Cart, Timer
<1>15. CompareHandler(m) = RaiseMaskable(e, Timer)
  BY Zenon DEF CompareHandler, e
<1> QED
  BY <1>6, <1>10, <1>12, <1>13, <1>14, <1>15, RaisedHandled, Zenon DEF m

(* Whatever is due, its handler keeps the order.                           *)
LEMMA DispatchHandled ==
  ASSUME Tuned, NEW d, NEW h \in Int, Due(d, h)
  PROVE  Handled(d, Dispatch(d))
<1> DEFINE type == d.q[1].type
<1>0. type \in EventTypes /\ type # NMIEvent
  BY GoodQueue, NoNmiAtHead DEF Due
<1>1. type # CheckEvent /\ type # HW2Event
  <2>1. 1 \in DOMAIN d.q
    BY HeadTick DEF Due, Good, Fits, Placed
  <2>2. \A t : ~Queued(d.q, t) => type # t
    BY <2>1, NotQueued
  <2> QED
    BY <2>2, Zenon DEF Due, Quiet
<1>b. /\ type = ViEvent => Dispatch(d) = ViHandler(d)
      /\ type = SpecialEvent => Dispatch(d) = SpecialHandler(d)
      /\ type = CompareEvent => Dispatch(d) = CompareHandler(RemoveHead(d))
      /\ type \notin {ViEvent, SpecialEvent, CompareEvent, CheckEvent, HW2Event, NMIEvent}
           => Dispatch(d) = TaskEnded(RaiseRCP(RemoveHead(d), type), type)
  BY Handlers
<1> HIDE DEF type
<1>2. CASE type = ViEvent
  BY <1>2, <1>b, ViHandled DEF type
<1>3. CASE type = SpecialEvent
  BY <1>3, <1>b, SpecialHandled DEF type
<1>4. CASE type = CompareEvent
  BY <1>4, <1>b, CompareHandled DEF type
<1>5. CASE type \notin {ViEvent, SpecialEvent, CompareEvent}
  <2>1. type \in Lines
    BY <1>0, <1>1, <1>5, OtherTypes DEF Lines
  <2>2. type \notin {ViEvent, SpecialEvent, CompareEvent, CheckEvent, HW2Event, NMIEvent}
    BY <1>0, <1>1, <1>5
  <2> QED
    BY <2>1, <2>2, <1>b, DeviceHandled
<1> QED
  BY <1>2, <1>3, <1>4, <1>5

-----------------------------------------------------------------------------
(* gen_interrupt.                                                          *)

(* The two events that init_interrupt queues are in order.                 *)
LEMMA PowerOnPlaced ==
  ASSUME Tuned
  PROVE  /\ \E h \in Int : InOrder(PowerOn.q, PowerOn.count, h) /\ 0 <= h /\ PowerOn.cycle = -h
         /\ PowerOn.skip = FALSE /\ PowerOn.loading = FALSE /\ PowerOn.ip = {}
         /\ ~Queued(PowerOn.q, CheckEvent) /\ ~Queued(PowerOn.q, HW2Event)
<1> DEFINE p == POWERON_COUNT
           clear == [count |-> p, compare |-> 0, cycle |-> 0, q |-> <<>>,
                     ie |-> FALSE, exl |-> FALSE, im |-> {}, ip |-> {},
                     slot |-> "no", skip |-> FALSE, unsafe |-> {}, goes_on |-> FALSE,
                     intr |-> {}, mask |-> {}, job |-> "none", loading |-> FALSE, reset |-> FALSE]
           one == AddEventCount(clear, SpecialEvent, HALF)
           two == AddEventCount(one, CompareEvent, 0)
           v == HALF - p
           w == IF p = 0 THEN 0 ELSE COUNT_MOD - p
<1>0. /\ p \in Counts /\ p \in Int /\ 0 <= p /\ p <= HALF /\ HALF \in Counts /\ 0 \in Counts
      /\ HALF \in Int /\ HALF > 2 /\ 0 \in Int
  BY InterruptAssumption, RangeType, HalfAssumption DEF Tuned, Counts, COUNT_MOD
<1>1. /\ clear \in Device /\ clear.q = <<>> /\ clear.count = p /\ clear.cycle = 0
      /\ clear.skip = FALSE /\ clear.loading = FALSE /\ clear.ip = {}
  <2>1. <<>> \in Seq(EventType)
    OBVIOUS
  <2>2. {} \in SUBSET IPs /\ {} \in SUBSET Lines
    OBVIOUS
  <2>3. p \in Counts /\ 0 \in Counts /\ 0 \in Int
    BY <1>0
  <2> HIDE DEF p
  <2> QED
    BY <2>1, <2>2, <2>3 DEF Device
<1>a. PowerOn = two
  <2>1. [clear EXCEPT !.q = <<>>] = clear
    BY <1>1 DEF Device
  <2> QED
    BY <2>1, Zenon DEF PowerOn, InitInterrupt
<1> HIDE DEF clear
<1>2. Fits(clear) /\ Len(clear.q) = 0 /\ Len(clear.q) < POOL_CAPACITY
  BY <1>1, PoolAssumption DEF Fits
<1>3. HALF = Wrap(clear.count + v) /\ v \in Int /\ 0 <= v /\ v <= HALF
  BY <1>0, <1>1, WrapNear, RangeType
<1>4. 0 = Wrap(clear.count + w) /\ w \in Int /\ 0 <= w /\ w < COUNT_MOD /\ w <= COUNT_MOD
  <2>1. CASE p = 0
    BY <2>1, <1>0, <1>1, WrapNear, RangeType
  <2>2. CASE p # 0
    <3>1. w = COUNT_MOD - p /\ w \in Int /\ 0 <= w /\ w < COUNT_MOD /\ p + w = COUNT_MOD
      BY <2>2, <1>0, RangeType
    <3>2. Wrap(COUNT_MOD) = COUNT_MOD - COUNT_MOD /\ COUNT_MOD - COUNT_MOD = 0
      BY WrapNear, RangeType
    <3>3. clear.count + w = COUNT_MOD
      BY <3>1, <1>1
    <3>4. w <= COUNT_MOD
      BY <3>1, RangeType
    <3> HIDE DEF w
    <3> QED
      BY <3>1, <3>2, <3>3, <3>4
  <2> QED
    BY <2>1, <2>2
<1> HIDE DEF v, w, p
<1>5. \A t : ~Queued(clear.q, t)
  BY <1>1, NotQueued
<1>6. /\ Fits(one) /\ QueuedOnce(one.q, SpecialEvent) /\ Len(one.q) <= Len(clear.q) + 1
      /\ \A t : t # SpecialEvent => Kept(clear, one, t)
      /\ SameRest(clear, one)
  BY <1>0, <1>2, <1>5, TimerTypes, AddEventCountProps, Zenon
<1>7. /\ ~Queued(one.q, CompareEvent) /\ ~Queued(one.q, CheckEvent) /\ ~Queued(one.q, HW2Event)
      /\ one.count = p /\ Len(one.q) < POOL_CAPACITY /\ one \in Device /\ Paced(one.q)
  <2>1. ~Queued(one.q, CompareEvent) /\ ~Queued(one.q, CheckEvent) /\ ~Queued(one.q, HW2Event)
    BY <1>5, <1>6, Zenon DEF Kept, SpecialEvent, CompareEvent, CheckEvent, HW2Event
  <2>2. one.count = p /\ one \in Device
    BY <1>1, <1>6, Zenon DEF SameRest, Fits
  <2>3. Len(one.q) \in Nat
    BY <2>2, QueueTypes
  <2>4. Len(one.q) < POOL_CAPACITY
    BY <1>2, <1>6, <2>3, PoolAssumption
  <2>5. Paced(one.q)
    BY <1>6, <2>2, OnceQueued, QueuedPaces, TimerTypes
  <2> QED
    BY <2>1, <2>2, <2>4, <2>5
<1>8. PICK k \in Int : At(one, k) /\ 0 <= k /\ k <= HALF
  <2> DEFINE z == HALF - HALF
  <2>z. z = 0 /\ z \in Int /\ z <= 0 /\ z >= 0 /\ -HALF < z
    BY <1>0
  <2> HIDE DEF z
  <2>n. -z = z
    <3>1. z \in Int /\ z <= 0 /\ z >= 0
      BY <2>z
    <3> QED
      BY <3>1
  <2>0. z = 0 /\ z \in Int /\ -z = 0 /\ -HALF < z
    BY <2>z, <2>n, Zenon
  <2>1. clear.cycle = -z /\ Base0(z) = z
    BY <2>0, <1>1 DEF Base0
  <2>2. Between(clear.q, clear.count, Base0(z), Base0(z) + COUNT_MOD)
    BY <1>1, EmptyBetween
  <2>3. Base0(z) <= v /\ v < Base0(z) + COUNT_MOD
    BY <2>0, <2>1, <1>0, <1>3, RangeType
  <2>4. Paced(AddEventCount(clear, SpecialEvent, Wrap(clear.count + v)).q)
    BY <1>3, <1>7
  <2>5. \E k \in Int : /\ At(AddEventCount(clear, SpecialEvent, Wrap(clear.count + v)), k)
                       /\ Base0(z) <= k /\ k <= HALF
    BY <2>0, <2>1, <2>2, <2>3, <2>4, <1>2, <1>3, TimerTypes, AddPlaced
  <2> QED
    BY <2>0, <2>1, <2>5, <1>3
<1> HIDE DEF one
<1>9. Between(one.q, one.count, 0, 0 + COUNT_MOD)
  <2>1. one.q \in Seq(Entry(EventTypes)) /\ DOMAIN one.q = 1 .. Len(one.q)
    BY <1>7, QueueTypes
  <2>2. \A i \in 1 .. Len(one.q) : one.q[i].type # CompareEvent
    BY <2>1, <1>7, NotQueued
  <2>3. From(one.q, one.count, 0)
    <3>1. From(one.q, one.count, k)
      BY <2>1, <1>8, HeadFirst DEF At
    <3> QED
      BY <3>1, <2>1, <1>0, <1>8, FromLower
  <2> QED
    BY <2>1, <2>2, <2>3, <1>0, WindowWithoutCompare
<1>10. /\ Fits(two) /\ QueuedOnce(two.q, CompareEvent)
       /\ \A t : t # CompareEvent => Kept(one, two, t)
       /\ SameRest(one, two)
  BY <1>0, <1>6, <1>7, TimerTypes, AddEventCountProps, Zenon
<1>11. /\ ~Queued(two.q, CheckEvent) /\ ~Queued(two.q, HW2Event)
       /\ QueuedOnce(two.q, SpecialEvent)
  BY <1>6, <1>7, <1>10, Zenon DEF Kept, SpecialEvent, CompareEvent, CheckEvent, HW2Event
<1>12. PICK l \in Int : At(two, l) /\ 0 <= l
  <2>0. Base0(k) = 0 /\ -HALF < k /\ one.cycle = -k
    BY <1>0, <1>8 DEF Base0, At
  <2>1. one.count = clear.count
    BY <1>1, <1>7
  <2>2. Paced(two.q)
    BY <1>10, <1>11, OnceQueued, QueuedPaces, TimerTypes DEF Fits
  <2>3. Paced(AddEventCount(one, CompareEvent, Wrap(one.count + w)).q)
    BY <2>1, <2>2, <1>4
  <2>4. w < 0 + COUNT_MOD
    BY <1>4, RangeType
  <2>5. \E l \in Int : /\ At(AddEventCount(one, CompareEvent, Wrap(one.count + w)), l)
                       /\ Base0(k) <= l /\ l <= HALF
    BY <2>0, <2>3, <2>4, <1>4, <1>6, <1>7, <1>9, TimerTypes, AddPlaced
  <2> QED
    BY <2>0, <2>1, <2>5, <1>4
<1> HIDE DEF two
<1>13. two.skip = FALSE /\ two.loading = FALSE /\ two.ip = {}
  BY <1>1, <1>6, <1>10, Zenon DEF SameRest, SameButCount
<1> QED
  BY <1>a, <1>11, <1>12, <1>13, Zenon DEF At

(* What holds between two instructions, and while a savestate is loaded.   *)
Settled(d) == IF d.loading THEN Shown(d) ELSE Order(d) /\ Quiet(d) /\ Held(d)

(* The timer line rises only with an event that is on time.                *)
OnTime(d, e) ==
  Timer \in e.ip =>
    \/ Timer \in d.ip
    \/ Wrap(d.count - d.compare) = d.cycle /\ e.count \in {d.count, Wrap(d.count + 1)}

(* What gen_interrupt makes of d; inside MTC0 nothing is loaded or reset.  *)
Turn(d, e) ==
  /\ Settled(e) /\ e.slot = d.slot /\ OnTime(d, e)
  /\ d.unsafe # {} => ~e.loading /\ e.compare = d.compare

(* A pending load: the CPU waits, and shows the order it has.              *)
LEMMA LoadTurn ==
  ASSUME NEW d \in Device, Shown(d), d.unsafe = {}
  PROVE  Turn(d, [d EXCEPT !.loading = TRUE])
<1> DEFINE e == [d EXCEPT !.loading = TRUE]
<1>1. /\ e.loading = TRUE /\ e.q = d.q /\ e.count = d.count /\ e.cycle = d.cycle
      /\ e.skip = d.skip /\ e.slot = d.slot /\ e.ip = d.ip
  BY DEF Device
<1> HIDE DEF e
<1>2. HeadCycles(e) = HeadCycles(d)
  BY <1>1, Zenon DEF HeadCycles
<1>3. Sorted(e)
  BY <1>1, Zenon DEF Sorted, LateBy, Shown
<1>4. Shown(e)
  BY <1>1, <1>2, <1>3, Zenon DEF Shown
<1>5. Turn(d, e)
  BY <1>1, <1>4, Zenon DEF Turn, Settled, OnTime
<1> QED
  BY <1>5 DEF e

(* A hard reset: the queue is the one of a device just powered on.         *)
LEMMA ResetTurn ==
  ASSUME Tuned, NEW d \in Device, d.unsafe = {}
  PROVE  Turn(d, ResetHardHandler(d))
<1> DEFINE e == ResetHardHandler(d)
<1>1. /\ e.q = PowerOn.q /\ e.count = PowerOn.count /\ e.cycle = PowerOn.cycle
      /\ e.skip = PowerOn.skip /\ e.slot = d.slot /\ e.ip = PowerOn.ip
      /\ e.loading = PowerOn.loading
  <2>1. PowerOn \in Device
    BY PowerOnGood DEF Good, Fits
  <2> HIDE DEF PowerOn
  <2> QED
    BY <2>1 DEF ResetHardHandler, Device
<1> HIDE DEF e
<1>2. PICK h \in Int : InOrder(PowerOn.q, PowerOn.count, h) /\ 0 <= h /\ PowerOn.cycle = -h
  BY PowerOnPlaced
<1>3. -Late <= h /\ -Late < h
  BY <1>2, LateBounds
<1>4. Placed(e, h)
  BY <1>1, <1>2, <1>3, Zenon DEF Placed
<1>5. e.skip = FALSE /\ e.loading = FALSE /\ Timer \notin e.ip /\ Cart \notin e.ip
      /\ ~Queued(e.q, CheckEvent) /\ ~Queued(e.q, HW2Event)
  BY <1>1, PowerOnPlaced
<1>6. Turn(d, e)
  BY <1>1, <1>4, <1>5, Zenon DEF Turn, Settled, OnTime, Order, Quiet, Held
<1> QED
  BY <1>6 DEF e

(* A pending save is a request only.                                       *)
LEMMA SaveTurn ==
  ASSUME NEW d, NEW e, Handled(d, e), ~d.loading
  PROVE  Turn(d, SaveJob(e))
<1> DEFINE f == [e EXCEPT !.job = "none"]
<1>1. /\ f.q = e.q /\ f.count = e.count /\ f.cycle = e.cycle /\ f.skip = e.skip
      /\ f.slot = e.slot /\ f.ip = e.ip /\ f.exl = e.exl /\ f.loading = e.loading
      /\ f.compare = e.compare
  BY DEF Handled, Device
<1>2. SaveJob(e) = f \/ SaveJob(e) = e
  BY Zenon DEF SaveJob
<1> HIDE DEF f
<1>3. Order(f) /\ Quiet(f) /\ Held(f)
  BY <1>1, Zenon DEF Handled, Order, Placed, Quiet, Held
<1>4. Turn(d, f) /\ Turn(d, e)
  BY <1>1, <1>3, Zenon DEF Handled, Turn, Settled, OnTime
<1> QED
  BY <1>2, <1>4, Zenon

(* The end of an abandoned jump reads cycle_count from the queue again.    *)
LEMMA SkipTurn ==
  ASSUME Tuned, NEW d, NEW h \in Int, Good(d), Quiet(d), ~d.loading, Placed(d, h)
  PROVE  Turn(d, [d EXCEPT !.skip = FALSE, !.cycle = HeadCycles(d)])
<1> DEFINE k == HeadCycles(d)
           e == [d EXCEPT !.skip = FALSE, !.cycle = k]
<1>1. d \in Device /\ k \in Int /\ k = -h
  BY OrderShows, HeadCyclesType DEF Good, Fits
<1> HIDE DEF k
<1>2. /\ e.q = d.q /\ e.count = d.count /\ e.cycle = k /\ e.skip = FALSE
      /\ e.slot = d.slot /\ e.ip = d.ip /\ e.exl = d.exl /\ e.loading = d.loading
      /\ e.compare = d.compare
  BY <1>1 DEF Device
<1> HIDE DEF e
<1>3. Placed(e, h)
  BY <1>1, <1>2, Zenon DEF Placed
<1>4. Turn(d, e)
  BY <1>2, <1>3, Zenon DEF Turn, Settled, OnTime, Order, Quiet, Held
<1> QED
  BY <1>4 DEF e, k

(* gen_interrupt, called when cycle_count is not negative.                 *)
LEMMA GenTurn ==
  ASSUME Tuned, NEW d, NEW h \in Int, Good(d), Quiet(d), ~d.loading, Placed(d, h),
         d.skip => d.cycle = 0, Queued(d.q, ViEvent)
  PROVE  Turn(d, GenIfDue(d))
<1>0. d \in Device /\ d.cycle \in Int
  BY QueueTypes DEF Good, Fits
<1>1. Shown(d) /\ Turn(d, [d EXCEPT !.skip = FALSE, !.cycle = HeadCycles(d)])
  BY OrderShows, SkipTurn
<1>2. CASE ~(d.cycle >= 0)
  <2>1. GenIfDue(d) = d
    BY <1>2 DEF GenIfDue
  <2>2. ~d.skip
    BY <1>2
  <2>3. Turn(d, d)
    BY <2>2, Zenon DEF Turn, Settled, OnTime, Order, Held
  <2> QED
    BY <2>1, <2>3
<1>3. CASE d.cycle >= 0
  <2>1. GenIfDue(d) = GenInterrupt(d)
    BY <1>3 DEF GenIfDue
  <2>2. d.unsafe = {} => Turn(d, [d EXCEPT !.loading = TRUE]) /\ Turn(d, ResetHardHandler(d))
    BY <1>0, <1>1, LoadTurn, ResetTurn
  <2>3. ~d.skip => Turn(d, SaveJob(Dispatch(d)))
    <3>1. ASSUME ~d.skip PROVE Turn(d, SaveJob(Dispatch(d)))
      <4>1. h <= 0
        <5>1. d.cycle = -h
          BY <3>1 DEF Placed
        <5> QED
          BY <5>1, <1>3
      <4>2. NoNMI
        BY DEF Tuned, NoNMI
      <4>3. Due(d, h)
        BY <3>1, <4>1, <4>2, Zenon DEF Due
      <4> QED
        BY <4>3, DispatchHandled, SaveTurn
    <3> QED
      BY <3>1
  <2> QED
    BY <1>1, <2>1, <2>2, <2>3, Zenon DEF GenInterrupt
<1> QED
  BY <1>2, <1>3

-----------------------------------------------------------------------------
(* r4300_check_interrupt and the gen_interrupt that may follow it.         *)

(* A queue with an event pushed in front.                                  *)
LEMMA PushedQueue ==
  ASSUME NEW q \in Seq(EventType), NEW x \in EventType, NEW r, r = <<x>> \o q
  PROVE  /\ r \in Seq(EventType) /\ r # <<>> /\ r[1] = x /\ Tail(r) = q
         /\ Len(r) = Len(q) + 1 /\ Len(q) \in Nat /\ DOMAIN r = 1 .. Len(r)
         /\ \A i \in 2 .. Len(r) : i - 1 \in 1 .. Len(q) /\ r[i] = q[i - 1]
<1>1. <<x>> \in Seq(EventType) /\ Len(<<x>>) = 1 /\ <<x>>[1] = x /\ Len(q) \in Nat
  OBVIOUS
<1>2. r \in Seq(EventType) /\ Len(r) = Len(q) + 1
      /\ \A i \in 1 .. Len(r) : r[i] = IF i <= 1 THEN <<x>>[i] ELSE q[i - 1]
  BY <1>1, ConcatProperties
<1>3. r # <<>> /\ DOMAIN r = 1 .. Len(r) /\ 1 \in 1 .. Len(r)
  BY <1>1, <1>2
<1>4. r[1] = x
  BY <1>1, <1>2, <1>3
<1>5. \A i \in 2 .. Len(r) : i - 1 \in 1 .. Len(q) /\ r[i] = q[i - 1]
  BY <1>1, <1>2
<1>6. Tail(r) \in Seq(EventType) /\ Len(Tail(r)) = Len(q)
      /\ \A i \in 1 .. Len(q) : Tail(r)[i] = r[i + 1]
  BY <1>1, <1>2, <1>3, HeadTailProperties
<1>7. \A i \in 1 .. Len(q) : i + 1 \in 2 .. Len(r) /\ (i + 1) - 1 = i
  BY <1>1, <1>2
<1>8. \A i \in 1 .. Len(q) : Tail(r)[i] = q[i]
  BY <1>5, <1>6, <1>7
<1>9. Tail(r) = q
  BY <1>6, <1>8, SeqEqual
<1> QED
  BY <1>1, <1>2, <1>3, <1>4, <1>5, <1>9

(* What r4300_check_interrupt, called for the RCP, makes of d: it copies   *)
(* the line, and pushes a CHECK_INT only if the CPU accepts interrupts.    *)
Checked(d, c) ==
  /\ c.count = d.count /\ c.compare = d.compare /\ c.slot = d.slot /\ c.skip = d.skip
  /\ c.loading = d.loading /\ c.exl = d.exl /\ c.ip \subseteq d.ip \cup {RCP}
  /\ \/ c.q = d.q /\ c.cycle = d.cycle
     \/ c.q = <<Event(CheckEvent, d.count)>> \o d.q /\ c.cycle = 0 /\ ~d.exl

LEMMA CheckRCPChecks ==
  ASSUME NEW d \in Device
  PROVE  /\ Checked(d, CheckRCP(d)) /\ CheckRCP(d).unsafe = d.unsafe
         /\ RCP \in CheckRCP(d).ip => d.intr \cap d.mask # {}
         /\ \/ CheckRCP(d).q = d.q /\ CheckRCP(d).cycle = d.cycle
            \/ Takeable([d EXCEPT !.ip = CheckRCP(d).ip])
<1> DEFINE set == d.intr \cap d.mask # {}
           s == IF set THEN d.ip \cup {RCP} ELSE d.ip \ {RCP}
           e == [d EXCEPT !.ip = s]
           r == <<Event(CheckEvent, d.count)>> \o e.q
           f == [e EXCEPT !.q = r, !.cycle = 0]
<1>1. s \in SUBSET IPs /\ s \subseteq d.ip \cup {RCP} /\ (RCP \in s => d.intr \cap d.mask # {})
  BY DEF Device, IPs
<1>2. CheckRCP(d) = IF Takeable(e) /\ Len(e.q) < POOL_CAPACITY THEN f ELSE e
  BY Zenon DEF CheckRCP, CheckInterrupt
<1> HIDE DEF s
<1>3. /\ e.q = d.q /\ e.count = d.count /\ e.ip = s /\ e.cycle = d.cycle
      /\ e.compare = d.compare /\ e.slot = d.slot /\ e.skip = d.skip
      /\ e.loading = d.loading /\ e.exl = d.exl /\ e.unsafe = d.unsafe
  BY DEF Device
<1>4. /\ f.q = r /\ f.count = e.count /\ f.ip = e.ip /\ f.cycle = 0
      /\ f.compare = e.compare /\ f.slot = e.slot /\ f.skip = e.skip
      /\ f.loading = e.loading /\ f.exl = e.exl /\ f.unsafe = e.unsafe
  <2> HIDE DEF r
  <2> QED
    BY DEF Device
<1>5. CASE Takeable(e) /\ Len(e.q) < POOL_CAPACITY
  <2>1. ~e.exl
    BY <1>5 DEF Takeable
  <2>2. CheckRCP(d) = f
    BY <1>2, <1>5
  <2> HIDE DEF f
  <2>3. Checked(d, f) /\ f.unsafe = d.unsafe /\ f.ip = s
    BY <1>1, <1>3, <1>4, <2>1 DEF Checked
  <2> QED
    BY <1>1, <1>5, <2>2, <2>3
<1>6. CASE ~(Takeable(e) /\ Len(e.q) < POOL_CAPACITY)
  <2>1. CheckRCP(d) = e
    BY <1>2, <1>6
  <2> HIDE DEF e
  <2>2. Checked(d, e) /\ e.unsafe = d.unsafe
    BY <1>1, <1>3 DEF Checked
  <2> QED
    BY <1>1, <1>3, <2>1, <2>2
<1> QED
  BY <1>5, <1>6

(* A CHECK_INT in front of events in order: gen_interrupt takes it out.    *)
LEMMA PushedTurn ==
  ASSUME Tuned, NEW d, NEW h \in Int, Good(d), Quiet(d), ~d.loading, ~d.skip, Placed(d, h),
         ~d.exl, NEW c, Good(c), Checked(d, c),
         c.q = <<Event(CheckEvent, d.count)>> \o d.q, c.cycle = 0
  PROVE  Turn(c, GenInterrupt(c))
<1> DEFINE x == Event(CheckEvent, d.count)
           r == RemoveHead(c)
           e == ExceptionGeneral(r)
<1>0. /\ d \in Device /\ c \in Device /\ d.q \in Seq(EventType) /\ d.count \in Counts
      /\ InOrder(d.q, d.count, h) /\ -Late < h /\ DOMAIN d.q = 1 .. Len(d.q)
      /\ DOMAIN c.q = 1 .. Len(c.q) /\ d.count \in Int
  BY QueueTypes DEF Good, Fits, Placed
<1>1. x \in EventType /\ x.type = CheckEvent /\ x.count = d.count
  BY <1>0, OtherTypes DEF Event, EventType
<1> HIDE DEF x
<1>2. c.q = <<x>> \o d.q
  BY DEF x
<1>3. /\ c.q # <<>> /\ c.q[1] = x /\ Tail(c.q) = d.q
      /\ \A i \in 2 .. Len(c.q) : i - 1 \in 1 .. Len(d.q) /\ c.q[i] = d.q[i - 1]
      /\ Len(c.q) = Len(d.q) + 1 /\ Len(d.q) \in Nat
  <2> HIDE DEF r, e
  <2>1. d.q \in Seq(EventType) /\ x \in EventType /\ c.q = <<x>> \o d.q
    BY <1>0, <1>1, <1>2, Zenon
  <2> QED
    BY <2>1, PushedQueue
<1>4. /\ c.count = d.count /\ c.compare = d.compare /\ c.slot = d.slot /\ c.skip = d.skip
      /\ c.loading = d.loading /\ c.exl = d.exl /\ c.ip \subseteq d.ip \cup {RCP}
  BY DEF Checked
<1>5. Shown(c)
  <2>1. Wrap(c.count - c.q[1].count) = 0 /\ HeadCycles(c) = 0
    <3>1. d.count - d.count = 0 /\ Wrap(0) = 0 /\ 0 < HALF
      BY <1>0, WrapNear, RangeType, HalfAssumption
    <3>2. c.count - c.q[1].count = 0
      BY <1>1, <1>3, <1>4, <3>1
    <3>3. Wrap(c.count - c.q[1].count) = 0
      BY <3>1, <3>2
    <3>4. HeadCycles(c) = Signed(0)
      BY <3>3, <1>3, Zenon DEF HeadCycles
    <3>5. Signed(0) = 0
      BY HalfAssumption DEF Signed
    <3> QED
      BY <3>3, <3>4, <3>5
  <2>2. 0 <= 2 * MAX_LATE + 3
    BY LateBounds
  <2>3. Sorted(c)
    <3>1. CheckEvent \notin DEVICES \cup {ViEvent}
      BY InterruptAssumption DEF CheckEvent, ViEvent
    <3>2. \A i \in 1 .. Len(c.q) : c.q[i].type \in DEVICES \cup {ViEvent} => i \in 2 .. Len(c.q)
      BY <3>1, <1>1, <1>3
    <3>3. Sorted(d)
      BY OrderShows DEF Shown
    <3>4. \A y : LateBy(c, y) = LateBy(d, y)
      BY <1>4 DEF LateBy
    <3>5. \A i, j \in 1 .. Len(c.q) :
            /\ i < j
            /\ c.q[i].type \in DEVICES \cup {ViEvent}
            /\ c.q[j].type \in DEVICES \cup {ViEvent}
            => LateBy(d, c.q[i]) >= LateBy(d, c.q[j])
      <4> TAKE i, j \in 1 .. Len(c.q)
      <4> HAVE /\ i < j
               /\ c.q[i].type \in DEVICES \cup {ViEvent}
               /\ c.q[j].type \in DEVICES \cup {ViEvent}
      <4>1. i \in 2 .. Len(c.q) /\ j \in 2 .. Len(c.q)
        BY <3>2
      <4>2. /\ i - 1 \in DOMAIN d.q /\ j - 1 \in DOMAIN d.q /\ i - 1 < j - 1
            /\ c.q[i] = d.q[i - 1] /\ c.q[j] = d.q[j - 1]
        BY <4>1, <1>0, <1>3
      <4> QED
        BY <4>2, <3>3 DEF Sorted
    <3> QED
      BY <3>4, <3>5, <1>0 DEF Sorted
  <2> QED
    BY <2>1, <2>2, <2>3 DEF Shown
<1>6. c.unsafe = {} => Turn(c, [c EXCEPT !.loading = TRUE]) /\ Turn(c, ResetHardHandler(c))
  BY <1>0, <1>5, LoadTurn, ResetTurn
<1>7. /\ r \in Device /\ r.q = d.q /\ r.count = d.count /\ r.cycle = -h /\ ~r.skip
      /\ r.compare = c.compare /\ r.slot = c.slot /\ r.loading = c.loading /\ r.ip = c.ip
  <2> DEFINE m == [c EXCEPT !.q = d.q]
  <2>1. r = [m EXCEPT !.cycle = HeadCycles(m)]
    BY <1>3 DEF RemoveHead
  <2>2. m \in Device /\ m.q = d.q /\ SameRest(c, m)
    BY <1>0, DeviceQueue
  <2> HIDE DEF m
  <2>3. HeadCycles(m) \in Int /\ HeadCycles(m) = -h
    <3>1. HeadCycles(m) = HeadCycles(d)
      BY <1>4, <2>2, Zenon DEF HeadCycles, SameRest
    <3>2. HeadCycles(d) = -h
      BY OrderShows
    <3> QED
      BY <3>1, <3>2
  <2> DEFINE k == HeadCycles(m)
             g == [m EXCEPT !.cycle = k]
  <2>4. k \in Int /\ k = -h /\ r = g
    BY <2>1, <2>3
  <2> HIDE DEF k, r
  <2>5. g \in Device /\ g.q = m.q /\ g.cycle = k /\ SameRest(m, g)
    BY <2>2, <2>4, DeviceCycle
  <2> HIDE DEF g
  <2> QED
    BY <1>4, <2>2, <2>4, <2>5, Zenon DEF SameRest, SameButCount
<1> HIDE DEF r
<1>8. Order(e) /\ Held(e)
  BY <1>0, <1>7, ExceptionPlaced
<1>9. e \in Device /\ Steady(r, e) /\ e.count = Wrap(r.count + 1) /\ e.ip = r.ip
  BY <1>7, ExceptionProps, Zenon
<1> HIDE DEF e
<1>10. RCP # Cart
  BY DEF RCP, Cart
<1>11. Quiet(e)
  BY <1>4, <1>7, <1>9, <1>10 DEF Quiet, Steady
<1>12. Handled(c, e)
  BY <1>4, <1>7, <1>8, <1>9, <1>11, Zenon DEF Handled, Steady
<1>13. Turn(c, SaveJob(e))
  BY <1>4, <1>12, SaveTurn
<1>14. Dispatch(c) = e
  BY <1>1, <1>3, Handlers DEF e, r
<1> QED
  BY <1>4, <1>6, <1>13, <1>14, Zenon DEF GenInterrupt

(* gen_interrupt after r4300_check_interrupt.                              *)
LEMMA CheckedTurn ==
  ASSUME Tuned, NEW d, NEW h \in Int, Good(d), Quiet(d), ~d.loading, ~d.skip, Placed(d, h),
         Queued(d.q, ViEvent), NEW c, Good(c), Checked(d, c)
  PROVE  Turn(c, GenIfDue(c))
<1>1. CASE c.q = d.q /\ c.cycle = d.cycle
  <2>1. Cart \notin c.ip
    BY DEF Quiet, Checked, RCP, Cart
  <2>2. Quiet(c) /\ ~c.loading /\ ~c.skip /\ Placed(c, h)
    BY <1>1, <2>1, Zenon DEF Quiet, Checked, Placed
  <2>3. Queued(c.q, ViEvent)
    BY <1>1
  <2> QED
    BY <2>2, <2>3, GenTurn
<1>2. CASE c.q = <<Event(CheckEvent, d.count)>> \o d.q /\ c.cycle = 0 /\ ~d.exl
  <2>1. c.cycle >= 0
    BY <1>2
  <2>2. GenIfDue(c) = GenInterrupt(c)
    BY <2>1 DEF GenIfDue
  <2>3. Turn(c, GenInterrupt(c))
    BY <1>2, PushedTurn
  <2> QED
    BY <2>2, <2>3
<1> QED
  BY <1>1, <1>2 DEF Checked

-----------------------------------------------------------------------------
(* The instructions keep the order.                                        *)

(* An abandoned jump is past its delay slot: no other instruction runs.    *)
Ordered(d) == Settled(d) /\ (~d.loading /\ d.skip => d.slot = "done")

(* The timer line rises on time in the step from d to e.                   *)
Prompt(d, e) ==
  (Timer \in e.ip \ d.ip)
    => \E count \in {d.count, e.count} : Wrap(count - d.compare) <= 2 * MAX_LATE + 3

(* An instruction that does not raise the timer line is prompt.            *)
LEMMA Silent ==
  ASSUME NEW d, NEW e, Timer \in e.ip => Timer \in d.ip
  PROVE  Prompt(d, e)
  BY DEF Prompt

(* The end of an instruction.                                              *)
LEMMA ExecuteOrdered ==
  ASSUME NEW d \in Device, Settled(d), Execute(d)
  PROVE  /\ Ordered(dev') /\ dev'.ip = d.ip /\ dev'.count = d.count
         /\ dev'.compare = d.compare
<1> DEFINE s == IF d.slot = "pending" THEN "done" ELSE d.slot
           e == [d EXCEPT !.slot = s]
<1>1. dev' = e
  BY DEF Execute
<1>2. d.slot \in {"no", "pending", "done"} /\ (d.slot # "no" => s = "done") /\ (d.slot = "no" => s = "no")
  BY DEF Device
<1> HIDE DEF s
<1>3. /\ e.q = d.q /\ e.count = d.count /\ e.cycle = d.cycle /\ e.compare = d.compare
      /\ e.skip = d.skip /\ e.slot = s /\ e.ip = d.ip /\ e.exl = d.exl
      /\ e.loading = d.loading
  BY DEF Device
<1> HIDE DEF e
<1>4. CASE d.loading
  <2>1. HeadCycles(e) = HeadCycles(d)
    BY <1>3, Zenon DEF HeadCycles
  <2>2. Sorted(e)
    BY <1>3, <1>4, Zenon DEF Sorted, LateBy, Shown, Settled
  <2>3. Shown(e)
    BY <1>3, <1>4, <2>1, <2>2, Zenon DEF Shown, Settled
  <2>4. Ordered(e)
    BY <1>3, <1>4, <2>3, Zenon DEF Ordered, Settled
  <2> QED
    BY <1>1, <1>3, <2>4, Zenon
<1>5. CASE ~d.loading
  <2>1. Order(e) /\ Quiet(e)
    BY <1>3, <1>5, Zenon DEF Settled, Order, Placed, Quiet
  <2>2. d.skip => d.slot # "no" /\ d.cycle = 0
    BY <1>5 DEF Settled, Held
  <2>3. e.skip => e.slot = "done" /\ e.cycle = 0
    BY <1>2, <1>3, <2>2
  <2>4. Held(e)
    BY <2>3 DEF Held
  <2>5. Ordered(e)
    BY <1>3, <1>5, <2>1, <2>3, <2>4, Zenon DEF Ordered, Settled
  <2> QED
    BY <1>1, <1>3, <2>5, Zenon
<1> QED
  BY <1>4, <1>5

(* The device before an instruction, its head at tick h.                   *)
Calm(d, h) == ~d.loading /\ ~d.skip /\ Placed(d, h) /\ Quiet(d)

LEMMA CalmBefore ==
  ASSUME Tuned, dev \in Device, Ordered(dev), ~dev.loading, dev.slot # "done"
  PROVE  \E h \in Int : /\ Calm(dev, h) /\ dev.cycle = -h /\ -HALF < h /\ -Late <= h
                        /\ dev.cycle <= MAX_LATE => -Late < h
<1>1. Order(dev) /\ Quiet(dev) /\ ~dev.skip
  BY Zenon DEF Ordered, Settled
<1>2. PICK h \in Int : Placed(dev, h)
  BY <1>1 DEF Order
<1>3. dev.cycle = -h /\ -Late <= h
  BY <1>1, <1>2 DEF Placed
<1>4. -HALF < h /\ (dev.cycle <= MAX_LATE => -Late < h)
  BY <1>3, LateBounds
<1> QED
  BY <1>1, <1>2, <1>3, <1>4 DEF Calm

(* Time passes.                                                            *)
LEMMA LaterPlaced ==
  ASSUME Tuned, NEW d \in Device, NEW h \in Int, Calm(d, h), NEW n \in Nat, -Late < h - n
  PROVE  LET e == AddCycles(d, n)
         IN  /\ e \in Device /\ Calm(e, h - n) /\ e.cycle = d.cycle + n
             /\ e.count = Wrap(d.count + n) /\ e.compare = d.compare /\ e.ip = d.ip
             /\ e.slot = d.slot /\ e.q = d.q
<1> DEFINE m == Wrap(d.count + n)  k == d.cycle + n
           e == [d EXCEPT !.count = m, !.cycle = k]
<1>0. /\ d.count \in Counts /\ d.count \in Int /\ d.cycle \in Int /\ n \in Int
      /\ d.q \in Seq(Entry(EventTypes)) /\ d.cycle = -h /\ InOrder(d.q, d.count, h)
  BY QueueTypes DEF Calm, Placed
<1>1. m \in Counts /\ k \in Int /\ k = -(h - n)
  BY <1>0, WrapSum
<1>2. AddCycles(d, n) = e
  BY DEF AddCycles
<1>3. InOrder(d.q, m, h - n)
  BY <1>0, LaterInOrder
<1> HIDE DEF m, k
<1>4. e \in Device
  BY <1>1 DEF Device
<1>5. /\ e.count = m /\ e.cycle = k /\ e.q = d.q /\ e.compare = d.compare /\ e.ip = d.ip
      /\ e.slot = d.slot /\ e.loading = d.loading /\ e.skip = d.skip
  BY DEF Device
<1> HIDE DEF e
<1>6. -Late <= h - n /\ h - n \in Int
  BY LateBounds
<1>7. Placed(e, h - n)
  BY <1>1, <1>3, <1>5, <1>6, Zenon DEF Placed
<1>8. Calm(e, h - n)
  BY <1>5, <1>7, Zenon DEF Calm, Quiet
<1> QED
  BY <1>2, <1>4, <1>5, <1>8 DEF m, k

LEMMA CalmSettled ==
  ASSUME NEW d, NEW h \in Int, Calm(d, h)
  PROVE  Settled(d)
  BY Zenon DEF Calm, Settled, Order, Held

(* An instruction that only takes time.                                    *)
LEMMA StepOrdered ==
  ASSUME Tuned, Good(dev), Ordered(dev), NEW n \in STEPS, Step(n)
  PROVE  Ordered(dev') /\ Prompt(dev, dev')
<1> DEFINE e == AddCycles(dev, n)
<1>0. dev \in Device /\ ~dev.loading /\ dev.slot # "done" /\ dev.cycle <= MAX_LATE /\ Execute(e)
  BY Zenon DEF Good, Fits, Step, Execute
<1>1. PICK h \in Int : Calm(dev, h) /\ dev.cycle = -h
  BY <1>0, CalmBefore
<1>2. n \in Nat /\ -Late < h - n
  BY <1>0, <1>1, LateBounds
<1>3. e \in Device /\ Calm(e, h - n) /\ e.ip = dev.ip
  BY <1>0, <1>1, <1>2, LaterPlaced
<1> HIDE DEF e
<1>4. h - n \in Int
  BY <1>2
<1>5. Settled(e)
  BY <1>3, <1>4, CalmSettled
<1>6. Ordered(dev') /\ dev'.ip = e.ip
  BY <1>0, <1>3, <1>5, ExecuteOrdered
<1> QED
  BY <1>3, <1>6, Silent

(* What gen_interrupt does at the end of a jump.                           *)
LEMMA TurnEnds ==
  ASSUME NEW d, Turn(d, dev'), d.slot = "no"
  PROVE  Ordered(dev')
<1>1. Settled(dev') /\ dev'.slot = "no"
  BY Zenon DEF Turn
<1>2. ~dev'.loading => ~dev'.skip
  BY <1>1 DEF Settled, Held
<1> QED
  BY <1>1, <1>2 DEF Ordered

(* An idle loop skips to an event that is not due.                         *)
LEMMA IdleLoopOrdered ==
  ASSUME Tuned, Good(dev), Ordered(dev), Queued(dev.q, ViEvent), NEW n \in STEPS, IdleLoop(n)
  PROVE  Ordered(dev') /\ Prompt(dev, dev')
<1> DEFINE k == n - dev.cycle
           e == AddCycles(dev, k)
<1>0. /\ dev \in Device /\ ~dev.loading /\ dev.slot = "no" /\ dev.cycle < 0 /\ dev' = GenIfDue(e)
      /\ dev.cycle \in Int /\ dev.count \in Int /\ dev.compare \in Int
  BY QueueTypes, Zenon DEF Good, Fits, IdleLoop
<1>1. PICK h \in Int : Calm(dev, h) /\ dev.cycle = -h
  BY <1>0, CalmBefore
<1>2. n \in Int /\ 0 <= n /\ n < Late /\ n <= MAX_LATE + 2 /\ MAX_LATE \in Int /\ MAX_LATE >= 0
      /\ Late \in Int
  BY LateBounds
<1>3. k \in Nat /\ h - k = -n /\ -Late < h - k /\ dev.cycle + k = n /\ -n \in Int
  BY <1>0, <1>1, <1>2
<1> HIDE DEF k
<1>4. /\ e \in Device /\ Calm(e, h - k) /\ e.cycle = dev.cycle + k /\ e.ip = dev.ip
      /\ e.slot = dev.slot /\ e.q = dev.q /\ e.compare = dev.compare
  BY <1>0, <1>1, <1>3, LaterPlaced
<1>5. Good(e)
  <2>1. k \in Int
    BY <1>3
  <2> QED
    BY <2>1, AddCyclesGood
<1>c. e.count \in Int
  BY <1>4, QueueTypes
<1> HIDE DEF e
<1>6. Turn(e, dev')
  <2>1. Placed(e, -n) /\ Quiet(e) /\ ~e.loading /\ ~e.skip
    BY <1>3, <1>4 DEF Calm
  <2>2. Queued(e.q, ViEvent)
    BY <1>4
  <2>3. Turn(e, GenIfDue(e))
    BY <2>1, <2>2, <1>3, <1>5, GenTurn
  <2> QED
    BY <1>0, <2>3
<1>7. Ordered(dev')
  BY <1>0, <1>4, <1>6, TurnEnds
<1>8. Prompt(dev, dev')
  <2>1. SUFFICES ASSUME Timer \in dev'.ip, Timer \notin dev.ip
                 PROVE  Wrap(dev'.count - dev.compare) <= 2 * MAX_LATE + 3
    BY DEF Prompt
  <2>2. Wrap(e.count - e.compare) = e.cycle /\ dev'.count \in {e.count, Wrap(e.count + 1)}
    BY <1>4, <1>6, <2>1 DEF Turn, OnTime
  <2>3. Wrap(e.count - dev.compare) = n
    BY <2>2, <1>3, <1>4
  <2>4. CASE dev'.count = e.count
    BY <2>3, <2>4, <1>2
  <2>5. CASE dev'.count = Wrap(e.count + 1)
    <3> DEFINE x == e.count  y == dev.compare
    <3>1. x \in Int /\ y \in Int /\ -y \in Int /\ x + 1 \in Int /\ x - y \in Int
      BY <1>0, <1>c
    <3> HIDE DEF x, y
    <3>2. Wrap(Wrap(x + 1) + (-y)) = Wrap((x + 1) + (-y)) /\ Wrap(Wrap(x - y) + 1) = Wrap((x - y) + 1)
      BY <3>1, WrapAgain
    <3>3. (x + 1) + (-y) = (x - y) + 1
      BY <3>1
    <3>4. Wrap(x - y) = n
      BY <2>3 DEF x, y
    <3>5. Wrap(n + 1) = n + 1
      <4>1. n + 1 < COUNT_MOD /\ 0 <= n + 1 /\ n + 1 \in Int
        BY <1>2, LateBounds, RangeType
      <4> QED
        BY <4>1, WrapNear
    <3>6. Wrap(Wrap(x + 1) - y) = n + 1
      <4>1. Wrap(x + 1) \in Int
        BY <3>1, WrapType, RangeType
      <4>2. Wrap(x + 1) - y = Wrap(x + 1) + (-y)
        BY <3>1, <4>1
      <4> QED
        BY <4>2, <3>2, <3>3, <3>4, <3>5
    <3> QED
      BY <3>6, <2>5, <1>2 DEF x, y
  <2> QED
    BY <2>2, <2>4, <2>5
<1> QED
  BY <1>7, <1>8

(* A jump, and its end.                                                    *)
LEMMA JumpOrdered ==
  ASSUME Tuned, Good(dev), Ordered(dev), Queued(dev.q, ViEvent), JumpStart \/ JumpEnd
  PROVE  Ordered(dev') /\ Prompt(dev, dev')
<1>0. dev \in Device /\ ~dev.loading /\ Order(dev) /\ Quiet(dev) /\ Held(dev)
  BY Zenon DEF Good, Fits, JumpStart, JumpEnd, Ordered, Settled
<1>1. ASSUME NEW s \in {"no", "pending"}
      PROVE  LET e == [dev EXCEPT !.slot = s]
             IN  /\ Good(e) /\ e.q = dev.q /\ e.count = dev.count /\ e.cycle = dev.cycle
                 /\ e.skip = dev.skip /\ e.ip = dev.ip /\ e.exl = dev.exl
                 /\ e.loading = dev.loading /\ e.compare = dev.compare /\ e.slot = s
  <2> DEFINE e == [dev EXCEPT !.slot = s]
  <2>1. /\ e \in Device /\ e.compare = dev.compare /\ e.q = dev.q /\ e.count = dev.count
        /\ e.cycle = dev.cycle /\ e.skip = dev.skip /\ e.ip = dev.ip /\ e.exl = dev.exl
        /\ e.loading = dev.loading /\ e.slot = s
    BY <1>0 DEF Device
  <2> HIDE DEF e
  <2>2. Good(e)
    BY <2>1, SameQueue
  <2> QED
    BY <2>1, <2>2 DEF e
<1>2. CASE JumpStart
  <2> DEFINE e == [dev EXCEPT !.slot = "pending"]
  <2>1. dev' = e /\ dev.slot = "no"
    BY <1>2 DEF JumpStart
  <2>2. /\ e.q = dev.q /\ e.count = dev.count /\ e.cycle = dev.cycle
        /\ e.skip = dev.skip /\ e.ip = dev.ip /\ e.exl = dev.exl /\ e.loading = dev.loading
    BY <1>1
  <2> HIDE DEF e
  <2>3. ~dev.skip
    BY <1>0, <2>1 DEF Held
  <2>4. Ordered(e)
    BY <1>0, <2>2, <2>3, Zenon DEF Ordered, Settled, Order, Placed, Quiet, Held
  <2>5. Timer \in e.ip => Timer \in dev.ip
    BY <2>2
  <2> QED
    BY <2>1, <2>4, <2>5, Silent
<1>3. CASE JumpEnd
  <2> DEFINE e == [dev EXCEPT !.slot = "no"]
  <2>1. dev' = GenIfDue(e)
    BY <1>3 DEF JumpEnd
  <2>2. /\ Good(e) /\ e.q = dev.q /\ e.count = dev.count /\ e.cycle = dev.cycle
        /\ e.skip = dev.skip /\ e.ip = dev.ip /\ e.exl = dev.exl /\ e.loading = dev.loading
        /\ e.compare = dev.compare /\ e.slot = "no"
    BY <1>1
  <2> HIDE DEF e
  <2>3. PICK h \in Int : Placed(dev, h)
    BY <1>0 DEF Order
  <2>4. Placed(e, h) /\ Quiet(e) /\ ~e.loading
    BY <1>0, <2>2, <2>3, Zenon DEF Placed, Quiet
  <2>5. (e.skip => e.cycle = 0) /\ Queued(e.q, ViEvent)
    BY <1>0, <2>2 DEF Held
  <2>6. Turn(e, dev')
    BY <2>1, <2>2, <2>4, <2>5, GenTurn
  <2>7. Ordered(dev')
    BY <2>2, <2>6, TurnEnds
  <2>8. e.cycle <= 2 * MAX_LATE + 3
    <3>1. CASE e.skip
      BY <3>1, <2>5, LateBounds
    <3>2. CASE ~e.skip
      <4>1. e.cycle = -h /\ -Late <= h
        BY <3>2, <2>4 DEF Placed
      <4> QED
        BY <4>1, LateBounds
    <3> QED
      BY <3>1, <3>2
  <2>9. Timer \in dev'.ip => Timer \in dev.ip \/ Wrap(dev.count - dev.compare) = e.cycle
    BY <2>2, <2>6 DEF Turn, OnTime
  <2>10. Prompt(dev, dev')
    BY <2>8, <2>9 DEF Prompt
  <2> QED
    BY <2>7, <2>10
<1> QED
  BY <1>2, <1>3

(* The flags are outside of the order.                                     *)
LEMMA FlagsSettled ==
  ASSUME NEW d, NEW e, SameButFlags(d, e), Settled(d)
  PROVE  Settled(e)
<1>1. HeadCycles(e) = HeadCycles(d) /\ (Sorted(d) => Sorted(e))
  BY Zenon DEF SameButFlags, HeadCycles, Sorted, LateBy
<1>2. Shown(d) => Shown(e)
  BY <1>1, Zenon DEF SameButFlags, Shown
<1>3. Order(d) /\ Quiet(d) /\ Held(d) => Order(e) /\ Quiet(e) /\ Held(e)
  BY Zenon DEF SameButFlags, Order, Placed, Quiet, Held
<1>4. e.loading = d.loading
  BY DEF SameButFlags
<1> QED
  BY <1>2, <1>3, <1>4, Zenon DEF Settled

(* A run of the RSP that queues nothing.                                   *)
LEMMA RunTaskOrdered ==
  ASSUME Good(dev), Ordered(dev), RunTask
  PROVE  Ordered(dev') /\ Prompt(dev, dev')
<1> DEFINE e == [dev EXCEPT !.unsafe = @ \cup {"RSP"}]
<1>1. SameButFlags(dev, e) /\ Execute(e)
  BY R4300Flags DEF Good, Fits, RunTask
<1> HIDE DEF e
<1>2. e \in Device /\ Settled(e) /\ e.ip = dev.ip
  BY <1>1, FlagsSettled DEF SameButFlags, Ordered
<1> QED
  BY <1>1, <1>2, ExecuteOrdered, Silent

(* An event scheduled by a device, at most half a turn ahead, unless COUNT *)
(* is at COMPARE: then COMPARE_INT may be a turn ahead or due now.         *)
LEMMA ScheduleOrdered ==
  ASSUME Tuned, Good(dev), Ordered(dev), Len(dev.q) < POOL_CAPACITY,
         dev.compare = dev.count => Len(dev'.q) <= Len(dev.q),
         NEW t \in DEVICES \cup {ViEvent}, NEW delay \in Nat, delay <= HALF,
         NEW f, SameButFlags(AddEvent(dev, t, delay), f), Execute(f)
  PROVE  Ordered(dev') /\ Prompt(dev, dev')
<1> DEFINE n == Wrap(dev.count + delay)
           e == AddEventCount(dev, t, n)
<1>0. /\ dev \in Device /\ Fits(dev) /\ ~dev.loading /\ dev.slot # "done"
      /\ dev.q \in Seq(EventType) /\ dev.q \in Seq(Entry(EventTypes))
      /\ DOMAIN dev.q = 1 .. Len(dev.q) /\ Len(dev.q) \in Nat
      /\ dev.count \in Counts /\ dev.count \in Int
  BY QueueTypes DEF Good, Fits, Execute
<1>1. PICK h \in Int : Calm(dev, h) /\ dev.cycle = -h /\ -HALF < h
  BY <1>0, CalmBefore
<1>2. /\ t \in EventTypes /\ t # CompareEvent /\ t # SpecialEvent /\ t # CheckEvent
      /\ t # HW2Event
  <2>1. {ViEvent, CompareEvent, SpecialEvent, CheckEvent, HW2Event, NMIEvent} \cap DEVICES = {}
    BY InterruptAssumption
  <2>2. /\ ViEvent # CompareEvent /\ ViEvent # SpecialEvent /\ ViEvent # CheckEvent
        /\ ViEvent # HW2Event
    BY DEF ViEvent, CompareEvent, SpecialEvent, CheckEvent, HW2Event
  <2> QED
    BY <2>1, <2>2 DEF EventTypes
<1>3. n \in Counts
  BY <1>0, WrapSum
<1>4. /\ Fits(e) /\ SameRest(dev, e) /\ Kept(dev, e, SpecialEvent)
      /\ Kept(dev, e, CheckEvent) /\ Kept(dev, e, HW2Event)
  BY <1>0, <1>2, <1>3, AddEventCountProps, Zenon
<1>5. Len(e.q) = Len(dev.q) + 1
  <2> DEFINE i == InsertPosition(dev, n)  x == Event(t, n)
  <2>1. e.q = InsertAt(dev.q, i, x)
    BY <1>0, <1>2, <1>3, AddedQueue
  <2>2. i \in 1 .. Len(dev.q) + 1
    BY <1>0, <1>3, InsertPositionType
  <2>3. x \in EventType
    BY <1>2, <1>3 DEF Event, EventType
  <2> HIDE DEF i, x, e
  <2>4. Len(InsertAt(dev.q, i, x)) = Len(dev.q) + 1
    BY <2>2, <2>3, <1>0, InsertAtProps
  <2> QED
    BY <2>1, <2>4
<1>f. SameButFlags(e, f)
  BY DEF AddEvent
<1>6. dev'.q = e.q
  <2>1. f \in Device /\ f.q = e.q
    BY <1>f DEF SameButFlags
  <2>2. dev' = [f EXCEPT !.slot = IF f.slot = "pending" THEN "done" ELSE f.slot]
    BY DEF Execute
  <2> HIDE DEF e
  <2> QED
    BY <2>1, <2>2 DEF Device
<1>7. dev.compare # dev.count
  BY <1>0, <1>5, <1>6
<1>8. Between(dev.q, dev.count, Base0(h), Base0(h) + COUNT_MOD)
  <2>1. InOrder(dev.q, dev.count, h)
    BY <1>1 DEF Calm, Placed
  <2>2. CASE h <= 0
    <3>1. Base0(h) = h
      BY <2>2 DEF Base0
    <3>2. Between(dev.q, dev.count, h, h + COUNT_MOD)
      BY <1>0, <2>1, WindowFromHead
    <3> QED
      BY <3>1, <3>2
  <2>3. CASE h > 0
    <3>1. Base0(h) = 0 /\ 0 + COUNT_MOD = COUNT_MOD /\ 0 \in Int /\ 0 <= h
      BY <2>3, RangeType DEF Base0
    <3>2. From(dev.q, dev.count, 0)
      BY <3>1, <2>1, <1>0, HeadFirst, FromLower
    <3>3. \A i \in 1 .. Len(dev.q) : dev.q[i].type = CompareEvent => dev.q[i].count # dev.count
      <4>1. ArmedAt(dev.q, CompareEvent, dev.compare)
        BY DEF Good, Armed, NoNMI, Tuned
      <4> QED
        BY <4>1, <1>0, <1>7 DEF ArmedAt
    <3>4. Between(dev.q, dev.count, 0, COUNT_MOD)
      BY <3>2, <3>3, <1>0, WindowAhead
    <3> QED
      BY <3>1, <3>4
  <2> QED
    BY <2>2, <2>3
<1>9. Base0(h) <= delay /\ delay < Base0(h) + COUNT_MOD /\ delay \in Int
  <2>1. HALF \in Int /\ HALF > 2 /\ COUNT_MOD = 2 * HALF
    BY HalfAssumption DEF COUNT_MOD
  <2>2. Base0(h) \in Int /\ Base0(h) <= 0 /\ -HALF < Base0(h)
    BY <1>1, <2>1 DEF Base0
  <2> HIDE DEF Base0
  <2> QED
    BY <2>1, <2>2
<1>10. Paced(e.q)
  <2>1. QueuedOnce(e.q, SpecialEvent)
    BY <1>4 DEF Kept, Good, Timers
  <2> QED
    BY <2>1, <1>4, OnceQueued, QueuedPaces, TimerTypes DEF Fits
<1>11. PICK k \in Int : At(e, k) /\ Base0(h) <= k
  <2>1. \E k \in Int : /\ At(AddEventCount(dev, t, Wrap(dev.count + delay)), k)
                       /\ Base0(h) <= k /\ k <= HALF
    BY <1>0, <1>1, <1>2, <1>8, <1>9, <1>10, AddPlaced
  <2> QED
    BY <2>1
<1> HIDE DEF e
<1>12. /\ e.exl = dev.exl /\ e.skip = dev.skip /\ e.loading = dev.loading /\ e.ip = dev.ip
       /\ e \in Device
  BY <1>4, Zenon DEF SameRest, SameButCount, Fits
<1>13. Placed(e, k)
  BY <1>1, <1>11, <1>12, PlacedAfter DEF Calm
<1>14. Quiet(e)
  <2>1. Quiet(dev) /\ e.ip \subseteq dev.ip
    BY <1>1, <1>12 DEF Calm
  <2> QED
    BY <2>1, <1>4, QuietKept
<1>15. Settled(e)
  BY <1>1, <1>12, <1>13, <1>14, CalmSettled DEF Calm
<1>16. f \in Device /\ Settled(f) /\ f.ip = e.ip
  BY <1>f, <1>15, FlagsSettled DEF SameButFlags
<1>17. Ordered(dev') /\ dev'.ip = dev.ip
  BY <1>12, <1>16, ExecuteOrdered
<1> QED
  BY <1>17, Silent

(* A cleared line: what the CPU accepts was taken or is not there.         *)
LEMMA ClearLineOrdered ==
  ASSUME Tuned, Good(dev), Heard(dev), Ordered(dev), NEW l \in Lines, ClearLine(l)
  PROVE  Ordered(dev') /\ Prompt(dev, dev')
<1> DEFINE s == dev.intr \ {l}
           d == [dev EXCEPT !.intr = s]
           c == CheckRCP(d)
<1>0. dev \in Device /\ ~dev.loading /\ dev.slot # "done" /\ Execute(c)
  BY Zenon DEF Good, Fits, ClearLine, Execute, ClearRCP
<1>1. PICK h \in Int : Calm(dev, h)
  BY <1>0, CalmBefore
<1>2. s \subseteq dev.intr
  OBVIOUS
<1> HIDE DEF s
<1>3. d \in Device
  BY <1>0, <1>2 DEF Device
<1>4. /\ d.q = dev.q /\ d.count = dev.count /\ d.cycle = dev.cycle
      /\ d.compare = dev.compare /\ d.skip = dev.skip /\ d.slot = dev.slot /\ d.exl = dev.exl
      /\ d.ip = dev.ip /\ d.loading = dev.loading /\ d.ie = dev.ie /\ d.im = dev.im
      /\ d.intr = s /\ d.mask = dev.mask
  BY <1>0 DEF Device
<1> HIDE DEF d
<1>5. /\ Checked(d, c) /\ (RCP \in c.ip => d.intr \cap d.mask # {})
      /\ (c.q = d.q /\ c.cycle = d.cycle) \/ Takeable([d EXCEPT !.ip = c.ip])
  BY <1>3, CheckRCPChecks, Zenon
<1>6. c \in Device
  <2>1. Good(d)
    BY <1>3, <1>4, SameQueue
  <2> QED
    BY <2>1, CheckRCPGood DEF Good, Fits
<1> HIDE DEF c
<1>7. ~Takeable([d EXCEPT !.ip = c.ip])
  <2> DEFINE m == c.ip
             e == [d EXCEPT !.ip = m]
  <2>0. m \in SUBSET IPs
    BY <1>6 DEF Device
  <2> HIDE DEF m
  <2>1. e.ie = dev.ie /\ e.exl = dev.exl /\ e.im = dev.im /\ e.ip = m
    BY <1>3, <1>4 DEF Device
  <2> HIDE DEF e
  <2>2. SUFFICES ASSUME Takeable(e) PROVE FALSE
    BY Zenon DEF e, m
  <2>3. dev.ie /\ ~dev.exl
    BY <2>1, <2>2, Zenon DEF Takeable
  <2>4. PICK x \in IPs : x \in dev.im /\ x \in m
    BY <2>0, <2>1, <2>2 DEF Takeable
  <2>5. ~Waiting(dev)
    <3>1. 1 \in DOMAIN dev.q
      BY <1>0, <1>1, HeadTick DEF Calm, Placed
    <3>2. dev.q[1].type # CheckEvent
      BY <3>1, <1>1, NotQueued, Zenon DEF Calm, Quiet
    <3> QED
      BY <3>2, Zenon DEF Heard, HeadCheck
  <2>6. m \subseteq dev.ip \cup {RCP} /\ (RCP \in m => dev.intr \cap dev.mask # {})
    BY <1>2, <1>4, <1>5 DEF Checked, m
  <2>7. CASE x = RCP
    BY <2>3, <2>4, <2>5, <2>6, <2>7 DEF Waiting
  <2>8. CASE x = Timer
    <3>1. Timer \in dev.ip
      BY <2>4, <2>6, <2>8 DEF Timer, RCP
    <3> QED
      BY <3>1, <2>3, <2>4, <2>5, <2>8 DEF Waiting
  <2>9. CASE x = Cart
    <3>1. Cart \in dev.ip
      BY <2>4, <2>6, <2>9 DEF Cart, RCP
    <3> QED
      BY <3>1, <1>1 DEF Calm, Quiet
  <2> QED
    BY <2>4, <2>7, <2>8, <2>9 DEF IPs
<1>8. c.q = d.q /\ c.cycle = d.cycle
  BY <1>5, <1>7
<1>9. /\ c.count = d.count /\ c.compare = d.compare /\ c.slot = d.slot /\ c.skip = d.skip
      /\ c.loading = d.loading /\ c.exl = d.exl /\ c.ip \subseteq d.ip \cup {RCP}
  BY <1>5 DEF Checked
<1>10. Calm(c, h)
  <2>1. Cart \notin c.ip
    BY <1>1, <1>4, <1>9 DEF Calm, Quiet, Cart, RCP
  <2> QED
    BY <2>1, <1>1, <1>4, <1>8, <1>9, Zenon DEF Calm, Quiet, Placed
<1>11. Ordered(dev') /\ dev'.ip = c.ip
  BY <1>0, <1>6, <1>10, CalmSettled, ExecuteOrdered
<1>12. Timer \in dev'.ip => Timer \in dev.ip
  BY <1>4, <1>9, <1>11 DEF Timer, RCP
<1> QED
  BY <1>11, <1>12, Silent

(* An instruction that calls r4300_check_interrupt and gen_interrupt.      *)
LEMMA CheckOrdered ==
  ASSUME Tuned, Good(dev), Ordered(dev), Queued(dev.q, ViEvent), ~dev.loading,
         dev.slot # "done", dev.cycle <= MAX_LATE,
         NEW d \in Device, d.q = dev.q, d.count = dev.count, d.cycle = dev.cycle,
         d.compare = dev.compare, d.skip = dev.skip, d.slot = dev.slot, d.ip = dev.ip,
         d.loading = dev.loading,
         NEW c, Good(c), Checked(d, c), NEW e, Good(e),
         e.q = GenIfDue(c).q, e.count = GenIfDue(c).count, e.cycle = GenIfDue(c).cycle,
         e.skip = GenIfDue(c).skip, e.slot = GenIfDue(c).slot, e.ip = GenIfDue(c).ip,
         e.exl = GenIfDue(c).exl, e.loading = GenIfDue(c).loading,
         Execute(e)
  PROVE  Ordered(dev') /\ Prompt(dev, dev')
<1>0. dev \in Device /\ e \in Device
  BY DEF Good, Fits
<1>1. PICK h \in Int : Calm(dev, h) /\ -Late < h
  BY <1>0, CalmBefore
<1>2. Placed(d, h) /\ Quiet(d) /\ ~d.loading /\ ~d.skip
  BY <1>1, Zenon DEF Calm, Placed, Quiet
<1>3. Good(d)
  BY SameQueue
<1> DEFINE g == GenIfDue(c)
<1>4. Turn(c, g)
  <2>1. Queued(d.q, ViEvent)
    OBVIOUS
  <2> QED
    BY <1>2, <1>3, <2>1, CheckedTurn
<1>g. /\ e.q = g.q /\ e.count = g.count /\ e.cycle = g.cycle /\ e.skip = g.skip
      /\ e.slot = g.slot /\ e.ip = g.ip /\ e.exl = g.exl /\ e.loading = g.loading
  OBVIOUS
<1> HIDE DEF g
<1>5. Settled(e)
  <2>1. HeadCycles(e) = HeadCycles(g)
    BY <1>g, Zenon DEF HeadCycles
  <2>2. Sorted(g) => Sorted(e)
    BY <1>g, Zenon DEF Sorted, LateBy
  <2>3. Shown(g) => Shown(e)
    BY <1>g, <2>1, <2>2, Zenon DEF Shown
  <2>4. Order(g) /\ Quiet(g) /\ Held(g) => Order(e) /\ Quiet(e) /\ Held(e)
    BY <1>g, Zenon DEF Order, Placed, Quiet, Held
  <2>5. Settled(g)
    BY <1>4 DEF Turn
  <2> QED
    BY <1>g, <2>3, <2>4, <2>5, Zenon DEF Settled
<1>6. Ordered(dev') /\ dev'.ip = g.ip
  BY <1>0, <1>g, <1>5, ExecuteOrdered
<1>7. /\ c.count = dev.count /\ c.compare = dev.compare /\ c.ip \subseteq dev.ip \cup {RCP}
      /\ c.cycle = dev.cycle \/ c.cycle = 0
  BY DEF Checked
<1>8. Timer \in dev'.ip => Timer \in dev.ip \/ Wrap(dev.count - dev.compare) = c.cycle
  <2>1. Timer \in g.ip => Timer \in c.ip \/ Wrap(c.count - c.compare) = c.cycle
    BY <1>4 DEF Turn, OnTime
  <2> QED
    BY <2>1, <1>6, <1>7 DEF Timer, RCP
<1>9. c.cycle <= 2 * MAX_LATE + 3
  <2>1. MAX_LATE \in Int /\ MAX_LATE >= 0 /\ dev.cycle \in Int
    BY <1>0, LateBounds, QueueTypes
  <2> QED
    BY <2>1, <1>7
<1>10. Prompt(dev, dev')
  BY <1>8, <1>9 DEF Prompt
<1> QED
  BY <1>6, <1>10

(* A write of the mask of the MI.                                          *)
LEMMA WriteMaskOrdered ==
  ASSUME Tuned, Good(dev), Ordered(dev), Queued(dev.q, ViEvent),
         NEW m \in MASK_WRITES, WriteMask(m)
  PROVE  Ordered(dev') /\ Prompt(dev, dev')
<1> DEFINE d == [dev EXCEPT !.mask = m]
           c == CheckRCP(d)
           e == GenIfDue(c)
<1>0. dev \in Device /\ ~dev.loading /\ dev.slot # "done" /\ dev.cycle <= MAX_LATE /\ Execute(e)
  BY Zenon DEF Good, Fits, WriteMask, Execute
<1>1. d \in Device
  <2>1. m \in SUBSET Lines
    BY InterruptAssumption
  <2> QED
    BY <1>0, <2>1 DEF Device
<1>2. /\ d.q = dev.q /\ d.count = dev.count /\ d.cycle = dev.cycle
      /\ d.compare = dev.compare /\ d.skip = dev.skip /\ d.slot = dev.slot
      /\ d.ip = dev.ip /\ d.loading = dev.loading
  BY <1>0 DEF Device
<1> HIDE DEF d
<1>3. Good(c) /\ Checked(d, c)
  BY <1>1, <1>2, SameQueue, CheckRCPGood, CheckRCPChecks
<1> HIDE DEF c
<1>4. Good(e)
  BY <1>3, GenIfDueGood
<1> QED
  BY <1>0, <1>1, <1>2, <1>3, <1>4, CheckOrdered

(* ERET.                                                                   *)
LEMMA EretOrdered ==
  ASSUME Tuned, Good(dev), Ordered(dev), Queued(dev.q, ViEvent), Eret
  PROVE  Ordered(dev') /\ Prompt(dev, dev')
<1> DEFINE d == [dev EXCEPT !.exl = FALSE]
           c == CheckRCP(d)
           e == GenIfDue(c)
<1>0. dev \in Device /\ ~dev.loading /\ dev.slot # "done" /\ dev.cycle <= MAX_LATE /\ Execute(e)
  BY Zenon DEF Good, Fits, Eret, Execute
<1>1. /\ d \in Device /\ d.q = dev.q /\ d.count = dev.count /\ d.cycle = dev.cycle
      /\ d.compare = dev.compare /\ d.skip = dev.skip /\ d.slot = dev.slot
      /\ d.ip = dev.ip /\ d.loading = dev.loading
  BY <1>0 DEF Device
<1> HIDE DEF d
<1>2. Good(c) /\ Checked(d, c)
  BY <1>1, SameQueue, CheckRCPGood, CheckRCPChecks
<1> HIDE DEF c
<1>3. Good(e)
  BY <1>2, GenIfDueGood
<1> QED
  BY <1>0, <1>1, <1>2, <1>3, CheckOrdered

(* A write of STATUS; the flag bars a reset or a savestate meanwhile.      *)
LEMMA WriteStatusOrdered ==
  ASSUME Tuned, Good(dev), Ordered(dev), Queued(dev.q, ViEvent),
         NEW ie \in BOOLEAN, NEW exl \in BOOLEAN, NEW im \in IM_WRITES,
         WriteStatus(ie, exl, im)
  PROVE  Ordered(dev') /\ Prompt(dev, dev')
<1> DEFINE d == [dev EXCEPT !.ie = ie, !.exl = exl, !.im = im]
           b == CheckRCP(d)
           c == R4300Unsafe(b)
           g == GenIfDue(c)
           e == R4300Safe(g)
<1>0. dev \in Device /\ ~dev.loading /\ dev.slot # "done" /\ dev.cycle <= MAX_LATE /\ Execute(e)
  <2>1. Execute(e)
    BY Zenon DEF WriteStatus
  <2> QED
    BY <2>1, Zenon DEF Good, Fits, Execute
<1>1. d \in Device
  <2>1. im \in SUBSET IPs
    BY InterruptAssumption
  <2> QED
    BY <1>0, <2>1 DEF Device
<1>2. /\ d.q = dev.q /\ d.count = dev.count /\ d.cycle = dev.cycle
      /\ d.compare = dev.compare /\ d.skip = dev.skip /\ d.slot = dev.slot
      /\ d.ip = dev.ip /\ d.loading = dev.loading
  BY <1>0 DEF Device
<1> HIDE DEF d
<1>3. Good(b) /\ Checked(d, b)
  BY <1>1, <1>2, SameQueue, CheckRCPGood, CheckRCPChecks
<1> HIDE DEF b
<1>4. /\ c.q = b.q /\ c.count = b.count /\ c.cycle = b.cycle /\ c.compare = b.compare
      /\ c.skip = b.skip /\ c.slot = b.slot /\ c.ip = b.ip /\ c.exl = b.exl
      /\ c.loading = b.loading
  BY <1>3, R4300Flags DEF Good, Fits, SameButFlags
<1>5. Good(c)
  BY <1>3, UnsafeGood
<1> HIDE DEF c
<1>6. Checked(d, c)
  BY <1>3, <1>4, Zenon DEF Checked
<1>7. Good(g)
  BY <1>5, GenIfDueGood
<1> HIDE DEF g
<1>8. Good(e)
  BY <1>7, UnsafeGood
<1>9. /\ e.q = g.q /\ e.count = g.count /\ e.cycle = g.cycle /\ e.skip = g.skip
      /\ e.slot = g.slot /\ e.ip = g.ip /\ e.exl = g.exl /\ e.loading = g.loading
  BY <1>7, R4300Flags DEF Good, Fits, SameButFlags
<1> HIDE DEF e
<1> QED
  BY <1>0, <1>1, <1>2, <1>5, <1>6, <1>8, <1>9, CheckOrdered DEF g

(* An instruction that raises an exception.                                *)
LEMMA TrapOrdered ==
  ASSUME Tuned, Good(dev), Ordered(dev), Trap
  PROVE  Ordered(dev') /\ Prompt(dev, dev')
<1> DEFINE s == {}
           d == [dev EXCEPT !.ip = s]
           e == ExceptionGeneral(d)
<1>0. dev \in Device /\ ~dev.loading /\ dev.slot # "done" /\ dev.cycle <= MAX_LATE /\ Execute(e)
  BY Zenon DEF Good, Fits, Trap, Execute
<1>1. PICK h \in Int : Calm(dev, h) /\ -Late < h
  BY <1>0, CalmBefore
<1>2. s \in SUBSET IPs /\ Cart \notin s /\ Timer \notin s
  OBVIOUS
<1> HIDE DEF s
<1>3. d \in Device
  BY <1>0, <1>2 DEF Device
<1>4. /\ d.q = dev.q /\ d.count = dev.count /\ d.cycle = dev.cycle
      /\ d.skip = dev.skip /\ d.ip = s /\ d.loading = dev.loading
  BY <1>0 DEF Device
<1> HIDE DEF d
<1>5. Order(e) /\ Held(e)
  <2>1. InOrder(d.q, d.count, h) /\ ~d.skip /\ d.cycle = -h
    BY <1>1, <1>4, Zenon DEF Calm, Placed
  <2> QED
    BY <1>1, <1>3, <2>1, ExceptionPlaced
<1>6. e \in Device /\ e.q = d.q /\ e.loading = d.loading /\ e.ip = d.ip
  BY <1>3, ExceptionProps, Zenon DEF Steady
<1> HIDE DEF e
<1>7. Settled(e)
  BY <1>1, <1>2, <1>4, <1>5, <1>6, Zenon DEF Settled, Calm, Quiet
<1>8. Ordered(dev') /\ dev'.ip = e.ip
  BY <1>0, <1>6, <1>7, ExecuteOrdered
<1>9. Timer \in dev'.ip => Timer \in dev.ip
  BY <1>2, <1>4, <1>6, <1>8
<1> QED
  BY <1>8, <1>9, Silent

(* A request of the front end only waits, a soft reset excepted.           *)
LEMMA RequestOrdered ==
  ASSUME Tuned, Good(dev), Ordered(dev), NEW j \in JOBS, Request(j)
  PROVE  Ordered(dev') /\ Prompt(dev, dev')
<1>1. j # "soft"
  BY DEF Tuned
<1>2. dev' = [dev EXCEPT !.job = j] \/ dev' = [dev EXCEPT !.reset = TRUE]
  BY <1>1 DEF Request
<1>3. /\ dev'.q = dev.q /\ dev'.count = dev.count /\ dev'.cycle = dev.cycle
      /\ dev'.skip = dev.skip /\ dev'.slot = dev.slot /\ dev'.ip = dev.ip
      /\ dev'.exl = dev.exl /\ dev'.loading = dev.loading
  BY <1>2 DEF Good, Fits, Device
<1> DEFINE e == dev'
<1> HIDE DEF e
<1>4. /\ e.q = dev.q /\ e.count = dev.count /\ e.cycle = dev.cycle /\ e.skip = dev.skip
      /\ e.slot = dev.slot /\ e.ip = dev.ip /\ e.exl = dev.exl /\ e.loading = dev.loading
  BY <1>3 DEF e
<1>5. HeadCycles(e) = HeadCycles(dev)
  BY <1>4, Zenon DEF HeadCycles
<1>6. Sorted(dev) => Sorted(e)
  BY <1>4, Zenon DEF Sorted, LateBy
<1>7. Shown(dev) => Shown(e)
  BY <1>4, <1>5, <1>6, Zenon DEF Shown
<1>8. Order(dev) /\ Quiet(dev) /\ Held(dev) => Order(e) /\ Quiet(e) /\ Held(e)
  BY <1>4, Zenon DEF Order, Placed, Quiet, Held
<1>9. Ordered(e)
  BY <1>4, <1>7, <1>8, Zenon DEF Ordered, Settled
<1>10. Prompt(dev, e)
  <2>1. Timer \in e.ip => Timer \in dev.ip
    BY <1>4
  <2> QED
    BY <2>1, Silent
<1> QED
  BY <1>9, <1>10 DEF e

(* remove_event leaves the other events in order, and cycle_count stale.   *)
LEMMA RemovedFrom ==
  ASSUME NEW d \in Device, NEW type, NEW n, NEW b, From(d.q, n, b)
  PROVE  From(RemoveEvent(d, type).q, n, b)
<1> DEFINE I == IndicesOf(d.q, type)
           r == RemoveAt(d.q, Min(I))
           e == [d EXCEPT !.q = r]
<1>0. d.q \in Seq(Entry(EventTypes)) /\ DOMAIN d.q = 1 .. Len(d.q) /\ Len(d.q) \in Nat
  BY QueueTypes
<1>1. CASE I = {}
  <2>1. RemoveEvent(d, type) = d
    BY <1>1 DEF RemoveEvent, Queued
  <2> QED
    BY <2>1
<1>2. CASE I # {}
  <2>1. I \subseteq 1 .. Len(d.q) /\ I \subseteq Nat
    BY <1>0 DEF IndicesOf
  <2>2. Min(I) \in I
    BY <1>2, <2>1, MinLeast
  <2>3. From(r, n, b)
    BY <1>0, <2>1, <2>2, RemoveFrom
  <2>4. RemoveEvent(d, type) = e
    BY <1>2 DEF RemoveEvent, Queued
  <2> HIDE DEF r
  <2>5. e.q = r
    BY DEF Device
  <2> QED
    BY <2>3, <2>4, <2>5
<1> QED
  BY <1>1, <1>2

(* COMPARE_INT taken out and placed again in a queue in order.             *)
LEMMA CompareOrdered ==
  ASSUME Tuned, NEW d, Fits(d), NEW h \in Int, Calm(d, h), -HALF < h, d.cycle = -h,
         QueuedOnce(d.q, CompareEvent), QueuedOnce(d.q, SpecialEvent),
         NEW n \in Counts, h < 2 \/ Wrap(n - d.count) # 1
  PROVE  LET e == AddCompare(RemoveEvent(d, CompareEvent), n)
         IN  /\ \E k \in Int : Calm(e, k)
             /\ Fits(e) /\ e.ip = d.ip /\ e.count = d.count
<1> DEFINE r == RemoveEvent(d, CompareEvent)
           e == AddCompare(r, n)
<1>0. /\ d \in Device /\ d.q \in Seq(Entry(EventTypes)) /\ Len(d.q) \in Nat
      /\ Len(d.q) <= POOL_CAPACITY /\ POOL_CAPACITY \in Nat
  BY QueueTypes, PoolAssumption DEF Fits
<1>1. /\ Fits(r) /\ Len(r.q) = Len(d.q) - 1 /\ ~Queued(r.q, CompareEvent)
      /\ QueuedOnce(r.q, SpecialEvent) /\ Kept(d, r, CheckEvent) /\ Kept(d, r, HW2Event)
      /\ SameRest(d, r) /\ r.cycle = d.cycle
  BY OnceQueued, TimerTypes, RemoveEventProps, Zenon
     DEF Kept, CheckEvent, HW2Event, SpecialEvent, CompareEvent
<1>2. From(r.q, d.count, h)
  <2>1. From(d.q, d.count, h)
    BY <1>0, HeadFirst DEF Calm, Placed
  <2> QED
    BY <1>0, <2>1, RemovedFrom
<1> HIDE DEF r
<1>3. Len(r.q) < POOL_CAPACITY
  BY <1>0, <1>1
<1>4. r.count = d.count /\ r.exl = d.exl /\ r.skip = d.skip /\ r.loading = d.loading /\ r.ip = d.ip
  BY <1>1, Zenon DEF SameRest, SameButCount
<1>5. From(r.q, r.count, Base2(h))
  <2>1. Base2(h) \in Int /\ Base2(h) <= h
    BY DEF Base2
  <2>2. r.q \in Seq(Entry(EventTypes))
    BY <1>1, QueueTypes DEF Fits
  <2> HIDE DEF Base2
  <2> QED
    BY <2>1, <2>2, <1>2, <1>4, FromLower
<1>6. PICK k \in Int : At(e, k) /\ Base2(h) <= k
  <2>1. r.cycle = -h /\ (h < 2 \/ Wrap(n - r.count) # 1)
    BY <1>1, <1>4
  <2> QED
    BY <2>1, <1>1, <1>3, <1>5, AddComparePlaced
<1>7. /\ Fits(e) /\ SameRest(r, e) /\ Kept(r, e, CheckEvent) /\ Kept(r, e, HW2Event)
  BY <1>1, AddCompareProps, Zenon DEF CheckEvent, HW2Event, CompareEvent
<1> HIDE DEF e
<1>8. e.count = d.count /\ e.exl = d.exl /\ e.skip = d.skip /\ e.loading = d.loading /\ e.ip = d.ip
  BY <1>4, <1>7, Zenon DEF SameRest, SameButCount
<1>9. Placed(e, k)
  <2>1. Base0(h) <= k
    <3>1. Base0(h) <= Base2(h) /\ Base0(h) \in Int /\ Base2(h) \in Int
      BY DEF Base0, Base2
    <3> HIDE DEF Base0, Base2
    <3> QED
      BY <3>1, <1>6
  <2> QED
    BY <2>1, <1>6, <1>8, PlacedAfter DEF Calm
<1>10. Quiet(e)
  <2>1. Quiet(r)
    <3>1. r.ip \subseteq d.ip /\ Quiet(d)
      BY <1>4 DEF Calm
    <3> QED
      BY <3>1, <1>1, QuietKept
  <2>2. e.ip \subseteq r.ip
    BY <1>4, <1>8
  <2> QED
    BY <2>1, <2>2, <1>7, QuietKept
<1>11. Calm(e, k)
  BY <1>8, <1>9, <1>10, Zenon DEF Calm
<1> QED
  BY <1>7, <1>8, <1>11, Zenon DEF e, r

(* The tick of COMPARE_INT.                                                *)
LEMMA NotNear ==
  ASSUME NEW d \in Device, NEW h \in Int, InOrder(d.q, d.count, h), h >= 2,
         ArmedAt(d.q, CompareEvent, d.compare)
  PROVE  ~Near(d)
<1> DEFINE n == d.count  m == d.compare
<1>0. /\ d.q \in Seq(Entry(EventTypes)) /\ DOMAIN d.q = 1 .. Len(d.q) /\ Len(d.q) \in Nat
      /\ n \in Int
  BY QueueTypes
<1>1. PICK o : Line(d.q, n, o) /\ Spaced(d.q, o) /\ o[1] = h /\ d.q # <<>>
  BY DEF InOrder
<1>2. PICK i \in 1 .. Len(d.q) : d.q[i].count = m /\ d.q[i].type = CompareEvent
  BY <1>0 DEF ArmedAt
<1>3. o[i] \in Int /\ o[1] <= o[i] /\ o[i] <= COUNT_MOD /\ m = Wrap(n + o[i])
  <2>1. o[i] \in Int
    BY <1>0, <1>1, LineTypes
  <2>2. 1 \in 1 .. Len(d.q) /\ 1 <= i
    BY <1>0, <1>2
  <2> HIDE DEF n, m
  <2>3. o[1] <= o[i] /\ m = Wrap(n + o[i])
    BY <2>2, <1>1, <1>2 DEF Line
  <2>4. o[i] <= COUNT_MOD
    BY <1>1, <1>2 DEF Spaced
  <2> QED
    BY <2>1, <2>3, <2>4
<1> DEFINE v == o[i]
<1>4. v \in Int /\ 2 <= v /\ v <= COUNT_MOD /\ m = Wrap(n + v)
  BY <1>1, <1>3
<1> HIDE DEF v, n, m
<1>5. Wrap(m - n) = Wrap(v)
  <2>1. n + v \in Int /\ -n \in Int /\ Wrap(n + v) \in Int
    BY <1>0, <1>4, WrapType, RangeType
  <2>2. Wrap(Wrap(n + v) + (-n)) = Wrap((n + v) + (-n)) /\ (n + v) + (-n) = v
    BY <2>1, <1>0, <1>4, WrapAgain
  <2>3. Wrap(n + v) + (-n) = Wrap(n + v) - n
    BY <2>1, <1>0
  <2> QED
    BY <2>2, <2>3, <1>4
<1>6. Wrap(v) # 1
  <2>1. CASE v = COUNT_MOD
    <3>1. v - COUNT_MOD = 0 /\ COUNT_MOD \in Int
      BY <2>1, RangeType
    <3>2. Wrap(v) = 0
      BY <2>1, <3>1, <1>4, WrapNear, RangeType
    <3> QED
      BY <3>2
  <2>2. CASE v # COUNT_MOD
    <3>1. 0 <= v /\ v < COUNT_MOD
      BY <2>2, <1>4, RangeType
    <3>2. Wrap(v) = v
      BY <3>1, <1>4, WrapNear
    <3> QED
      BY <3>2, <1>4
  <2> QED
    BY <2>1, <2>2
<1> QED
  BY <1>5, <1>6 DEF Near, n, m

(* A write of COMPARE.                                                     *)
LEMMA WriteCompareOrdered ==
  ASSUME Tuned, Good(dev), Ordered(dev), NEW n \in COMPARE_WRITES, WriteCompare(n),
         dev'.compare # dev.compare => ~Near(dev')
  PROVE  Ordered(dev') /\ Prompt(dev, dev')
<1> DEFINE armed == AddCompare(RemoveEvent(dev, CompareEvent), n)
           s == armed.ip \ {Timer}
           e == [armed EXCEPT !.compare = n, !.ip = s]
<1>0. /\ dev \in Device /\ ~dev.loading /\ dev.slot # "done" /\ Execute(e) /\ Fits(dev)
      /\ QueuedOnce(dev.q, CompareEvent) /\ QueuedOnce(dev.q, SpecialEvent)
      /\ ArmedAt(dev.q, CompareEvent, dev.compare) /\ n \in Counts
  <2>1. Execute(e)
    BY Zenon DEF WriteCompare
  <2>2. NoNMI
    BY DEF Tuned, NoNMI
  <2>3. n \in Counts
    BY InterruptAssumption
  <2> QED
    BY <2>1, <2>2, <2>3, Zenon DEF Good, Fits, Timers, Armed, Execute
<1>1. PICK h \in Int : Calm(dev, h) /\ dev.cycle = -h /\ -HALF < h
  BY <1>0, CalmBefore
<1>2. /\ Fits(RemoveEvent(dev, CompareEvent)) /\ SameRest(dev, RemoveEvent(dev, CompareEvent))
  BY <1>0, RemoveEventProps, Zenon
<1>3. Fits(armed) /\ SameRest(RemoveEvent(dev, CompareEvent), armed)
  BY <1>0, <1>2, AddCompareProps, Zenon
<1>4. armed.count = dev.count /\ armed.ip = dev.ip /\ armed \in Device
  BY <1>2, <1>3, Zenon DEF SameRest, SameButCount, Fits
<1>a. armed = AddCompare(RemoveEvent(dev, CompareEvent), n)
  OBVIOUS
<1> HIDE DEF armed
<1>5. s \in SUBSET IPs /\ s \subseteq armed.ip /\ Timer \notin s
  BY <1>4 DEF Device
<1> HIDE DEF s
<1>6. /\ e.compare = n /\ e.ip = s /\ e.q = armed.q /\ e.count = armed.count
      /\ e.cycle = armed.cycle /\ e.exl = armed.exl /\ e.skip = armed.skip
      /\ e.loading = armed.loading
  BY <1>4 DEF Device
<1>7. e \in Device
  BY <1>0, <1>4, <1>5 DEF Device
<1> HIDE DEF e
<1>8. dev'.compare = n /\ dev'.count = dev.count
  BY <1>0, <1>4, <1>6, <1>7 DEF Execute, Device
<1>9. h < 2 \/ Wrap(n - dev.count) # 1
  <2>1. CASE n = dev.compare
    <3>1. h >= 2 => ~Near(dev)
      BY <1>0, <1>1, NotNear DEF Calm, Placed
    <3> QED
      BY <2>1, <3>1 DEF Near
  <2>2. CASE n # dev.compare
    BY <2>2, <1>8 DEF Near
  <2> QED
    BY <2>1, <2>2
<1>10. PICK k \in Int : Calm(armed, k)
  BY <1>0, <1>1, <1>9, <1>a, CompareOrdered
<1>11. Calm(e, k)
  <2>1. Cart \notin e.ip
    BY <1>5, <1>6, <1>10 DEF Calm, Quiet
  <2> QED
    BY <2>1, <1>6, <1>10, Zenon DEF Calm, Placed, Quiet
<1>12. Ordered(dev') /\ dev'.ip = e.ip
  BY <1>0, <1>7, <1>11, CalmSettled, ExecuteOrdered
<1>13. Timer \in dev'.ip => Timer \in dev.ip
  BY <1>5, <1>6, <1>12
<1> QED
  BY <1>12, <1>13, Silent

(* A write of COUNT moves the events with it.                              *)
LEMMA TranslateOrdered ==
  ASSUME Tuned, NEW d, Good(d), NEW h \in Int, Calm(d, h), -HALF < h, d.cycle = -h,
         NEW base \in Counts, Wrap(d.compare - base) # 1
  PROVE  LET e == TranslateEventQueue(d, base)
         IN  (\E k \in Int : Calm(e, k)) /\ e.ip = d.ip /\ e.compare = d.compare /\ e.count = base
<1> DEFINE once == RemoveEvent(d, CompareEvent)
           rest == RemoveEvent(once, SpecialEvent)
           shifted == Shift(rest, d.count, base)
           special == AddSpecial(shifted)
           e == AddCompare(special, d.compare)
<1>0. /\ d \in Device /\ Fits(d) /\ d.count \in Counts /\ d.count \in Int /\ d.compare \in Counts
      /\ d.q \in Seq(Entry(EventTypes)) /\ Len(d.q) \in Nat /\ Len(d.q) <= POOL_CAPACITY
      /\ QueuedOnce(d.q, CompareEvent) /\ QueuedOnce(d.q, SpecialEvent) /\ base \in Int
  BY QueueTypes, RangeType DEF Good, Fits, Timers
<1>1. /\ Fits(once) /\ Len(once.q) = Len(d.q) - 1
      /\ QueuedOnce(once.q, SpecialEvent) /\ ~Queued(once.q, CompareEvent)
      /\ Kept(d, once, CheckEvent) /\ Kept(d, once, HW2Event)
      /\ SameRest(d, once) /\ once.cycle = d.cycle
  BY <1>0, OnceQueued, TimerTypes, RemoveEventProps, Zenon
     DEF Kept, CheckEvent, HW2Event, SpecialEvent, CompareEvent
<1>2. From(once.q, d.count, h)
  <2>1. From(d.q, d.count, h)
    BY <1>0, HeadFirst DEF Calm, Placed
  <2> QED
    BY <1>0, <2>1, RemovedFrom
<1> HIDE DEF once
<1>3. /\ Fits(rest) /\ Len(rest.q) = Len(once.q) - 1
      /\ ~Queued(rest.q, SpecialEvent) /\ ~Queued(rest.q, CompareEvent)
      /\ Kept(once, rest, CheckEvent) /\ Kept(once, rest, HW2Event)
      /\ SameRest(once, rest) /\ rest.cycle = once.cycle
  BY <1>1, OnceQueued, TimerTypes, RemoveEventProps, Zenon
     DEF Kept, CheckEvent, HW2Event, SpecialEvent, CompareEvent
<1>4. From(rest.q, d.count, h)
  BY <1>1, <1>2, RemovedFrom DEF Fits
<1> HIDE DEF rest
<1>5. SameRest(d, rest) /\ rest.cycle = -h /\ Len(rest.q) < POOL_CAPACITY /\ Len(rest.q) = Len(d.q) - 2
  <2>1. SameRest(d, rest)
    BY <1>1, <1>3, Zenon DEF SameRest, SameButCount
  <2>2. Len(rest.q) = (Len(d.q) - 1) - 1
    BY <1>1, <1>3
  <2> QED
    BY <2>1, <2>2, <1>0, <1>1, <1>3, PoolAssumption
<1>6. /\ Fits(shifted) /\ Len(shifted.q) = Len(rest.q) /\ SameButCount(rest, shifted)
      /\ shifted.count = base /\ shifted.cycle = rest.cycle
      /\ shifted.q = Moved(rest.q, d.count, base)
      /\ \A t : ~Queued(rest.q, t) => ~Queued(shifted.q, t)
  <2>1. Fits(rest) /\ d.count \in Counts
    BY <1>0, <1>3, Zenon
  <2>2. /\ Fits(shifted) /\ Len(shifted.q) = Len(rest.q) /\ SameButCount(rest, shifted)
        /\ shifted.count = base /\ shifted.cycle = rest.cycle
        /\ shifted.q = Moved(rest.q, d.count, base)
    BY <2>1, ShiftProps, Zenon
  <2>3. \A t : ~Queued(rest.q, t) => ~Queued(shifted.q, t)
    BY <2>1, ShiftProps, Zenon
  <2> QED
    BY <2>2, <2>3, Zenon
<1> HIDE DEF shifted
<1>7. From(shifted.q, base, h)
  <2>1. rest.q \in Seq(Entry(EventTypes))
    BY <1>3, QueueTypes DEF Fits
  <2>2. From([i \in DOMAIN rest.q |-> Event(rest.q[i].type, Wrap(rest.q[i].count - d.count + base))], base, h)
    BY <2>1, <1>0, <1>4, ShiftFrom
  <2> QED
    BY <2>2, <1>6, Zenon DEF Moved
<1>8. Quiet(rest)
  <2>1. Quiet(once)
    <3>1. Quiet(d) /\ once.ip \subseteq d.ip
      BY <1>1 DEF Calm, SameRest, SameButCount
    <3> QED
      BY <3>1, <1>1, QuietKept
  <2>2. rest.ip \subseteq once.ip
    BY <1>3 DEF SameRest, SameButCount
  <2> QED
    BY <2>1, <2>2, <1>3, QuietKept
<1>9. Quiet(shifted) /\ ~Queued(shifted.q, SpecialEvent) /\ ~Queued(shifted.q, CompareEvent)
  BY <1>3, <1>6, <1>8, Zenon DEF Quiet, SameButCount
<1>10. /\ shifted \in Device /\ shifted.q \in Seq(Entry(EventTypes))
       /\ DOMAIN shifted.q = 1 .. Len(shifted.q) /\ shifted.cycle = -h
       /\ Len(shifted.q) < POOL_CAPACITY /\ Len(shifted.q) \in Nat
  BY <1>5, <1>6, QueueTypes DEF Fits
<1>11. /\ Base0(h) \in Int /\ Base0(h) <= h /\ Base0(h) <= 0 /\ -HALF < Base0(h)
  BY HalfAssumption DEF Base0
<1>12. Between(shifted.q, base, Base0(h), Base0(h) + COUNT_MOD)
  <2>1. From(shifted.q, base, Base0(h))
    BY <1>7, <1>10, <1>11, FromLower
  <2>2. \A i \in 1 .. Len(shifted.q) : shifted.q[i].type # CompareEvent
    BY <1>9, <1>10, NotQueued
  <2> QED
    BY <2>1, <2>2, <1>10, <1>11, WindowWithoutCompare
<1>13. PICK v \in Int : 1 <= v /\ v <= HALF /\ SpecialCount(base) = Wrap(base + v)
  BY SpecialAhead
<1>14. Base0(h) <= v /\ v < Base0(h) + COUNT_MOD
  <2>1. HALF \in Int /\ HALF > 2 /\ COUNT_MOD = 2 * HALF
    BY HalfAssumption DEF COUNT_MOD
  <2> HIDE DEF Base0
  <2> QED
    BY <2>1, <1>11, <1>13
<1>15. /\ Fits(special) /\ Len(special.q) <= Len(shifted.q) + 1
       /\ QueuedOnce(special.q, SpecialEvent) /\ Kept(shifted, special, CompareEvent)
       /\ Kept(shifted, special, CheckEvent) /\ Kept(shifted, special, HW2Event)
       /\ SameRest(shifted, special)
  BY <1>6, <1>9, <1>10, AddSpecialProps, TimerTypes, Zenon
     DEF CheckEvent, HW2Event, SpecialEvent, CompareEvent
<1>16. Paced(special.q)
  BY <1>15, OnceQueued, QueuedPaces, TimerTypes DEF Fits
<1>17. PICK k \in Int : At(special, k) /\ Base0(h) <= k /\ k <= HALF
  <2>1. special = AddEventCount(shifted, SpecialEvent, Wrap(shifted.count + v))
    BY <1>6, <1>13 DEF AddSpecial
  <2>2. Paced(AddEventCount(shifted, SpecialEvent, Wrap(shifted.count + v)).q)
    BY <1>16, <2>1
  <2>3. Between(shifted.q, shifted.count, Base0(h), Base0(h) + COUNT_MOD)
    BY <1>6, <1>12
  <2>4. \E k \in Int : /\ At(AddEventCount(shifted, SpecialEvent, Wrap(shifted.count + v)), k)
                       /\ Base0(h) <= k /\ k <= HALF
    BY <2>2, <2>3, <1>6, <1>10, <1>13, <1>14, TimerTypes, AddPlaced
  <2> QED
    BY <2>1, <2>4
<1> HIDE DEF special
<1>18. /\ ~Queued(special.q, CompareEvent) /\ special.count = base /\ special.cycle = -k
       /\ special.exl = d.exl /\ special.skip = d.skip /\ special.loading = d.loading
       /\ special.ip = d.ip /\ special.compare = d.compare
  BY <1>5, <1>6, <1>9, <1>15, <1>17, Zenon DEF Kept, SameRest, SameButCount, At
<1>19. Len(special.q) < POOL_CAPACITY
  <2>1. Len(special.q) \in Nat
    BY <1>15, QueueTypes DEF Fits
  <2>2. Len(special.q) <= (Len(d.q) - 2) + 1
    BY <1>5, <1>6, <1>15
  <2> QED
    BY <2>1, <2>2, <1>0, PoolAssumption
<1>20. Base2(k) \in Int /\ Base2(k) <= k /\ Base0(h) <= Base2(k) /\ -HALF < k
  <2>1. Base2(k) \in Int /\ Base2(k) <= k /\ (Base2(k) = k \/ Base2(k) = 2)
    BY DEF Base2
  <2> HIDE DEF Base2, Base0
  <2>2. HALF \in Int
    BY HalfAssumption
  <2> QED
    BY <2>1, <2>2, <1>11, <1>17
<1>21. From(special.q, special.count, Base2(k))
  <2>1. special.q \in Seq(Entry(EventTypes))
    BY <1>15, QueueTypes DEF Fits
  <2>2. From(special.q, special.count, k)
    BY <2>1, <1>17, HeadFirst DEF At
  <2> HIDE DEF Base2
  <2> QED
    BY <2>1, <2>2, <1>20, FromLower
<1>22. PICK l \in Int : At(e, l) /\ Base2(k) <= l
  BY <1>0, <1>15, <1>18, <1>19, <1>20, <1>21, AddComparePlaced
<1>23. /\ Fits(e) /\ SameRest(special, e) /\ Kept(special, e, CheckEvent) /\ Kept(special, e, HW2Event)
  BY <1>0, <1>15, AddCompareProps, Zenon DEF CheckEvent, HW2Event, CompareEvent
<1> HIDE DEF e
<1>24. /\ e.count = base /\ e.exl = d.exl /\ e.skip = d.skip /\ e.loading = d.loading
       /\ e.ip = d.ip /\ e.compare = d.compare
  BY <1>18, <1>23, Zenon DEF SameRest, SameButCount
<1>25. Placed(e, l)
  <2>1. Base0(h) <= l
    <3> HIDE DEF Base0, Base2
    <3> QED
      BY <1>11, <1>20, <1>22
  <2> QED
    BY <2>1, <1>22, <1>24, PlacedAfter DEF Calm
<1>26. Quiet(e)
  <2>1. Quiet(special)
    <3>1. special.ip \subseteq shifted.ip
      BY <1>15 DEF SameRest, SameButCount
    <3> QED
      BY <3>1, <1>9, <1>15, QuietKept
  <2>2. e.ip \subseteq special.ip
    BY <1>18, <1>24
  <2> QED
    BY <2>1, <2>2, <1>23, QuietKept
<1>27. Calm(e, l)
  BY <1>24, <1>25, <1>26, Zenon DEF Calm
<1>28. TranslateEventQueue(d, base) = e
  BY Zenon DEF TranslateEventQueue, e, special, shifted, rest, once, Shift, Moved
<1> QED
  BY <1>24, <1>27, <1>28, Zenon

LEMMA TranslateRegisters ==
  ASSUME NEW d, Good(d), NEW base \in Counts
  PROVE  LET e == TranslateEventQueue(d, base) IN e.count = base /\ e.compare = d.compare
<1> DEFINE once == RemoveEvent(d, CompareEvent)
           rest == RemoveEvent(once, SpecialEvent)
           shifted == Shift(rest, d.count, base)
           special == AddSpecial(shifted)
           armed == AddCompare(special, d.compare)
<1>0. Fits(d) /\ d.count \in Counts /\ d.compare \in Counts
  BY DEF Good, Fits, Device
<1>1. Fits(once) /\ SameRest(d, once)
  BY <1>0, RemoveEventProps, Zenon
<1> HIDE DEF once
<1>2. Fits(rest) /\ SameRest(once, rest)
  BY <1>1, RemoveEventProps, Zenon
<1> HIDE DEF rest
<1>3. Fits(shifted) /\ SameButCount(rest, shifted) /\ shifted.count = base
  BY <1>0, <1>2, ShiftProps, Zenon
<1> HIDE DEF shifted
<1>4. Fits(special) /\ SameRest(shifted, special)
  <2>1. SpecialCount(shifted.count) \in Counts
    BY <1>3, SpecialCountType, Zenon
  <2> QED
    BY <1>3, <2>1, TimerTypes, AddEventCountProps, Zenon DEF AddSpecial
<1> HIDE DEF special
<1>5. SameRest(special, armed)
  BY <1>0, <1>4, AddCompareProps, Zenon
<1> HIDE DEF armed
<1>6. armed.count = base /\ armed.compare = d.compare
  BY <1>1, <1>2, <1>3, <1>4, <1>5, Zenon DEF SameRest, SameButCount
<1> QED
  BY <1>6, Zenon DEF TranslateEventQueue, armed, special, shifted, rest, once, Shift, Moved

LEMMA WriteCountOrdered ==
  ASSUME Tuned, Good(dev), Ordered(dev), Queued(dev.q, ViEvent),
         NEW n \in COUNT_WRITES, WriteCount(n), dev.slot = "no", ~Near(dev')
  PROVE  Ordered(dev') /\ Prompt(dev, dev')
<1> DEFINE c == R4300Unsafe(dev)
           g == GenIfDue(c)
           due == R4300Safe(g)
           e == TranslateEventQueue(due, n)
<1>0. /\ dev \in Device /\ ~dev.loading /\ dev.slot # "done" /\ dev.cycle <= MAX_LATE
      /\ Execute(e) /\ n \in Counts
  <2>1. Execute(e)
    BY Zenon DEF WriteCount
  <2>2. n \in Counts
    BY InterruptAssumption
  <2> QED
    BY <2>1, <2>2, Zenon DEF Good, Fits, Execute
<1>1. PICK h \in Int : Calm(dev, h) /\ dev.cycle = -h
  BY <1>0, CalmBefore
<1>2. /\ c.q = dev.q /\ c.count = dev.count /\ c.cycle = dev.cycle /\ c.compare = dev.compare
      /\ c.skip = dev.skip /\ c.slot = "no" /\ c.ip = dev.ip /\ c.exl = dev.exl
      /\ c.loading = dev.loading /\ c.unsafe # {}
  <2>1. SameButFlags(dev, c) /\ c.unsafe # {}
    BY <1>0, R4300Flags
  <2>2. dev.slot = "no"
    OBVIOUS
  <2> HIDE DEF c
  <2> QED
    BY <2>1, <2>2, Zenon DEF SameButFlags
<1>3. Good(c)
  BY UnsafeGood
<1> HIDE DEF c
<1>4. Turn(c, g)
  <2>1. Placed(c, h) /\ Quiet(c) /\ ~c.loading /\ ~c.skip
    BY <1>1, <1>2, Zenon DEF Calm, Placed, Quiet
  <2>2. Queued(c.q, ViEvent)
    BY <1>2
  <2> QED
    BY <1>3, <2>1, <2>2, GenTurn
<1>5. Good(g)
  BY <1>3, GenIfDueGood
<1> HIDE DEF g
<1>6. /\ ~g.loading /\ g.compare = dev.compare /\ g.slot = "no"
      /\ Order(g) /\ Quiet(g) /\ ~g.skip
  BY <1>2, <1>4, Zenon DEF Turn, Settled, Held
<1>7. PICK k \in Int : Placed(g, k)
  BY <1>6 DEF Order
<1>8. /\ due.q = g.q /\ due.count = g.count /\ due.cycle = g.cycle
      /\ due.compare = g.compare /\ due.skip = g.skip /\ due.ip = g.ip /\ due.exl = g.exl
      /\ due.loading = g.loading
  BY <1>5, R4300Flags DEF Good, Fits, SameButFlags
<1>9. Good(due)
  BY <1>5, UnsafeGood
<1> HIDE DEF due
<1>10. Calm(due, k) /\ due.cycle = -k /\ -HALF < k
  <2>1. Calm(due, k) /\ due.cycle = -k /\ -Late <= k
    BY <1>6, <1>7, <1>8, Zenon DEF Calm, Placed, Quiet
  <2> QED
    BY <2>1, LateBounds
<1>11. Good(e)
  BY <1>0, <1>9, TranslateGood
<1>12. dev'.count = e.count /\ dev'.compare = e.compare
  BY <1>0, <1>11 DEF Execute, Good, Fits, Device
<1>13. e.count = n /\ e.compare = due.compare
  BY <1>0, <1>9, <1>11, TranslateRegisters
<1>14. Wrap(due.compare - n) # 1
  BY <1>12, <1>13 DEF Near
<1>15. (\E l \in Int : Calm(e, l)) /\ e.ip = due.ip
  BY <1>0, <1>9, <1>10, <1>14, TranslateOrdered
<1> HIDE DEF e
<1>16. Settled(e)
  BY <1>15, CalmSettled
<1>17. Ordered(dev') /\ dev'.ip = e.ip
  BY <1>0, <1>11, <1>16, ExecuteOrdered DEF Good, Fits
<1>18. Timer \in dev'.ip => Timer \in dev.ip \/ Wrap(dev.count - dev.compare) = dev.cycle
  BY <1>2, <1>4, <1>8, <1>15, <1>17 DEF Turn, OnTime
<1>19. dev.cycle <= 2 * MAX_LATE + 3
  <2>1. dev.cycle \in Int /\ MAX_LATE \in Int /\ MAX_LATE >= 0
    BY <1>0, LateBounds, QueueTypes
  <2> QED
    BY <2>1, <1>0
<1>20. Prompt(dev, dev')
  BY <1>18, <1>19 DEF Prompt
<1> QED
  BY <1>17, <1>20

-----------------------------------------------------------------------------
(* The invariant of the order.                                             *)

OInv == HInv /\ Ordered(dev)

(* What a step of the timer line must be: the body of TimerOnTime.         *)
LEMMA PromptIsOnTime ==
  Prompt(dev, dev')
    => ((Timer \in dev'.ip \ dev.ip)
          => \E count \in {dev.count, dev'.count} :
               Wrap(count - dev.compare) <= 2 * MAX_LATE + 3)
  BY DEF Prompt

(* One step of a program that starts the VI first, stays away from COMPARE *)
(* and leaves a node in the pool.                                          *)
LEMMA OrderedSteps ==
  ASSUME Tuned, OInv, NodeLeft, Next, AwayFromCompare
  PROVE  Ordered(dev') /\ Prompt(dev, dev')
<1>0. /\ Good(dev) /\ Heard(dev) /\ Ordered(dev) /\ Len(dev.q) < POOL_CAPACITY
      /\ (dev.compare = dev.count => Len(dev'.q) <= Len(dev.q))
      /\ (dev'.compare # dev.compare => ~Near(dev'))
      /\ ((\E n \in COUNT_WRITES : WriteCount(n)) => dev.slot = "no" /\ ~Near(dev'))
  BY InvariantIsGood DEF OInv, HInv, NodeLeft, AwayFromCompare
<1>1. CASE StartVI
  <2>1. Execute(AddEvent(dev, ViEvent, VI_DELAY))
    BY <1>1 DEF StartVI
  <2>2. VI_DELAY \in Nat /\ VI_DELAY <= HALF
    BY InterruptAssumption DEF Tuned
  <2> DEFINE e == AddEvent(dev, ViEvent, VI_DELAY)
  <2>3. e \in Device
    BY <1>0, OtherTypes, InterruptAssumption, AddEventGood DEF Good, Fits, ViEvent, NMIEvent
  <2>4. SameButFlags(e, e)
    BY <2>3, Zenon DEF SameButFlags
  <2> QED
    BY <1>0, <2>1, <2>2, <2>4, ScheduleOrdered
<1>2. CASE Queued(dev.q, ViEvent)
  <2>1. ASSUME NEW n \in STEPS, Step(n) PROVE Ordered(dev') /\ Prompt(dev, dev')
    BY <1>0, <2>1, StepOrdered
  <2>2. ASSUME NEW n \in STEPS, IdleLoop(n) PROVE Ordered(dev') /\ Prompt(dev, dev')
    BY <1>0, <1>2, <2>2, IdleLoopOrdered
  <2>3. CASE JumpStart \/ JumpEnd
    BY <1>0, <1>2, <2>3, JumpOrdered
  <2>4. ASSUME NEW t \in DEVICES, NEW delay \in DELAYS, StartDevice(t, delay)
        PROVE  Ordered(dev') /\ Prompt(dev, dev')
    <3>1. delay \in Nat /\ delay <= HALF /\ t \in DEVICES \cup {ViEvent}
      BY InterruptAssumption DEF Tuned
    <3> DEFINE e == AddEvent(dev, t, delay)
    <3>2. PICK on \in BOOLEAN : Execute(TaskStarted(e, t, on))
      BY <2>4 DEF StartDevice
    <3>3. e \in Device
      BY <1>0, OtherTypes, InterruptAssumption, AddEventGood DEF Good, Fits
    <3>4. SameButFlags(e, TaskStarted(e, t, on))
      BY <3>3, TaskFlags
    <3> QED
      BY <1>0, <3>1, <3>2, <3>4, ScheduleOrdered
  <2>5. CANCELABLE = {} /\ SIGNALS = {}
    BY DEF Tuned
  <2>6. ASSUME NEW l \in Lines, ClearLine(l) PROVE Ordered(dev') /\ Prompt(dev, dev')
    BY <1>0, <2>6, ClearLineOrdered
  <2>7. ASSUME NEW m \in MASK_WRITES, WriteMask(m) PROVE Ordered(dev') /\ Prompt(dev, dev')
    BY <1>0, <1>2, <2>7, WriteMaskOrdered
  <2>8. ASSUME NEW n \in COUNT_WRITES, WriteCount(n) PROVE Ordered(dev') /\ Prompt(dev, dev')
    BY <1>0, <1>2, <2>8, WriteCountOrdered
  <2>9. ASSUME NEW n \in COMPARE_WRITES, WriteCompare(n) PROVE Ordered(dev') /\ Prompt(dev, dev')
    BY <1>0, <2>9, WriteCompareOrdered
  <2>10. ASSUME NEW ie \in BOOLEAN, NEW exl \in BOOLEAN, NEW im \in IM_WRITES,
                WriteStatus(ie, exl, im)
         PROVE  Ordered(dev') /\ Prompt(dev, dev')
    BY <1>0, <1>2, <2>10, WriteStatusOrdered
  <2>11. CASE Eret
    BY <1>0, <1>2, <2>11, EretOrdered
  <2>12. CASE Trap
    BY <1>0, <2>12, TrapOrdered
  <2>13. ASSUME NEW j \in JOBS, Request(j) PROVE Ordered(dev') /\ Prompt(dev, dev')
    BY <1>0, <2>13, RequestOrdered
  <2>14. ASSUME NEW t \in TASKS, RunTask PROVE Ordered(dev') /\ Prompt(dev, dev')
    BY <1>0, <2>14, RunTaskOrdered
  <2> QED
    BY <1>1, <2>1, <2>2, <2>3, <2>4, <2>5, <2>6, <2>7, <2>8, <2>9, <2>10, <2>11, <2>12, <2>13, <2>14,
       Zenon DEF Next
<1> QED
  BY <1>1, <1>2 DEF AwayFromCompare

(* The invariant and the timeliness of the timer line, step by step.       *)
LEMMA NextOrdered ==
  ASSUME Tuned, OInv, NodeLeft, [Next]_dev, [AwayFromCompare]_dev
  PROVE  OInv' /\ Prompt(dev, dev')
<1>1. HInv'
  <2>1. Short
    <3>1. \A n \in STEPS : MAX_LATE + n < HALF
      <4> TAKE n \in STEPS
      <4>1. n \in Int /\ MAX_LATE + n < Late /\ Late < HALF /\ Late \in Int /\ MAX_LATE \in Int /\ HALF \in Int
        BY LateBounds
      <4> QED
        BY <4>1
    <3> QED
      BY <3>1 DEF Short
  <2> QED
    BY <2>1, NextHeard DEF OInv
<1>2. Ordered(dev') /\ Prompt(dev, dev')
  <2>1. CASE UNCHANGED dev
    <3>1. dev' = dev /\ Ordered(dev)
      BY <2>1 DEF OInv
    <3> QED
      BY <3>1, Silent
  <2>2. CASE Next /\ AwayFromCompare
    BY <2>2, OrderedSteps
  <2> QED
    BY <2>1, <2>2
<1> QED
  BY <1>1, <1>2, Zenon DEF OInv, Ordered, Settled, Shown, Sorted, LateBy, Order, Placed, Quiet, Held

(* A device just powered on is in order.                                   *)
LEMMA InitOrdered ==
  ASSUME Tuned, Init
  PROVE  OInv
<1>1. HInv
  <2>1. Heard(PowerOn)
    BY PowerOnMasks DEF Heard, Waiting
  <2> QED
    BY <2>1, InitGood DEF HInv, Init
<1>2. PICK h \in Int : InOrder(PowerOn.q, PowerOn.count, h) /\ 0 <= h /\ PowerOn.cycle = -h
  BY PowerOnPlaced
<1>3. -Late <= h /\ -Late < h
  BY <1>2, LateBounds
<1>4. /\ PowerOn.skip = FALSE /\ PowerOn.loading = FALSE /\ PowerOn.ip = {}
      /\ ~Queued(PowerOn.q, CheckEvent) /\ ~Queued(PowerOn.q, HW2Event)
  BY PowerOnPlaced
<1>5. Calm(PowerOn, h)
  BY <1>2, <1>3, <1>4, Zenon DEF Calm, Placed, Quiet
<1>6. Ordered(PowerOn)
  BY <1>4, <1>5, CalmSettled, Zenon DEF Ordered
<1> QED
  BY <1>1, <1>6 DEF OInv, Init

(* What holds of a device in order.                                        *)
LEMMA OrderedShows ==
  ASSUME Tuned, OInv
  PROVE  CycleTracksHead /\ HeadWithinHalf /\ DevicesInOrder
<1>1. Good(dev) /\ Settled(dev)
  BY InvariantIsGood DEF OInv, HInv, Ordered
<1>2. Shown(dev)
  <2>1. CASE dev.loading
    BY <1>1, <2>1 DEF Settled
  <2>2. CASE ~dev.loading
    <3>1. PICK h \in Int : Placed(dev, h)
      BY <1>1, <2>2 DEF Settled, Order
    <3> QED
      BY <1>1, <3>1, OrderShows
  <2> QED
    BY <2>1, <2>2
<1> QED
  BY <1>2, ShownIsShown

(* Every program that runs so keeps the invariant.                         *)
LEMMA OrderInvariance ==
  ASSUME Tuned
  PROVE  Spec /\ []NodeLeft /\ [][AwayFromCompare]_dev => []OInv
<1>1. Init => OInv
  BY InitOrdered
<1>2. OInv /\ NodeLeft /\ [Next]_dev /\ [AwayFromCompare]_dev => OInv'
  BY NextOrdered
<1> QED
  BY <1>1, <1>2, PTL DEF Spec

(* cycle_count is minus the ticks left until the head of the queue, but    *)
(* for the pause between an exception in a delay slot and the end of its   *)
(* jump: add_interrupt_event, remove_interrupt_event, the handlers and the *)
(* writes of COUNT, COMPARE and STATUS keep the two together.              *)
THEOREM CycleCountIsHead ==
  Tuned => (Spec /\ []NodeLeft /\ [][AwayFromCompare]_dev => []CycleTracksHead)
<1> SUFFICES ASSUME Tuned
             PROVE  Spec /\ []NodeLeft /\ [][AwayFromCompare]_dev => []CycleTracksHead
  OBVIOUS
<1>1. OInv => CycleTracksHead
  BY OrderedShows
<1> QED
  BY <1>1, OrderInvariance, PTL

(* The head of the queue is never more than half the range of COUNT away,  *)
(* so that the signed cycle_count cannot take a far event for a late one:  *)
(* what special_int_handler is there for.                                  *)
THEOREM HeadNeverFar ==
  Tuned => (Spec /\ []NodeLeft /\ [][AwayFromCompare]_dev => []HeadWithinHalf)
<1> SUFFICES ASSUME Tuned
             PROVE  Spec /\ []NodeLeft /\ [][AwayFromCompare]_dev => []HeadWithinHalf
  OBVIOUS
<1>1. OInv => HeadWithinHalf
  BY OrderedShows
<1> QED
  BY <1>1, OrderInvariance, PTL

(* The events of the devices and of the VI leave the queue in the order of *)
(* their counts, although before_event compares them modulo the range of   *)
(* COUNT and from a base that moves with cycle_count.                      *)
THEOREM EventsLeaveInOrder ==
  Tuned => (Spec /\ []NodeLeft /\ [][AwayFromCompare]_dev => []DevicesInOrder)
<1> SUFFICES ASSUME Tuned
             PROVE  Spec /\ []NodeLeft /\ [][AwayFromCompare]_dev => []DevicesInOrder
  OBVIOUS
<1>1. OInv => DevicesInOrder
  BY OrderedShows
<1> QED
  BY <1>1, OrderInvariance, PTL

(* The timer line rises when COUNT has just reached COMPARE, never early   *)
(* and never a turn of COUNT late.                                         *)
THEOREM TimerRisesOnTime ==
  Tuned => (Spec /\ []NodeLeft /\ [][AwayFromCompare]_dev => TimerOnTime)
<1> SUFFICES ASSUME Tuned
             PROVE  Spec /\ []NodeLeft /\ [][AwayFromCompare]_dev => TimerOnTime
  OBVIOUS
<1>1. OInv /\ NodeLeft /\ [Next]_dev /\ [AwayFromCompare]_dev
        => [(Timer \in dev'.ip \ dev.ip)
              => \E count \in {dev.count, dev'.count} :
                   Wrap(count - dev.compare) <= 2 * MAX_LATE + 3]_dev
  BY NextOrdered, PromptIsOnTime
<1> QED
  BY <1>1, OrderInvariance, PTL DEF TimerOnTime, Spec

=============================================================================
