----------------------- MODULE SignalProcessor_proofs -----------------------
(***************************************************************************)
(* Proofs about SignalProcessor: of programs that keep to PATIENT and      *)
(* QUIET and, where savestates wait for the RDP, CPU_UNFREEZES.            *)
(***************************************************************************)
EXTENDS SignalProcessor, TLAPS

Pending(s) == s.wait \cap PendingSp # {}

(* An SP_INT is queued exactly while the RSP waits for one, for one reason.*)
SpServed(s) ==
  /\ ~({"SP_INT", "SP_INT_BROKE"} \subseteq s.wait)
  /\ Pending(s) <=> s.queue["SP_INT"] = 1
  /\ ~Pending(s) <=> s.queue["SP_INT"] = 0

(* The interrupt of the RDP is noted and the RDP is frozen; that it is can *)
(* only be said where the CPU ends such a freeze.                          *)
Noted(s) == s.delayed /\ (CPU_UNFREEZES => s.freeze)

(* An RSP that waits for the RDP does not run and ends no freeze.          *)
DpServed(s) ==
  /\ "DP_SYNC" \in s.wait \/ "RDP" \in s.unsafe => s.queue["DP_INT"] > 0 \/ Noted(s)
  /\ "DP_SYNC" \in s.wait => s.queue["DP_INT"] > 0 \/ (s.delayed /\ s.freeze)

(* The RSP waits to be started when it is halted, and when it has ended a  *)
(* task whose interrupt is on its way: then only the hidden status says    *)
(* so.                                                                     *)
HaltSeen(s) ==
  /\ "HALT" \in s.status => "HALTED" \in s.wait
  /\ "HALTED" \in s.wait /\ "HALT" \notin s.status => "SP_INT_BROKE" \in s.wait
  /\ Pending(s) => ("HALT" \in s.saved <=> "HALTED" \in s.wait)
  /\ "SP_INT_BROKE" \in s.wait => "HALT" \in s.saved

BrokeSeen(s) ==
  /\ "BROKE" \in s.status => "HALT" \in s.status /\ ~Pending(s)
  /\ "BROKE" \in s.saved => "HALT" \in s.saved

(* What holds whenever do_SP_Task is called, and after it.                 *)
Served(s) ==
  /\ s \in RcpStates
  /\ s.queue["RSP_TSK_EVT"] \in {0, 1}
  /\ SpServed(s) /\ DpServed(s) /\ HaltSeen(s) /\ BrokeSeen(s)

Waiting(s) == s.wait = {} => s.queue["RSP_TSK_EVT"] = 1

RspInv == Served(rcp) /\ Waiting(rcp)

-----------------------------------------------------------------------------
(* Lemmas about do_SP_Task.                                                *)

(* What the plugin leaves of an RSP that was running.                      *)
LEMMA Cycles ==
  ASSUME NEW s \in RcpStates, "HALT" \notin s.status, NEW x \in DoRspCycles(s)
  PROVE  /\ x.status \subseteq StatusBits /\ x.line \subseteq {"SP", "DP"}
         /\ x.freeze \in BOOLEAN
         /\ s.delayed /\ s.freeze /\ CPU_UNFREEZES => x.freeze
         /\ "BROKE" \in x.status => "BROKE" \in s.status \/ "HALT" \in x.status
         /\ "BROKE" \in x.status /\ "BROKE" \notin s.status => "SP" \notin x.line \ s.line
<1>1. PICK y \in Runs(s), f \in Freezes(s) : x = Left(y, f)
  BY DEF DoRspCycles
<1>2. PICK u \in OnTheWay(s.status), line \in {s.line, s.line \ {"SP"}} : y \in Exits(u, line)
  BY DEF Runs
<1>3. x.status = y.status /\ x.line = y.line /\ x.freeze = f
  BY <1>1 DEF Left
<1>4. s.status \subseteq StatusBits /\ s.line \subseteq {"SP", "DP"}
  BY DEF RcpStates
<1>5. u \subseteq StatusBits /\ ("BROKE" \in u => "BROKE" \in s.status)
  BY DEF OnTheWay
<1>6. /\ y.status \subseteq StatusBits /\ y.line \subseteq {"SP", "DP"}
      /\ "BROKE" \in y.status => "BROKE" \in s.status \/ "HALT" \in y.status
      /\ "BROKE" \in y.status /\ "BROKE" \notin s.status => "SP" \notin y.line \ s.line
  <2>1. y.status \subseteq StatusBits /\ y.line \subseteq {"SP", "DP"}
    BY DEF Runs
  <2>2. y.status \in {u, u \cup {"HALT"}, u \cup {"HALT", "BROKE"}}
    BY <1>2 DEF Exits
  <2>3. "BROKE" \in y.status => "BROKE" \in u \/ "HALT" \in y.status
    BY <2>2
  <2>4. "BROKE" \in y.status => "BROKE" \in u \/ y.line = line
    BY <1>2 DEF Exits
  <2>5. "SP" \in line => "SP" \in s.line
    OBVIOUS
  <2>6. QED
    BY <1>5, <2>1, <2>3, <2>4, <2>5
<1>7. f \in BOOLEAN
  BY Zenon DEF Freezes
<1>8. s.delayed /\ s.freeze /\ CPU_UNFREEZES => f
  BY Zenon DEF Freezes
<1>9. x.freeze \in BOOLEAN /\ (s.delayed /\ s.freeze /\ CPU_UNFREEZES => x.freeze)
  BY <1>3, <1>7, <1>8, Zenon
<1>10. QED
  BY <1>3, <1>6, <1>9

LEMMA EndedFields ==
  ASSUME NEW s \in RcpStates, NEW x
  PROVE  /\ DOMAIN Ended(s, x) = DOMAIN s
         /\ Ended(s, x).status = Shown(s, x)
         /\ Ended(s, x).saved = x.status
         /\ Ended(s, x).wait = WaitsFor(s, x)
         /\ Ended(s, x).first = ("HALT" \in x.status)
         /\ Ended(s, x).queue =
              [e \in Events |-> IF e \in Queued(s, x) THEN s.queue[e] + 1 ELSE s.queue[e]]
         /\ Ended(s, x).line = x.line \cap s.line
         /\ Ended(s, x).unsafe = s.unsafe \cup {"RSP"} \cup When(Sync(s, x), "RDP")
         /\ Ended(s, x).freeze = x.freeze
         /\ Ended(s, x).delayed = (s.delayed \/ (Sync(s, x) /\ x.freeze))
BY DEF Ended, RcpStates

LEMMA EndedTyped ==
  ASSUME NEW s \in RcpStates, NEW x,
         Shown(s, x) \subseteq StatusBits, x.status \subseteq StatusBits,
         WaitsFor(s, x) \subseteq Waits, x.line \subseteq {"SP", "DP"}, x.freeze \in BOOLEAN
  PROVE  Ended(s, x) \in RcpStates
<1>1. [e \in Events |-> IF e \in Queued(s, x) THEN s.queue[e] + 1 ELSE s.queue[e]]
        \in [Events -> Nat]
  BY DEF RcpStates
<1>2. s.unsafe \cup {"RSP"} \cup When(Sync(s, x), "RDP") \in SUBSET {"RSP", "RDP"}
  BY DEF RcpStates, When
<1>3. x.line \cap s.line \in SUBSET {"SP", "DP"}
  OBVIOUS
<1>4. Shown(s, x) \in SUBSET StatusBits /\ x.status \in SUBSET StatusBits
      /\ WaitsFor(s, x) \in SUBSET Waits
  OBVIOUS
<1>5. ("HALT" \in x.status) \in BOOLEAN /\ (s.delayed \/ (Sync(s, x) /\ x.freeze)) \in BOOLEAN
  BY SMT
<1>6. QED
  BY <1>1, <1>2, <1>3, <1>4, <1>5, ZenonT(60) DEF Ended, RcpStates

LEMMA WaitsForFields ==
  ASSUME NEW s, NEW x
  PROVE  /\ WaitsFor(s, x) \subseteq Waits
         /\ "HALTED" \in WaitsFor(s, x) <=> "HALT" \in x.status
         /\ "DP_SYNC" \in WaitsFor(s, x) <=> Sync(s, x)
         /\ "SP_INT_BROKE" \in WaitsFor(s, x) <=> Broke(x)
         /\ "SP_INT" \in WaitsFor(s, x) <=> Irq(s, x)
BY DEF WaitsFor, When, Waits

LEMMA QueuedFields ==
  ASSUME NEW s, NEW x
  PROVE  /\ "RSP_TSK_EVT" \in Queued(s, x) <=> "HALT" \notin x.status
         /\ "DP_INT" \in Queued(s, x) <=> Sync(s, x) /\ ~x.freeze
         /\ "SP_INT" \in Queued(s, x) <=> Broke(x) \/ Irq(s, x)
BY Zenon DEF Queued, When

(* The part of a run of the RSP: the events it queues are those it waits   *)
(* for.                                                                    *)
LEMMA EndedServed ==
  ASSUME NEW s, Served(s), s.wait = {}, s.queue["RSP_TSK_EVT"] = 0, NEW x \in DoRspCycles(s)
  PROVE  Served(Ended(s, x)) /\ Waiting(Ended(s, x))
<1> DEFINE t == Ended(s, x)
<1>1. s \in RcpStates /\ "HALT" \notin s.status /\ "BROKE" \notin s.status /\ ~Pending(s)
  BY DEF Served, HaltSeen, BrokeSeen, Pending
<1>2. /\ s.queue \in [Events -> Nat] /\ s.queue["SP_INT"] = 0
      /\ s.status \subseteq StatusBits /\ s.unsafe \subseteq {"RSP", "RDP"}
      /\ s.line \subseteq {"SP", "DP"} /\ s.delayed \in BOOLEAN
  BY <1>1 DEF Served, SpServed, RcpStates
<1>3. /\ x.status \subseteq StatusBits /\ x.line \subseteq {"SP", "DP"} /\ x.freeze \in BOOLEAN
      /\ "BROKE" \in x.status => "HALT" \in x.status /\ "SP" \notin x.line \ s.line
  BY <1>1, Cycles
<1>4. /\ t.status = Shown(s, x) /\ t.saved = x.status /\ t.wait = WaitsFor(s, x)
      /\ t.first = ("HALT" \in x.status)
      /\ t.queue = [e \in Events |-> IF e \in Queued(s, x) THEN s.queue[e] + 1 ELSE s.queue[e]]
      /\ t.line = x.line \cap s.line
      /\ t.unsafe = s.unsafe \cup {"RSP"} \cup When(Sync(s, x), "RDP")
      /\ t.freeze = x.freeze /\ t.delayed = (s.delayed \/ (Sync(s, x) /\ x.freeze))
  BY <1>1, EndedFields
<1>5. /\ t.wait \subseteq Waits
      /\ "HALTED" \in t.wait <=> "HALT" \in x.status
      /\ "DP_SYNC" \in t.wait <=> Sync(s, x)
      /\ "SP_INT_BROKE" \in t.wait <=> Broke(x)
      /\ "SP_INT" \in t.wait <=> Irq(s, x)
  BY <1>4, WaitsForFields
<1>6. t.queue["RSP_TSK_EVT"] = IF "HALT" \notin x.status THEN 1 ELSE 0
  BY <1>2, <1>4, QueuedFields DEF Events
<1>7. t.queue["SP_INT"] = IF Broke(x) \/ Irq(s, x) THEN 1 ELSE 0
  <2>1. t.queue["SP_INT"] = IF "SP_INT" \in Queued(s, x) THEN 1 ELSE 0
    BY <1>2, <1>4 DEF Events
  <2>2. QED
    BY <2>1, QueuedFields
<1>8. t.queue["DP_INT"] = IF "DP_INT" \in Queued(s, x) THEN s.queue["DP_INT"] + 1
                          ELSE s.queue["DP_INT"]
  BY <1>4 DEF Events
<1>9. t \in RcpStates
  <2>1. Shown(s, x) \subseteq StatusBits
    BY <1>2, <1>3 DEF Shown
  <2>2. QED
    BY <1>1, <1>3, <2>1, WaitsForFields, EndedTyped
<1> HIDE DEF t
<1>10. Pending(t) <=> Broke(x) \/ Irq(s, x)
  BY <1>5 DEF Pending, PendingSp
<1>11. SpServed(t)
  BY <1>5, <1>7, <1>10 DEF SpServed, Irq
<1>12. DpServed(t)
  <2>1. CASE Sync(s, x) /\ x.freeze
    BY <1>4, <2>1, Zenon DEF DpServed, Noted
  <2>2. CASE Sync(s, x) /\ ~x.freeze
    <3>1. "DP_INT" \in Queued(s, x)
      BY <2>2, QueuedFields, Zenon
    <3>2. s.queue["DP_INT"] \in Nat
      BY <1>2 DEF Events
    <3>3. QED
      BY <1>8, <3>1, <3>2 DEF DpServed
  <2>3. CASE ~Sync(s, x)
    <3>1. "DP_SYNC" \notin t.wait /\ ("RDP" \in t.unsafe => "RDP" \in s.unsafe)
      BY <1>4, <1>5, <2>3 DEF When
    <3>2. Noted(s) => Noted(t)
      <4>1. s.delayed /\ s.freeze /\ CPU_UNFREEZES => x.freeze
        BY <1>1, Cycles, Zenon
      <4>2. QED
        BY <1>4, <4>1, Zenon DEF Noted
    <3>3. t.queue["DP_INT"] = s.queue["DP_INT"]
      <4>1. "DP_INT" \notin Queued(s, x)
        BY <2>3, QueuedFields, Zenon
      <4>2. QED
        BY <1>8, <4>1
    <3>4. QED
      BY <3>1, <3>2, <3>3, Zenon DEF Served, DpServed, Noted
  <2>4. QED
    BY <2>1, <2>2, <2>3, Zenon
<1>13. /\ Broke(x) => t.status = s.status /\ "HALT" \in x.status
       /\ ~Broke(x) => t.status = x.status
  BY <1>3, <1>4 DEF Shown, Broke
<1>14. HaltSeen(t)
  BY <1>1, <1>3, <1>4, <1>5, <1>10, <1>13 DEF HaltSeen
<1>15. BrokeSeen(t)
  <2>1. "BROKE" \in x.status => ~Irq(s, x)
    BY <1>3 DEF Irq
  <2>2. QED
    BY <1>1, <1>3, <1>4, <1>10, <1>13, <2>1 DEF BrokeSeen
<1>16. Waiting(t)
  BY <1>5, <1>6 DEF Waiting
<1>17. QED
  BY <1>6, <1>9, <1>11, <1>12, <1>14, <1>15, <1>16 DEF Served, t

LEMMA DoSpTaskServed ==
  ASSUME NEW s, Served(s), NEW t \in DoSpTask(s)
  PROVE  Served(t) /\ Waiting(t)
<1>1. CASE s.wait # {} \/ s.queue["RSP_TSK_EVT"] > 0
  BY <1>1 DEF DoSpTask, Served, Waiting
<1>2. CASE ~(s.wait # {} \/ s.queue["RSP_TSK_EVT"] > 0)
  <2>1. s.queue["RSP_TSK_EVT"] = 0 /\ s.wait = {}
    BY <1>2 DEF Served
  <2>2. PICK x \in DoRspCycles(s) : t = Ended(s, x)
    BY <1>2 DEF DoSpTask
  <2>3. QED
    BY <2>1, <2>2, EndedServed
<1>3. QED
  BY <1>1, <1>2

(* A run of the RSP with the DP line set is not one the RDP keeps waiting. *)
LEMMA DoSpTaskNoSync ==
  ASSUME NEW s \in RcpStates, "DP" \in s.line, "DP_SYNC" \notin s.wait, "RDP" \notin s.unsafe,
         NEW t \in DoSpTask(s)
  PROVE  "DP_SYNC" \notin t.wait /\ "RDP" \notin t.unsafe
<1>1. CASE t = s
  BY <1>1
<1>2. CASE \E x \in DoRspCycles(s) : t = Ended(s, x)
  <2>1. PICK x \in DoRspCycles(s) : t = Ended(s, x)
    BY <1>2
  <2>2. ~Sync(s, x)
    BY DEF Sync
  <2>3. t.wait = WaitsFor(s, x) /\ t.unsafe = s.unsafe \cup {"RSP"} \cup When(Sync(s, x), "RDP")
    BY <2>1, EndedFields
  <2>4. QED
    BY <2>2, <2>3, WaitsForFields DEF When
<1>3. QED
  BY <1>1, <1>2 DEF DoSpTask

(* A task has ended with an interrupt, and the program can see it. That    *)
(* do_SP_Task itself never shows.                                          *)
EndSeen(s) == {"BROKE", "INTR_BREAK"} \subseteq s.status

LEMMA DoSpTaskHidesEnd ==
  ASSUME NEW s, Served(s), NEW t \in DoSpTask(s), EndSeen(t)
  PROVE  t = s
<1> SUFFICES ASSUME t # s PROVE FALSE
  OBVIOUS
<1>1. s \in RcpStates
  BY DEF Served
<1>2. PICK x \in DoRspCycles(s) : t = Ended(s, x) /\ s.wait = {}
  BY DEF DoSpTask
<1>3. "BROKE" \notin s.status
  BY <1>2 DEF Served, HaltSeen, BrokeSeen
<1>4. t.status = Shown(s, x)
  BY <1>1, <1>2, EndedFields
<1>5. QED
  BY <1>3, <1>4 DEF Shown, Broke, EndSeen

-----------------------------------------------------------------------------
(* The handlers of the events.                                             *)

LEMMA DequeueFields ==
  ASSUME NEW q \in [Events -> Nat], NEW e \in Events
  PROVE  /\ Dequeue(q, e) \in [Events -> Nat]
         /\ Dequeue(q, e)[e] = IF q[e] = 0 THEN 0 ELSE q[e] - 1
         /\ \A d \in Events \ {e} : Dequeue(q, e)[d] = q[d]
BY DEF Dequeue

LEMMA StateFields ==
  ASSUME NEW s \in RcpStates
  PROVE  /\ s.status \in SUBSET StatusBits /\ s.saved \in SUBSET StatusBits
         /\ s.wait \in SUBSET Waits /\ s.queue \in [Events -> Nat]
         /\ s.line \in SUBSET {"SP", "DP"} /\ s.unsafe \in SUBSET {"RSP", "RDP"}
BY DEF RcpStates

LEMMA RspInterruptServed ==
  ASSUME RspInv, RspInterruptEvent
  PROVE  \E t : Served(t) /\ rcp' \in DoSpTask(t) /\ "SP" \in t.line
<1> DEFINE s == [rcp EXCEPT !.queue = Dequeue(@, "SP_INT"), !.status = rcp.saved, !.saved = {},
                            !.unsafe = @ \ {"RSP"}, !.line = @ \cup {"SP"}]
           t == [s EXCEPT !.wait = @ \ PendingSp]
<1>1. rcp \in RcpStates /\ rcp.queue["SP_INT"] = 1
  BY DEF RspInv, Served, SpServed, RspInterruptEvent
<1>2. /\ Dequeue(rcp.queue, "SP_INT") \in [Events -> Nat]
      /\ Dequeue(rcp.queue, "SP_INT")["SP_INT"] = 0
      /\ Dequeue(rcp.queue, "SP_INT")["DP_INT"] = rcp.queue["DP_INT"]
      /\ Dequeue(rcp.queue, "SP_INT")["RSP_TSK_EVT"] = rcp.queue["RSP_TSK_EVT"]
  <2>1. rcp.queue \in [Events -> Nat]
    BY <1>1, StateFields
  <2>2. QED
    BY <1>1, <2>1 DEF Dequeue, Events
<1>3. s \in RcpStates
  <2>1. rcp.saved \in SUBSET StatusBits /\ {} \in SUBSET StatusBits
        /\ rcp.unsafe \ {"RSP"} \in SUBSET {"RSP", "RDP"}
        /\ rcp.line \cup {"SP"} \in SUBSET {"SP", "DP"}
    BY <1>1, StateFields
  <2>2. QED
    BY <1>1, <1>2, <2>1, Zenon DEF RcpStates
<1>4. t \in RcpStates
  <2>1. s.wait \ PendingSp \in SUBSET Waits
    BY <1>3, StateFields
  <2> HIDE DEF s
  <2>2. QED
    BY <1>3, <2>1, Zenon DEF RcpStates
<1>5. /\ t.status = rcp.saved /\ t.saved = {} /\ t.wait = rcp.wait \ PendingSp
      /\ t.queue = Dequeue(rcp.queue, "SP_INT") /\ t.unsafe = rcp.unsafe \ {"RSP"}
      /\ t.delayed = rcp.delayed /\ t.freeze = rcp.freeze /\ t.line = rcp.line \cup {"SP"}
  BY <1>1 DEF RcpStates
<1> HIDE DEF t
<1>6. SpServed(t) /\ HaltSeen(t) /\ BrokeSeen(t)
  BY <1>1, <1>2, <1>5 DEF RspInv, Served, SpServed, HaltSeen, BrokeSeen, Pending, PendingSp
<1>7. DpServed(t)
  <2>1. ("DP_SYNC" \in t.wait \/ "RDP" \in t.unsafe)
           => ("DP_SYNC" \in rcp.wait \/ "RDP" \in rcp.unsafe)
    BY <1>5
  <2>2. t.queue["DP_INT"] = rcp.queue["DP_INT"]
    BY <1>2, <1>5
  <2>3. QED
    BY <1>5, <2>1, <2>2, Zenon DEF RspInv, Served, DpServed, Noted
<1>8. Served(t)
  BY <1>2, <1>4, <1>5, <1>6, <1>7 DEF Served, RspInv
<1>9. rcp' \in DoSpTask(t)
  BY DEF RspInterruptEvent, ClearRspWait, t
<1>10. QED
  BY <1>5, <1>8, <1>9

LEMMA RspTaskServed ==
  ASSUME RspInv, RspTaskEvent
  PROVE  \E t : Served(t) /\ rcp' \in DoSpTask(t) /\ t.status = rcp.status
<1> DEFINE t == [rcp EXCEPT !.queue = Dequeue(@, "RSP_TSK_EVT")]
<1>1. rcp \in RcpStates /\ rcp.queue["RSP_TSK_EVT"] = 1 /\ rcp.queue \in [Events -> Nat]
  BY DEF RspInv, Served, RspTaskEvent, RcpStates
<1>2. /\ Dequeue(rcp.queue, "RSP_TSK_EVT") \in [Events -> Nat]
      /\ Dequeue(rcp.queue, "RSP_TSK_EVT")["RSP_TSK_EVT"] = 0
      /\ Dequeue(rcp.queue, "RSP_TSK_EVT")["DP_INT"] = rcp.queue["DP_INT"]
      /\ Dequeue(rcp.queue, "RSP_TSK_EVT")["SP_INT"] = rcp.queue["SP_INT"]
  BY <1>1 DEF Dequeue, Events
<1>3. t \in RcpStates
  BY <1>1, <1>2, Zenon DEF RcpStates
<1>4. /\ t.status = rcp.status /\ t.saved = rcp.saved /\ t.wait = rcp.wait
      /\ t.queue = Dequeue(rcp.queue, "RSP_TSK_EVT") /\ t.unsafe = rcp.unsafe
      /\ t.delayed = rcp.delayed /\ t.freeze = rcp.freeze
  BY <1>1 DEF RcpStates
<1> HIDE DEF t
<1>5. SpServed(t) /\ HaltSeen(t) /\ BrokeSeen(t)
  BY <1>2, <1>4 DEF RspInv, Served, SpServed, HaltSeen, BrokeSeen, Pending
<1>6. DpServed(t)
  BY <1>2, <1>4, Zenon DEF RspInv, Served, DpServed, Noted
<1>7. Served(t)
  BY <1>2, <1>3, <1>4, <1>5, <1>6 DEF Served
<1>8. rcp' \in DoSpTask(t)
  BY DEF RspTaskEvent, t
<1>9. QED
  BY <1>4, <1>7, <1>8

(* The interrupt of the RDP: by its event, or at the end of a freeze.      *)
LEMMA RdpServed ==
  ASSUME NEW s, Served(s), NEW q \in [Events -> Nat],
         q["SP_INT"] = s.queue["SP_INT"], q["RSP_TSK_EVT"] = s.queue["RSP_TSK_EVT"],
         NEW f \in BOOLEAN, NEW t,
         t = [s EXCEPT !.queue = q, !.freeze = f, !.unsafe = @ \ {"RDP"},
                       !.line = @ \cup {"DP"}, !.wait = @ \ {"DP_SYNC"}]
  PROVE  /\ Served(t) /\ "DP" \in t.line /\ "DP_SYNC" \notin t.wait /\ "RDP" \notin t.unsafe
<1>1. s \in RcpStates
  BY DEF Served
<1>2. t \in RcpStates
  <2>1. s.unsafe \ {"RDP"} \in SUBSET {"RSP", "RDP"} /\ s.line \cup {"DP"} \in SUBSET {"SP", "DP"}
        /\ s.wait \ {"DP_SYNC"} \in SUBSET Waits
    BY <1>1, StateFields
  <2>2. QED
    BY <1>1, <2>1, Zenon DEF RcpStates
<1>3. /\ t.status = s.status /\ t.saved = s.saved /\ t.wait = s.wait \ {"DP_SYNC"}
      /\ t.queue = q /\ t.unsafe = s.unsafe \ {"RDP"} /\ t.line = s.line \cup {"DP"}
  BY <1>1 DEF RcpStates
<1>4. SpServed(t) /\ HaltSeen(t) /\ BrokeSeen(t)
  BY <1>3 DEF Served, SpServed, HaltSeen, BrokeSeen, Pending, PendingSp
<1>5. DpServed(t)
  BY <1>3 DEF DpServed
<1>6. QED
  BY <1>2, <1>3, <1>4, <1>5 DEF Served

LEMMA RdpInterruptServed ==
  ASSUME RspInv, RdpInterruptEvent
  PROVE  \E t : Served(t) /\ rcp' \in DoSpTask(t) /\ t.status = rcp.status
<1> DEFINE q == Dequeue(rcp.queue, "DP_INT")
           u == [rcp EXCEPT !.queue = Dequeue(@, "DP_INT"), !.unsafe = @ \ {"RDP"},
                            !.line = @ \cup {"DP"}]
           t == [u EXCEPT !.wait = @ \ {"DP_SYNC"}]
<1>1. rcp \in RcpStates /\ rcp.queue \in [Events -> Nat] /\ Served(rcp)
  BY DEF RspInv, Served, RcpStates
<1>2. q \in [Events -> Nat] /\ q["SP_INT"] = rcp.queue["SP_INT"]
      /\ q["RSP_TSK_EVT"] = rcp.queue["RSP_TSK_EVT"]
  BY <1>1 DEF Dequeue, Events
<1>3. rcp.freeze \in BOOLEAN
  BY <1>1 DEF RcpStates
<1>4. t = [rcp EXCEPT !.queue = q, !.freeze = rcp.freeze, !.unsafe = @ \ {"RDP"},
                      !.line = @ \cup {"DP"}, !.wait = @ \ {"DP_SYNC"}]
  BY <1>1 DEF RcpStates
<1>5. rcp' \in DoSpTask(t)
  BY DEF RdpInterruptEvent, ClearRspWait
<1> HIDE DEF t, q
<1>6. Served(t)
  BY <1>1, <1>2, <1>3, <1>4, RdpServed
<1>7. t.status = rcp.status
  BY <1>1, <1>4 DEF RcpStates
<1>8. QED
  BY <1>5, <1>6, <1>7

LEMMA SetFreezeServed ==
  ASSUME NEW s, Served(s), Waiting(s), NEW f \in BOOLEAN, s.delayed => f
  PROVE  Served([s EXCEPT !.freeze = f]) /\ Waiting([s EXCEPT !.freeze = f])
<1> DEFINE t == [s EXCEPT !.freeze = f]
<1>1. s \in RcpStates
  BY DEF Served
<1>2. t \in RcpStates
  BY <1>1, Zenon DEF RcpStates
<1>3. /\ t.status = s.status /\ t.saved = s.saved /\ t.wait = s.wait /\ t.queue = s.queue
      /\ t.unsafe = s.unsafe /\ t.delayed = s.delayed /\ t.freeze = f
  BY <1>1 DEF RcpStates
<1> HIDE DEF t
<1>4. SpServed(t) /\ HaltSeen(t) /\ BrokeSeen(t) /\ Waiting(t)
  BY <1>3 DEF Served, SpServed, HaltSeen, BrokeSeen, Pending, Waiting
<1>5. DpServed(t)
  BY <1>3, Zenon DEF Served, DpServed, Noted
<1>6. Served(t) /\ Waiting(t)
  BY <1>2, <1>3, <1>4, <1>5 DEF Served
<1>7. QED
  BY <1>6 DEF t

(* The end of a freeze: the RSP may run at once, but sends the RDP no list *)
(* whose interrupt the end of the freeze would forget.                     *)
LEMMA UnfrozenServed ==
  ASSUME NEW s, Served(s), Waiting(s), NEW r \in Unfrozen(s)
  PROVE  Served(r) /\ Waiting(r) /\ (EndSeen(r) => EndSeen(s))
<1>1. CASE ~s.delayed
  <2>1. r = [s EXCEPT !.freeze = FALSE]
    BY <1>1 DEF Unfrozen
  <2>2. r.status = s.status
    BY <2>1 DEF Served, RcpStates
  <2>3. QED
    BY <1>1, <2>1, <2>2, SetFreezeServed DEF EndSeen
<1>2. CASE s.delayed
  <2> DEFINE u == [s EXCEPT !.freeze = FALSE, !.unsafe = @ \ {"RDP"}, !.line = @ \cup {"DP"}]
             v == [u EXCEPT !.wait = @ \ {"DP_SYNC"}]
  <2>1. s \in RcpStates /\ s.queue \in [Events -> Nat]
    BY DEF Served, RcpStates
  <2>2. v = [s EXCEPT !.queue = s.queue, !.freeze = FALSE, !.unsafe = @ \ {"RDP"},
                      !.line = @ \cup {"DP"}, !.wait = @ \ {"DP_SYNC"}]
    BY <2>1 DEF RcpStates
  <2>3. PICK t \in DoSpTask(v) : r = [t EXCEPT !.delayed = FALSE]
    BY <1>2 DEF Unfrozen, ClearRspWait
  <2> HIDE DEF v
  <2>4. v.status = s.status
    BY <2>1, <2>2 DEF RcpStates
  <2>5. Served(v) /\ "DP" \in v.line /\ "DP_SYNC" \notin v.wait /\ "RDP" \notin v.unsafe
    BY <2>1, <2>2, RdpServed
  <2>6. Served(t) /\ Waiting(t) /\ "DP_SYNC" \notin t.wait /\ "RDP" \notin t.unsafe
    BY <2>5, DoSpTaskServed, DoSpTaskNoSync DEF Served
  <2>7. t \in RcpStates
    BY <2>6 DEF Served
  <2>8. r \in RcpStates
    BY <2>3, <2>7, Zenon DEF RcpStates
  <2>9. /\ r.status = t.status /\ r.saved = t.saved /\ r.wait = t.wait /\ r.queue = t.queue
        /\ r.unsafe = t.unsafe
    BY <2>3, <2>7 DEF RcpStates
  <2>10. SpServed(r) /\ HaltSeen(r) /\ BrokeSeen(r) /\ Waiting(r) /\ DpServed(r)
    BY <2>6, <2>9 DEF Served, SpServed, HaltSeen, BrokeSeen, Pending, Waiting, DpServed
  <2>11. EndSeen(r) => EndSeen(s)
    <3>1. EndSeen(t) => t = v
      BY <2>3, <2>5, DoSpTaskHidesEnd
    <3>2. QED
      BY <2>4, <2>9, <3>1 DEF EndSeen
  <2>12. QED
    BY <2>6, <2>8, <2>9, <2>10, <2>11 DEF Served
<1>3. QED
  BY <1>1, <1>2

LEMMA DpcStatusKeeps ==
  ASSUME RspInv, NEW w \in SUBSET {"CLR_FREEZE", "SET_FREEZE"}, UpdateDpcStatus(w)
  PROVE  RspInv'
<1>1. PICK s \in IF "CLR_FREEZE" \in w THEN Unfrozen(rcp) ELSE {rcp} :
        rcp' = IF "SET_FREEZE" \in w THEN [s EXCEPT !.freeze = TRUE] ELSE s
  BY DEF UpdateDpcStatus
<1>2. Served(s) /\ Waiting(s)
  BY UnfrozenServed DEF RspInv
<1>3. CASE "SET_FREEZE" \in w
  BY <1>1, <1>2, <1>3, SetFreezeServed DEF RspInv
<1>4. CASE "SET_FREEZE" \notin w
  BY <1>1, <1>2, <1>4 DEF RspInv
<1>5. QED
  BY <1>3, <1>4

LEMMA WriteDpcEndKeeps == RspInv /\ WriteDpcEnd => RspInv'
<1>a. RspInv /\ rcp' = rcp => RspInv'
  BY DEF RspInv
<1>b. WriteDpcEnd => rcp' = ListSent(rcp) \/ rcp' = rcp
  BY Zenon DEF WriteDpcEnd
<1> SUFFICES ASSUME RspInv, rcp' = ListSent(rcp) PROVE RspInv'
  BY <1>a, <1>b
<1> DEFINE t == ListSent(rcp)
<1>1. rcp \in RcpStates /\ rcp.queue \in [Events -> Nat]
  BY DEF RspInv, Served, RcpStates
<1>2. /\ Enqueue(rcp.queue, "DP_INT") \in [Events -> Nat]
      /\ Enqueue(rcp.queue, "DP_INT")["DP_INT"] > 0
      /\ Enqueue(rcp.queue, "DP_INT")["SP_INT"] = rcp.queue["SP_INT"]
      /\ Enqueue(rcp.queue, "DP_INT")["RSP_TSK_EVT"] = rcp.queue["RSP_TSK_EVT"]
  BY <1>1 DEF Enqueue, Events
<1>3. (rcp.delayed \/ rcp.freeze) \in BOOLEAN
  BY SMT
<1>4. (IF rcp.freeze THEN rcp.queue ELSE Enqueue(rcp.queue, "DP_INT")) \in [Events -> Nat]
  BY <1>1, <1>2
<1>5. rcp.line \ {"DP"} \in SUBSET {"SP", "DP"} /\ rcp.unsafe \cup {"RDP"} \in SUBSET {"RSP", "RDP"}
  BY <1>1, StateFields
<1>6. t \in RcpStates
  BY <1>1, <1>3, <1>4, <1>5, Zenon DEF ListSent, RcpStates
<1>7. /\ t.status = rcp.status /\ t.saved = rcp.saved /\ t.wait = rcp.wait
      /\ t.queue = IF rcp.freeze THEN rcp.queue ELSE Enqueue(rcp.queue, "DP_INT")
  BY <1>1 DEF ListSent, RcpStates
<1>8. t.delayed = (rcp.delayed \/ rcp.freeze) /\ t.freeze = rcp.freeze
  BY <1>1 DEF ListSent, RcpStates
<1> HIDE DEF t
<1>9. SpServed(t) /\ HaltSeen(t) /\ BrokeSeen(t) /\ Waiting(t)
  BY <1>2, <1>7 DEF RspInv, Served, SpServed, HaltSeen, BrokeSeen, Pending, Waiting
<1>10. DpServed(t)
  <2>1. rcp.freeze => Noted(t) /\ t.delayed /\ t.freeze
    BY <1>8, Zenon DEF Noted
  <2>2. ~rcp.freeze => t.queue["DP_INT"] > 0
    BY <1>2, <1>7
  <2>3. QED
    BY <2>1, <2>2, Zenon DEF DpServed
<1>11. Served(t) /\ Waiting(t)
  BY <1>2, <1>6, <1>7, <1>9, <1>10 DEF RspInv, Served
<1>12. QED
  BY <1>11 DEF RspInv, t

LEMMA AcknowledgeKeeps == RspInv /\ AcknowledgeDp => RspInv'
<1> SUFFICES ASSUME RspInv, AcknowledgeDp PROVE RspInv'
  OBVIOUS
<1>1. rcp \in RcpStates
  BY DEF RspInv, Served
<1>2. rcp.line \ {"DP"} \in SUBSET {"SP", "DP"}
  BY <1>1, StateFields
<1>3. rcp' \in RcpStates
  BY <1>1, <1>2, Zenon DEF AcknowledgeDp, RcpStates
<1>4. /\ rcp'.status = rcp.status /\ rcp'.saved = rcp.saved /\ rcp'.wait = rcp.wait
      /\ rcp'.queue = rcp.queue /\ rcp'.unsafe = rcp.unsafe /\ rcp'.delayed = rcp.delayed /\ rcp'.freeze = rcp.freeze
  BY <1>1 DEF AcknowledgeDp, RcpStates
<1>5. SpServed(rcp') /\ HaltSeen(rcp') /\ BrokeSeen(rcp') /\ Waiting(rcp')
  BY <1>4 DEF RspInv, Served, SpServed, HaltSeen, BrokeSeen, Pending, Waiting
<1>6. DpServed(rcp')
  BY <1>4, Zenon DEF RspInv, Served, DpServed, Noted
<1>7. QED
  BY <1>3, <1>4, <1>5, <1>6 DEF RspInv, Served

LEMMA BootedInv == Served(Booted) /\ Waiting(Booted)
<1> DEFINE b == Booted
<1>1. PowerOnState \in RcpStates
  BY DEF PowerOnState, RcpStates, StatusBits
<1>2. b \in RcpStates
  BY <1>1, Zenon DEF Booted, RcpStates, Waits
<1>3. /\ b.status = PowerOnState.status /\ b.saved = PowerOnState.saved /\ b.wait = {"HALTED"}
      /\ b.unsafe = PowerOnState.unsafe /\ b.queue = PowerOnState.queue
  BY <1>1 DEF Booted, RcpStates
<1>4. /\ b.status = {"HALT"} /\ b.saved = {} /\ b.unsafe = {}
      /\ \A e \in Events : b.queue[e] = 0
  BY <1>3 DEF PowerOnState
<1> HIDE DEF b
<1>5. SpServed(b) /\ HaltSeen(b) /\ BrokeSeen(b) /\ Waiting(b) /\ DpServed(b)
  BY <1>3, <1>4 DEF SpServed, HaltSeen, BrokeSeen, Pending, PendingSp, Waiting, DpServed, Events
<1>6. QED
  BY <1>2, <1>4, <1>5 DEF Served, b, Events

-----------------------------------------------------------------------------
(* The parts of a store to SP_STATUS_REG.                                  *)

(* A store that halts or starts the RSP finds no SP_INT on its way.        *)
LEMMA HaltedServed ==
  ASSUME NEW s, Served(s), NEW w, Patient(s, w)
  PROVE  Served(BrokeCleared(Halted(s, w), w))
<1> DEFINE u == Halted(s, w)
           t == BrokeCleared(u, w)
<1>1. s \in RcpStates /\ s.queue \in [Events -> Nat]
  BY DEF Served, RcpStates
<1>2. CASE Only(w, "CLR_HALT", "SET_HALT")
  <2>1. ~Pending(s) /\ ("BROKE" \in s.status => "CLR_BROKE" \in w)
    BY <1>2 DEF Only, Patient, Pending
  <2>2. u = [s EXCEPT !.wait = @ \ {"HALTED"}, !.status = @ \ {"HALT"}]
    BY <1>2 DEF Halted, Only
  <2>3. s.wait \ {"HALTED"} \in SUBSET Waits /\ s.status \ {"HALT"} \in SUBSET StatusBits
    BY <1>1, StateFields
  <2>4. u \in RcpStates
    BY <1>1, <2>2, <2>3, Zenon DEF RcpStates
  <2>5. /\ u.status = s.status \ {"HALT"} /\ u.wait = s.wait \ {"HALTED"}
        /\ u.saved = s.saved /\ u.queue = s.queue /\ u.unsafe = s.unsafe /\ u.delayed = s.delayed /\ u.freeze = s.freeze
    BY <1>1, <2>2 DEF RcpStates
  <2> HIDE DEF u
  <2>6. u.status \ {"BROKE"} \in SUBSET StatusBits
    BY <2>4, StateFields
  <2>7. t \in RcpStates
    BY <2>4, <2>6, Zenon DEF BrokeCleared, RcpStates
  <2>8. /\ t.status = s.status \ {"HALT", "BROKE"} /\ t.wait = s.wait \ {"HALTED"}
        /\ t.saved = s.saved /\ t.queue = s.queue /\ t.unsafe = s.unsafe /\ t.delayed = s.delayed /\ t.freeze = s.freeze
    BY <2>1, <2>4, <2>5 DEF BrokeCleared, RcpStates
  <2> HIDE DEF t
  <2>9. SpServed(t) /\ HaltSeen(t) /\ BrokeSeen(t)
    BY <2>1, <2>8 DEF Served, SpServed, HaltSeen, BrokeSeen, Pending, PendingSp
  <2>10. DpServed(t)
    <3>1. "DP_SYNC" \in t.wait => "DP_SYNC" \in s.wait
      BY <2>8
    <3>2. QED
      BY <2>8, <3>1, Zenon DEF Served, DpServed, Noted
  <2>11. Served(t)
    BY <2>7, <2>8, <2>9, <2>10 DEF Served
  <2>12. QED
    BY <2>11 DEF t, u
<1>3. CASE ~Only(w, "CLR_HALT", "SET_HALT")
  <2>1. Served(u)
    <3>1. CASE Only(w, "SET_HALT", "CLR_HALT")
      <4>1. ~Pending(s)
        BY <3>1 DEF Only, Patient, Pending
      <4>2. u = [s EXCEPT !.queue = Dequeue(@, "SP_INT"), !.saved = {}, !.first = TRUE,
                          !.wait = @ \cup {"HALTED"}, !.status = @ \cup {"HALT"}]
        BY <1>3, <3>1 DEF Halted
      <4>3. /\ Dequeue(s.queue, "SP_INT") \in [Events -> Nat]
            /\ Dequeue(s.queue, "SP_INT")["SP_INT"] = 0
            /\ Dequeue(s.queue, "SP_INT")["DP_INT"] = s.queue["DP_INT"]
            /\ Dequeue(s.queue, "SP_INT")["RSP_TSK_EVT"] = s.queue["RSP_TSK_EVT"]
        BY <1>1, <4>1 DEF Served, SpServed, Dequeue, Events
      <4>4. s.wait \cup {"HALTED"} \in SUBSET Waits /\ s.status \cup {"HALT"} \in SUBSET StatusBits
            /\ {} \in SUBSET StatusBits
        BY <1>1, StateFields DEF Waits, StatusBits
      <4>5. u \in RcpStates
        BY <1>1, <4>2, <4>3, <4>4, Zenon DEF RcpStates
      <4>6. /\ u.status = s.status \cup {"HALT"} /\ u.wait = s.wait \cup {"HALTED"}
            /\ u.saved = {} /\ u.queue = Dequeue(s.queue, "SP_INT") /\ u.unsafe = s.unsafe
            /\ u.delayed = s.delayed /\ u.freeze = s.freeze
        BY <1>1, <4>2 DEF RcpStates
      <4> HIDE DEF u
      <4>7. SpServed(u) /\ HaltSeen(u) /\ BrokeSeen(u)
        BY <4>1, <4>3, <4>6 DEF Served, SpServed, HaltSeen, BrokeSeen, Pending, PendingSp
      <4>8. DpServed(u)
        <5>1. "DP_SYNC" \in u.wait => "DP_SYNC" \in s.wait
          BY <4>6
        <5>2. QED
          BY <4>3, <4>6, <5>1, Zenon DEF Served, DpServed, Noted
      <4>9. QED
        BY <4>3, <4>5, <4>6, <4>7, <4>8 DEF Served
    <3>2. CASE ~Only(w, "SET_HALT", "CLR_HALT")
      BY <1>3, <3>2 DEF Halted
    <3>3. QED
      BY <3>1, <3>2
  <2> HIDE DEF u
  <2>2. CASE "CLR_BROKE" \notin w
    BY <2>1, <2>2 DEF BrokeCleared, u
  <2>3. CASE "CLR_BROKE" \in w
    <3>1. u \in RcpStates
      BY <2>1 DEF Served
    <3>2. u.status \ {"BROKE"} \in SUBSET StatusBits
      BY <3>1, StateFields
    <3>3. t \in RcpStates
      BY <3>1, <3>2, <2>3, Zenon DEF BrokeCleared, RcpStates
    <3>4. /\ t.status = u.status \ {"BROKE"} /\ t.wait = u.wait /\ t.saved = u.saved
          /\ t.queue = u.queue /\ t.unsafe = u.unsafe /\ t.delayed = u.delayed /\ t.freeze = u.freeze
      BY <2>3, <3>1 DEF BrokeCleared, RcpStates
    <3> HIDE DEF t
    <3>5. SpServed(t) /\ HaltSeen(t) /\ BrokeSeen(t)
      BY <2>1, <3>4 DEF Served, SpServed, HaltSeen, BrokeSeen, Pending
    <3>6. DpServed(t)
      BY <2>1, <3>4, Zenon DEF Served, DpServed, Noted
    <3>7. Served(t)
      BY <2>1, <3>3, <3>4, <3>5, <3>6 DEF Served
    <3>8. QED
      BY <3>7 DEF t, u
  <2>4. QED
    BY <2>2, <2>3
<1>4. QED
  BY <1>2, <1>3

LEMMA LineServed ==
  ASSUME NEW s, Served(s), NEW w
  PROVE  /\ Served(LineWritten(s, w)) /\ LineWritten(s, w).status = s.status
         /\ LineWritten(s, w).wait = s.wait /\ LineWritten(s, w).unsafe = s.unsafe
<1> DEFINE t == LineWritten(s, w)
<1>1. s \in RcpStates
  BY DEF Served
<1>2. \E l \in SUBSET {"SP", "DP"} : t = [s EXCEPT !.line = l]
  <2>1. s.line \in SUBSET {"SP", "DP"} /\ s = [s EXCEPT !.line = s.line]
    BY <1>1, StateFields DEF RcpStates
  <2>2. s.line \ {"SP"} \in SUBSET {"SP", "DP"} /\ s.line \cup {"SP"} \in SUBSET {"SP", "DP"}
    BY <2>1
  <2>3. \/ t = [s EXCEPT !.line = @ \ {"SP"}] \/ t = [s EXCEPT !.line = @ \cup {"SP"}]
        \/ t = s
    BY DEF LineWritten, Only
  <2>4. QED
    BY <2>1, <2>2, <2>3, Zenon
<1>3. PICK l \in SUBSET {"SP", "DP"} : t = [s EXCEPT !.line = l]
  BY <1>2
<1>4. t \in RcpStates
  BY <1>1, <1>3, Zenon DEF RcpStates
<1>5. /\ t.status = s.status /\ t.saved = s.saved /\ t.wait = s.wait /\ t.queue = s.queue
      /\ t.unsafe = s.unsafe /\ t.delayed = s.delayed /\ t.freeze = s.freeze
  BY <1>1, <1>3 DEF RcpStates
<1> HIDE DEF t
<1>6. SpServed(t) /\ HaltSeen(t) /\ BrokeSeen(t)
  BY <1>5 DEF Served, SpServed, HaltSeen, BrokeSeen, Pending
<1>7. DpServed(t)
  BY <1>5, Zenon DEF Served, DpServed, Noted
<1>8. Served(t)
  BY <1>4, <1>5, <1>6, <1>7 DEF Served
<1>9. QED
  BY <1>5, <1>8 DEF t

LEMMA IntrBreakServed ==
  ASSUME NEW s, Served(s), NEW w
  PROVE  Served(IntrBreakWritten(s, w))
<1> DEFINE t == IntrBreakWritten(s, w)
<1>1. s \in RcpStates /\ s.queue \in [Events -> Nat]
  BY DEF Served, RcpStates
<1>2. CASE Only(w, "CLR_INTR_BREAK", "SET_INTR_BREAK") /\ "SP_INT_BROKE" \in s.wait
  <2>1. t = [s EXCEPT !.queue = Dequeue(@, "SP_INT"), !.wait = @ \ {"SP_INT_BROKE"},
                      !.status = s.saved \ {"INTR_BREAK"}, !.saved = {}]
    BY <1>2 DEF IntrBreakWritten, Only
  <2>2. s.queue["SP_INT"] = 1 /\ "SP_INT" \notin s.wait
    BY <1>2 DEF Served, SpServed, Pending, PendingSp
  <2>3. /\ Dequeue(s.queue, "SP_INT") \in [Events -> Nat]
        /\ Dequeue(s.queue, "SP_INT")["SP_INT"] = 0
        /\ Dequeue(s.queue, "SP_INT")["DP_INT"] = s.queue["DP_INT"]
        /\ Dequeue(s.queue, "SP_INT")["RSP_TSK_EVT"] = s.queue["RSP_TSK_EVT"]
    BY <1>1, <2>2 DEF Dequeue, Events
  <2>4. s.wait \ {"SP_INT_BROKE"} \in SUBSET Waits /\ s.saved \ {"INTR_BREAK"} \in SUBSET StatusBits
        /\ {} \in SUBSET StatusBits
    BY <1>1, StateFields
  <2>5. t \in RcpStates
    BY <1>1, <2>1, <2>3, <2>4, Zenon DEF RcpStates
  <2>6. /\ t.status = s.saved \ {"INTR_BREAK"} /\ t.saved = {}
        /\ t.wait = s.wait \ {"SP_INT_BROKE"} /\ t.queue = Dequeue(s.queue, "SP_INT")
        /\ t.unsafe = s.unsafe /\ t.delayed = s.delayed /\ t.freeze = s.freeze
    BY <1>1, <2>1 DEF RcpStates
  <2> HIDE DEF t
  <2>7. SpServed(t)
    BY <2>2, <2>3, <2>6 DEF SpServed, Pending, PendingSp
  <2>8. HaltSeen(t) /\ BrokeSeen(t)
    BY <1>2, <2>2, <2>6 DEF Served, HaltSeen, BrokeSeen, Pending, PendingSp
  <2>9. DpServed(t)
    <3>1. "DP_SYNC" \in t.wait => "DP_SYNC" \in s.wait
      BY <2>6
    <3>2. QED
      BY <2>3, <2>6, <3>1, Zenon DEF Served, DpServed, Noted
  <2>10. Served(t)
    BY <2>3, <2>5, <2>6, <2>7, <2>8, <2>9 DEF Served
  <2>11. QED
    BY <2>10 DEF t
<1>3. CASE ~(Only(w, "CLR_INTR_BREAK", "SET_INTR_BREAK") /\ "SP_INT_BROKE" \in s.wait)
  <2>1. \/ t = [s EXCEPT !.status = @ \ {"INTR_BREAK"}]
        \/ t = [s EXCEPT !.status = @ \cup {"INTR_BREAK"}]
        \/ t = s
    BY <1>3 DEF IntrBreakWritten, Only
  <2>2. CASE t = s
    BY <2>2
  <2>3. CASE t # s
    <3>1. s.status \ {"INTR_BREAK"} \in SUBSET StatusBits
          /\ s.status \cup {"INTR_BREAK"} \in SUBSET StatusBits
      BY <1>1, StateFields DEF StatusBits
    <3>2. t \in RcpStates
      BY <1>1, <2>1, <2>3, <3>1, Zenon DEF RcpStates
    <3>3. /\ t.status \ {"INTR_BREAK"} = s.status \ {"INTR_BREAK"} /\ t.wait = s.wait
          /\ t.saved = s.saved /\ t.queue = s.queue /\ t.unsafe = s.unsafe
          /\ t.delayed = s.delayed /\ t.freeze = s.freeze
      BY <1>1, <2>1, <2>3 DEF RcpStates
    <3> HIDE DEF t
    <3>4. /\ "HALT" \in t.status <=> "HALT" \in s.status
          /\ "BROKE" \in t.status <=> "BROKE" \in s.status
      BY <3>3
    <3>5. SpServed(t) /\ HaltSeen(t) /\ BrokeSeen(t)
      BY <3>3, <3>4 DEF Served, SpServed, HaltSeen, BrokeSeen, Pending
    <3>6. DpServed(t)
      BY <3>3, Zenon DEF Served, DpServed, Noted
    <3>7. Served(t)
      BY <3>2, <3>3, <3>5, <3>6 DEF Served
    <3>8. QED
      BY <3>7 DEF t
  <2>4. QED
    BY <2>2, <2>3
<1>4. QED
  BY <1>2, <1>3

LEMMA SpStatusKeeps ==
  ASSUME PATIENT, RspInv, NEW w, UpdateSpStatus(w)
  PROVE  RspInv'
<1> DEFINE s == BrokeCleared(Halted(rcp, w), w)
           t == IntrBreakWritten(LineWritten(s, w), w)
<1>1. Patient(rcp, w) /\ rcp' \in DoSpTask(t)
  BY DEF UpdateSpStatus
<1>2. Served(s)
  BY <1>1, HaltedServed DEF RspInv
<1> HIDE DEF s
<1>3. Served(LineWritten(s, w))
  BY <1>2, LineServed
<1>4. Served(t)
  BY <1>3, IntrBreakServed
<1> HIDE DEF t
<1>5. QED
  BY <1>1, <1>4, DoSpTaskServed DEF RspInv

(* Of an NMI that finds no interrupt of the RSP or the RDP on its way.     *)
LEMMA NmiKeeps == ASSUME QUIET, RspInv, NmiHandler PROVE RspInv'
<1> DEFINE u == Halted(rcp, {"SET_HALT"})
           s == LineWritten(u, {"CLR_INTR"})
<1>1. /\ ~Pending(rcp) /\ "DP_SYNC" \notin rcp.wait /\ "RDP" \notin rcp.unsafe
      /\ rcp' = [s EXCEPT !.queue = [e \in Events |-> 0]]
  BY DEF NmiHandler, Pending, PendingSp
<1>2. rcp \in RcpStates /\ Served(rcp)
  BY DEF RspInv, Served
<1>3. BrokeCleared(u, {"SET_HALT"}) = u
  BY DEF BrokeCleared
<1>4. Patient(rcp, {"SET_HALT"})
  BY <1>1 DEF Patient, Pending
<1>5. Served(u)
  BY <1>2, <1>3, <1>4, HaltedServed
<1>6. u = [rcp EXCEPT !.queue = Dequeue(@, "SP_INT"), !.saved = {}, !.first = TRUE,
                      !.wait = @ \cup {"HALTED"}, !.status = @ \cup {"HALT"}]
  BY DEF Halted, Only
<1>7. u.wait = rcp.wait \cup {"HALTED"} /\ u.unsafe = rcp.unsafe
  BY <1>2, <1>6 DEF RcpStates
<1> HIDE DEF u
<1>8. Served(s) /\ s.wait = rcp.wait \cup {"HALTED"} /\ s.unsafe = rcp.unsafe
  BY <1>5, <1>7, LineServed
<1> HIDE DEF s
<1>9. s \in RcpStates /\ [e \in Events |-> 0] \in [Events -> Nat]
  BY <1>8 DEF Served
<1>10. rcp' \in RcpStates
  BY <1>1, <1>9, Zenon DEF RcpStates
<1>11. /\ rcp'.status = s.status /\ rcp'.saved = s.saved /\ rcp'.wait = s.wait
       /\ rcp'.unsafe = s.unsafe /\ rcp'.queue = [e \in Events |-> 0]
  BY <1>1, <1>9 DEF RcpStates
<1>12. SpServed(rcp') /\ DpServed(rcp')
  BY <1>1, <1>8, <1>11 DEF SpServed, DpServed, Pending, PendingSp, Events
<1>13. HaltSeen(rcp') /\ BrokeSeen(rcp')
  BY <1>1, <1>8, <1>11 DEF Served, HaltSeen, BrokeSeen, Pending, PendingSp
<1>14. Waiting(rcp')
  BY <1>8, <1>11 DEF Waiting
<1>15. QED
  BY <1>10, <1>11, <1>12, <1>13, <1>14 DEF RspInv, Served, Events

LEMMA NextKeeps == ASSUME PATIENT, QUIET PROVE RspInv /\ [Next]_rcp => RspInv'
<1>1. RspInv /\ UNCHANGED rcp => RspInv'
  BY DEF RspInv
<1>2. RspInv /\ ResetHardHandler => RspInv'
  BY BootedInv DEF ResetHardHandler, RspInv
<1>3. RspInv /\ (RspInterruptEvent \/ RspTaskEvent \/ RdpInterruptEvent) => RspInv'
  BY RspInterruptServed, RspTaskServed, RdpInterruptServed, DoSpTaskServed DEF RspInv
<1>4. QED
  BY <1>1, <1>2, <1>3, SpStatusKeeps, WriteDpcEndKeeps, DpcStatusKeeps, AcknowledgeKeeps, NmiKeeps
     DEF Next

LEMMA InitInv == Init => RspInv
BY BootedInv DEF Init, RspInv

-----------------------------------------------------------------------------
(* The registers of the RSP and the RDP have their types, and no event of  *)
(* the RSP is queued twice: one SP_INT for one task.                       *)
THEOREM TypeCorrect == PATIENT /\ QUIET => (Spec => []TypeOK)
<1> SUFFICES ASSUME PATIENT, QUIET PROVE Spec => []TypeOK
  OBVIOUS
<1>1. RspInv => TypeOK
  BY DEF RspInv, Served, SpServed, TypeOK
<1>2. RspInv /\ [Next]_rcp => RspInv'
  BY NextKeeps
<1>3. QED
  BY <1>1, <1>2, InitInv, PTL DEF Spec

(* Whatever do_SP_Task makes the RSP wait for has its event on the way, or *)
(* the RDP is frozen with its interrupt noted and the end of the freeze    *)
(* will deliver it.                                                        *)
THEOREM AlwaysServed == PATIENT /\ QUIET /\ CPU_UNFREEZES => (Spec => []WaitsServed)
<1> SUFFICES ASSUME PATIENT, QUIET, CPU_UNFREEZES PROVE Spec => []WaitsServed
  OBVIOUS
<1>1. RspInv => WaitsServed
  <2> SUFFICES ASSUME RspInv PROVE WaitsServed
    OBVIOUS
  <2>1. rcp.wait \cap PendingSp # {} => rcp.queue["SP_INT"] > 0
    BY DEF RspInv, Served, SpServed, Pending
  <2>2. QED
    BY <2>1, Zenon DEF RspInv, Served, DpServed, Noted, WaitsServed
<1>2. RspInv /\ [Next]_rcp => RspInv'
  BY NextKeeps
<1>3. QED
  BY <1>1, <1>2, InitInv, PTL DEF Spec

(* An RSP that runs by its registers is run again: it never stalls.        *)
THEOREM NoStall == PATIENT /\ QUIET => (Spec => []NeverStalls)
<1> SUFFICES ASSUME PATIENT, QUIET PROVE Spec => []NeverStalls
  OBVIOUS
<1>1. RspInv => NeverStalls
  <2> SUFFICES ASSUME RspInv, "HALT" \notin rcp.status
               PROVE  (\E e \in Events : rcp.queue[e] > 0) \/ (rcp.delayed /\ rcp.freeze)
    BY DEF NeverStalls
  <2>1. \/ rcp.wait = {} \/ Pending(rcp) \/ "DP_SYNC" \in rcp.wait
    BY StateFields DEF RspInv, Served, HaltSeen, Pending, PendingSp, Waits
  <2>2. CASE rcp.wait = {} \/ Pending(rcp)
    BY <2>2 DEF RspInv, Served, Waiting, SpServed, Events
  <2>3. CASE "DP_SYNC" \in rcp.wait
    <3>1. "DP_INT" \in Events
      BY DEF Events
    <3>2. QED
      BY <2>3, <3>1, Zenon DEF RspInv, Served, DpServed
  <2>4. QED
    BY <2>1, <2>2, <2>3
<1>2. RspInv /\ [Next]_rcp => RspInv'
  BY NextKeeps
<1>3. QED
  BY <1>1, <1>2, InitInv, PTL DEF Spec

(* A program that sees a task ended has no further SP_INT to expect.       *)
THEOREM OneInterruptPerTask == PATIENT /\ QUIET => (Spec => []OneInterrupt)
<1> SUFFICES ASSUME PATIENT, QUIET PROVE Spec => []OneInterrupt
  OBVIOUS
<1>1. RspInv => OneInterrupt
  BY DEF RspInv, Served, SpServed, BrokeSeen, OneInterrupt
<1>2. RspInv /\ [Next]_rcp => RspInv'
  BY NextKeeps
<1>3. QED
  BY <1>1, <1>2, InitInv, PTL DEF Spec

LEMMA SpStatusHidesEnd ==
  ASSUME PATIENT, RspInv, NEW w, UpdateSpStatus(w), "BROKE" \notin rcp.status
  PROVE  ~EndSeen(rcp')
<1> DEFINE u == Halted(rcp, w)
           s == BrokeCleared(u, w)
           l == LineWritten(s, w)
           t == IntrBreakWritten(l, w)
<1>1. Patient(rcp, w) /\ rcp' \in DoSpTask(t) /\ rcp \in RcpStates
  BY DEF UpdateSpStatus, RspInv, Served
<1>2. Served(s)
  BY <1>1, HaltedServed DEF RspInv
<1>3. "BROKE" \notin u.status /\ DOMAIN u = DOMAIN rcp
  BY <1>1 DEF Halted, RcpStates
<1>4. "BROKE" \notin s.status
  <2> HIDE DEF u
  <2>1. CASE "CLR_BROKE" \notin w
    BY <1>3, <2>1 DEF BrokeCleared
  <2>2. CASE "CLR_BROKE" \in w
    <3>1. "status" \in DOMAIN u
      BY <1>1, <1>3 DEF RcpStates
    <3>2. QED
      BY <1>3, <2>2, <3>1 DEF BrokeCleared
  <2>3. QED
    BY <2>1, <2>2
<1> HIDE DEF u, s
<1>5. Served(l) /\ "BROKE" \notin l.status
  BY <1>2, <1>4, LineServed
<1> HIDE DEF l
<1>6. Served(t)
  BY <1>5, IntrBreakServed
<1>7. l \in RcpStates
  BY <1>5 DEF Served
<1>8. ~EndSeen(t)
  BY <1>5, <1>7 DEF IntrBreakWritten, EndSeen, RcpStates
<1> HIDE DEF t
<1>9. QED
  BY <1>1, <1>6, <1>8, DoSpTaskHidesEnd

(* The RSP runs ahead of time, but no program sees a task ended before its *)
(* interrupt.                                                              *)
THEOREM EndWithInterrupt == PATIENT /\ QUIET => (Spec => EndSeenWithInterrupt)
<1> SUFFICES ASSUME PATIENT, QUIET PROVE Spec => EndSeenWithInterrupt
  OBVIOUS
<1> DEFINE A == "BROKE" \notin rcp.status /\ EndSeen(rcp') => "SP" \in rcp'.line
<1>1. RspInv /\ [Next]_rcp => A
  <2> SUFFICES ASSUME RspInv, [Next]_rcp, "BROKE" \notin rcp.status, EndSeen(rcp')
               PROVE  "SP" \in rcp'.line
    OBVIOUS
  <2>1. rcp \in RcpStates
    BY DEF RspInv, Served
  <2>2. CASE \E w \in Words : UpdateSpStatus(w)
    BY <2>2, SpStatusHidesEnd
  <2>3. CASE RspInterruptEvent
    BY <2>3, RspInterruptServed, DoSpTaskHidesEnd
  <2>4. CASE RspTaskEvent \/ RdpInterruptEvent
    BY <2>4, RspTaskServed, RdpInterruptServed, DoSpTaskHidesEnd DEF EndSeen
  <2>5. CASE WriteDpcEnd \/ AcknowledgeDp
    <3>1. rcp'.status = rcp.status
      BY <2>1, <2>5 DEF WriteDpcEnd, ListSent, AcknowledgeDp, RcpStates
    <3>2. QED
      BY <3>1 DEF EndSeen
  <2>6. CASE \E w \in SUBSET {"CLR_FREEZE", "SET_FREEZE"} : UpdateDpcStatus(w)
    <3>1. PICK w \in SUBSET {"CLR_FREEZE", "SET_FREEZE"} :
            \E s \in IF "CLR_FREEZE" \in w THEN Unfrozen(rcp) ELSE {rcp} :
              rcp' = IF "SET_FREEZE" \in w THEN [s EXCEPT !.freeze = TRUE] ELSE s
      BY <2>6 DEF UpdateDpcStatus
    <3>2. PICK s \in IF "CLR_FREEZE" \in w THEN Unfrozen(rcp) ELSE {rcp} :
            rcp' = IF "SET_FREEZE" \in w THEN [s EXCEPT !.freeze = TRUE] ELSE s
      BY <3>1
    <3>3. s \in RcpStates /\ (EndSeen(s) => EndSeen(rcp))
      BY <2>1, UnfrozenServed DEF RspInv, Served
    <3>4. rcp'.status = s.status
      BY <3>2, <3>3 DEF RcpStates
    <3>5. QED
      BY <3>3, <3>4 DEF EndSeen
  <2>7. CASE ResetHardHandler \/ NmiHandler
    <3>1. CASE ResetHardHandler
      <4>1. rcp'.status = {"HALT"}
        BY <3>1 DEF ResetHardHandler, Booted, PowerOnState
      <4>2. QED
        BY <4>1 DEF EndSeen
    <3>2. CASE NmiHandler
      <4>1. rcp'.status = rcp.status \cup {"HALT"}
        BY <2>1, <3>2 DEF NmiHandler, LineWritten, Halted, Only, RcpStates
      <4>2. QED
        BY <4>1 DEF EndSeen
    <3>3. QED
      BY <2>7, <3>1, <3>2
  <2>8. CASE UNCHANGED rcp
    BY <2>8 DEF EndSeen
  <2>9. QED
    BY <2>2, <2>3, <2>4, <2>5, <2>6, <2>7, <2>8 DEF Next
<1>2. RspInv /\ [Next]_rcp => RspInv'
  BY NextKeeps
<1>3. A => (("BROKE" \notin rcp.status /\ {"BROKE", "INTR_BREAK"} \subseteq rcp'.status)
              => "SP" \in rcp'.line)
  BY DEF EndSeen
<1> HIDE DEF A
<1>4. QED
  BY <1>1, <1>2, <1>3, InitInv, PTL DEF Spec, EndSeenWithInterrupt
=============================================================================
