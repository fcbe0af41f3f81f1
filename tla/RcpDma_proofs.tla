--------------------------- MODULE RcpDma_proofs ---------------------------
(***************************************************************************)
(* Proofs about RcpDma.                                                    *)
(***************************************************************************)
EXTENDS RcpDma, SequenceTheorems, TLAPS

(* The SP engine.                                                          *)
SpInv ==
  /\ SpTypeOK /\ SpBusyServed
  /\ sp.asked \in {sp.place, Unwritten}
  /\ "FULL" \in sp.status => sp.asked = Unwritten
  /\ sp.fifo0.asked \in {sp.fifo0.place, Unwritten}
  /\ sp.fifo1.asked \in {sp.fifo1.place, Unwritten}

LEMMA SpPlaces ==
  /\ 0 \in Places /\ Unwritten \notin Places
  /\ \A p \in Places : After(p) \in Places
<1>1. SP_BLOCKS \in Nat /\ SP_BLOCKS > 0
  BY SpDmaAssumption, SMT
<1>2. QED
  BY <1>1, SMT DEF Places, Unwritten, After

LEMMA SpInitInv == SpInit => SpInv
BY SpPlaces, SMT DEF SpInit, SpInv, SpReset, NoRequest, SpTypeOK, SpBusyServed, SpRequests, SpStates

(* One register at a time.                                                 *)
LEMMA SpSetters ==
  ASSUME NEW s \in SpStates
  PROVE  /\ \A u \in SUBSET {"BUSY", "FULL"} : [s EXCEPT !.status = u] \in SpStates
         /\ \A t \in SpRequests : [s EXCEPT !.fifo0 = t] \in SpStates
         /\ \A t \in SpRequests : [s EXCEPT !.fifo1 = t] \in SpStates
         /\ \A p \in Places : [s EXCEPT !.place = p] \in SpStates
         /\ \A p \in Places \cup {Unwritten} : [s EXCEPT !.asked = p] \in SpStates
         /\ \A n \in Nat : [s EXCEPT !.events = n] \in SpStates
<1>1. \A u \in SUBSET {"BUSY", "FULL"} : [s EXCEPT !.status = u] \in SpStates
  BY SMT DEF SpStates
<1>2. \A t \in SpRequests : [s EXCEPT !.fifo0 = t] \in SpStates
  BY SMT DEF SpStates
<1>3. \A t \in SpRequests : [s EXCEPT !.fifo1 = t] \in SpStates
  BY SMT DEF SpStates
<1>4. \A p \in Places : [s EXCEPT !.place = p] \in SpStates
  BY SMT DEF SpStates
<1>5. \A p \in Places \cup {Unwritten} : [s EXCEPT !.asked = p] \in SpStates
  BY SMT DEF SpStates
<1>6. \A n \in Nat : [s EXCEPT !.events = n] \in SpStates
  BY SMT DEF SpStates
<1>7. QED
  BY <1>1, <1>2, <1>3, <1>4, <1>5, <1>6

LEMMA DoSpDmaFields ==
  ASSUME NEW s \in SpStates
  PROVE  /\ DoSpDma(s) \in SpStates
         /\ DoSpDma(s).status = s.status /\ DoSpDma(s).events = s.events + 1
         /\ DoSpDma(s).asked = s.asked
         /\ DoSpDma(s).fifo0 = s.fifo0 /\ DoSpDma(s).fifo1 = s.fifo1
<1> DEFINE p == After(s.fifo0.place)
           v == [s EXCEPT !.place = p]
<1>1. p \in Places /\ s.events + 1 \in Nat
  BY SpPlaces, SMT DEF SpStates, SpRequests
<1>2. v \in SpStates
  BY <1>1, SpSetters, Zenon
<1>3. v.events = s.events
  BY SMT DEF SpStates
<1>4. DoSpDma(s) = [v EXCEPT !.events = @ + 1]
  BY DEF DoSpDma
<1>5. DoSpDma(s) \in SpStates
  BY <1>1, <1>2, <1>3, <1>4, SpSetters, Zenon
<1>6. QED
  BY <1>5, SMT DEF DoSpDma, SpStates

LEMMA SpPushFields ==
  ASSUME NEW s \in SpStates, NEW t \in SpRequests
  PROVE  /\ SpFifoPush(s, t) \in SpStates
         /\ SpFifoPush(s, t).asked = s.asked
         /\ "FULL" \in s.status => SpFifoPush(s, t) = s
         /\ "FULL" \notin s.status /\ "BUSY" \in s.status =>
              /\ SpFifoPush(s, t).status = s.status \cup {"FULL"}
              /\ SpFifoPush(s, t).events = s.events
              /\ SpFifoPush(s, t).fifo0 = s.fifo0 /\ SpFifoPush(s, t).fifo1 = t
         /\ "FULL" \notin s.status /\ "BUSY" \notin s.status =>
              /\ SpFifoPush(s, t).status = s.status \cup {"BUSY"}
              /\ SpFifoPush(s, t).events = s.events + 1
              /\ SpFifoPush(s, t).fifo0 = t /\ SpFifoPush(s, t).fifo1 = s.fifo1
<1>1. CASE "FULL" \in s.status
  BY <1>1, SMT DEF SpFifoPush
<1>2. CASE "FULL" \notin s.status /\ "BUSY" \in s.status
  <2> DEFINE v == [s EXCEPT !.fifo1 = t]
             w == [v EXCEPT !.status = s.status \cup {"FULL"}]
  <2>1. SpFifoPush(s, t) = w
    BY <1>2, SMT DEF SpFifoPush
  <2>2. s.status \cup {"FULL"} \in SUBSET {"BUSY", "FULL"}
    BY DEF SpStates
  <2>3. w \in SpStates
    BY <2>2, SpSetters, Zenon
  <2>4. QED
    BY <1>2, <2>1, <2>3, SMT DEF SpStates
<1>3. CASE "FULL" \notin s.status /\ "BUSY" \notin s.status
  <2> DEFINE v == [s EXCEPT !.fifo0 = t]
             w == [v EXCEPT !.status = s.status \cup {"BUSY"}]
  <2>1. SpFifoPush(s, t) = DoSpDma(w)
    BY <1>3, SMT DEF SpFifoPush
  <2>2. s.status \cup {"BUSY"} \in SUBSET {"BUSY", "FULL"}
    BY DEF SpStates
  <2>3. w \in SpStates
    BY <2>2, SpSetters, Zenon
  <2>4. w.status = s.status \cup {"BUSY"} /\ w.events = s.events /\ w.asked = s.asked
          /\ w.fifo0 = t /\ w.fifo1 = s.fifo1
    BY SMT DEF SpStates
  <2> HIDE DEF w
  <2>5. QED
    BY <1>3, <2>1, <2>3, <2>4, DoSpDmaFields
<1>4. QED
  BY <1>1, <1>2, <1>3

LEMMA SpPopFields ==
  ASSUME NEW s \in SpStates
  PROVE  /\ SpFifoPop(s) \in SpStates
         /\ SpFifoPop(s).asked = s.asked
         /\ "FULL" \in s.status =>
              /\ SpFifoPop(s).status = s.status \ {"FULL"}
              /\ SpFifoPop(s).events = s.events + 1
              /\ SpFifoPop(s).fifo0 = s.fifo1 /\ SpFifoPop(s).fifo1 = s.fifo1
         /\ "FULL" \notin s.status =>
              /\ SpFifoPop(s).status = s.status \ {"BUSY"}
              /\ SpFifoPop(s).events = s.events
              /\ SpFifoPop(s).fifo0 = s.fifo0 /\ SpFifoPop(s).fifo1 = s.fifo1
              /\ SpFifoPop(s).place = s.place
<1>1. CASE "FULL" \in s.status
  <2> DEFINE v == [s EXCEPT !.fifo0 = s.fifo1]
             w == [v EXCEPT !.status = s.status \ {"FULL"}]
  <2>1. SpFifoPop(s) = DoSpDma(w)
    BY <1>1, SMT DEF SpFifoPop
  <2>2. s.status \ {"FULL"} \in SUBSET {"BUSY", "FULL"} /\ s.fifo1 \in SpRequests
    BY DEF SpStates
  <2>3. w \in SpStates
    BY <2>2, SpSetters, Zenon
  <2>4. w.status = s.status \ {"FULL"} /\ w.events = s.events /\ w.asked = s.asked
          /\ w.fifo0 = s.fifo1 /\ w.fifo1 = s.fifo1
    BY SMT DEF SpStates
  <2> HIDE DEF w
  <2>5. QED
    BY <1>1, <2>1, <2>3, <2>4, DoSpDmaFields
<1>2. CASE "FULL" \notin s.status
  <2>1. SpFifoPop(s) = [s EXCEPT !.status = s.status \ {"BUSY"}]
    BY <1>2, SMT DEF SpFifoPop
  <2>2. s.status \ {"BUSY"} \in SUBSET {"BUSY", "FULL"}
    BY DEF SpStates
  <2>3. SpFifoPop(s) \in SpStates
    BY <2>1, <2>2, SpSetters, Zenon
  <2>4. QED
    BY <1>2, <2>1, <2>3, SMT DEF SpStates
<1>3. QED
  BY <1>1, <1>2

LEMMA SpWriteAddr ==
  ASSUME SpInv, SP_POLITE = TRUE, NEW p \in Places, WriteSpAddr(p)
  PROVE  SpInv' /\ SpQueue!Other
<1> DEFINE v == [sp EXCEPT !.place = p]
           w == [v EXCEPT !.asked = p]
<1>1. sp \in SpStates /\ sp' = w /\ "FULL" \notin sp.status /\ spDone' = <<>>
  BY DEF SpInv, SpTypeOK, WriteSpAddr
<1>2. w \in SpStates
  BY <1>1, SpSetters, Zenon
<1>3. w.status = sp.status /\ w.events = sp.events /\ w.asked = p /\ w.place = p
        /\ w.fifo0 = sp.fifo0 /\ w.fifo1 = sp.fifo1
  BY <1>1, SMT DEF SpStates
<1> HIDE DEF w
<1>4. SpInv'
  BY <1>1, <1>2, <1>3 DEF SpInv, SpTypeOK, SpBusyServed
<1>5. QED
  BY <1>1, <1>3, <1>4 DEF SpQueue!Other

LEMMA SpWriteLen ==
  ASSUME SpInv, NEW dir \in {"read", "write"}, WriteSpLen(dir)
  PROVE  SpInv' /\ SpQueue!Next
<1> DEFINE t == [dir |-> dir, place |-> sp.place, asked |-> sp.asked]
           u == SpFifoPush(sp, t)
           w == [u EXCEPT !.asked = Unwritten]
<1>1. sp \in SpStates /\ sp' = w /\ spDone' = <<>>
  BY DEF SpInv, SpTypeOK, WriteSpLen
<1>2. t \in SpRequests /\ t.asked \in {t.place, Unwritten}
  BY <1>1, SMT DEF SpStates, SpRequests, SpInv
<1>3. u \in SpStates
  BY <1>1, <1>2, SpPushFields, Zenon
<1>4. w \in SpStates
  BY <1>3, SpSetters, Zenon
<1>5. w.status = u.status /\ w.events = u.events /\ w.asked = Unwritten
        /\ w.fifo0 = u.fifo0 /\ w.fifo1 = u.fifo1 /\ w.place = u.place
  <2> HIDE DEF u
  <2> QED BY <1>3, SMT DEF SpStates
<1> HIDE DEF w, u, t
<1>6. CASE "FULL" \in sp.status
  <2>1. u = sp
    BY <1>1, <1>2, <1>6, SpPushFields, Zenon DEF u
  <2>2. SpInv'
    BY <1>1, <1>4, <1>5, <2>1 DEF SpInv, SpTypeOK, SpBusyServed
  <2>3. SpQueue!Other
    BY <1>1, <1>5, <2>1 DEF SpQueue!Other
  <2>4. QED
    BY <2>2, <2>3 DEF SpQueue!Next
<1>7. CASE "FULL" \notin sp.status /\ "BUSY" \in sp.status
  <2>1. u.status = sp.status \cup {"FULL"} /\ u.events = sp.events
          /\ u.fifo0 = sp.fifo0 /\ u.fifo1 = t
    BY <1>1, <1>2, <1>7, SpPushFields, Zenon DEF u
  <2>2. SpInv'
    BY <1>1, <1>2, <1>4, <1>5, <1>7, <2>1 DEF SpInv, SpTypeOK, SpBusyServed
  <2>3. SpQueue!Submit(t)
    BY <1>1, <1>5, <1>7, <2>1 DEF SpQueue!Submit
  <2>4. QED
    BY <1>2, <2>2, <2>3 DEF SpQueue!Next
<1>8. CASE "FULL" \notin sp.status /\ "BUSY" \notin sp.status
  <2>1. u.status = sp.status \cup {"BUSY"} /\ u.events = sp.events + 1
          /\ u.fifo0 = t /\ u.fifo1 = sp.fifo1
    BY <1>1, <1>2, <1>8, SpPushFields, Zenon DEF u
  <2>2. SpInv'
    BY <1>1, <1>2, <1>4, <1>5, <1>8, <2>1 DEF SpInv, SpTypeOK, SpBusyServed
  <2>3. SpQueue!Submit(t)
    BY <1>1, <1>5, <1>8, <2>1 DEF SpQueue!Submit
  <2>4. QED
    BY <1>2, <2>2, <2>3 DEF SpQueue!Next
<1>9. QED
  BY <1>6, <1>7, <1>8

LEMMA SpEnd ==
  ASSUME SpInv, RspEndOfDma
  PROVE  SpInv' /\ SpQueue!Complete
<1> DEFINE v == [sp EXCEPT !.events = sp.events - 1]
           w == SpFifoPop(v)
<1>1. sp \in SpStates /\ sp' = w /\ spDone' = <<sp.fifo0>> /\ sp.events > 0
  BY DEF SpInv, SpTypeOK, RspEndOfDma
<1>2. sp.events = 1 /\ "BUSY" \in sp.status
  BY <1>1 DEF SpInv, SpBusyServed
<1>3. v \in SpStates
  <2>1. sp.events - 1 \in Nat
    BY <1>2
  <2>2. QED
    BY <1>1, <2>1, SpSetters, Zenon
<1>4. v.status = sp.status /\ v.events = 0 /\ v.asked = sp.asked
        /\ v.fifo0 = sp.fifo0 /\ v.fifo1 = sp.fifo1 /\ v.place = sp.place
  BY <1>1, <1>2, SMT DEF SpStates
<1> HIDE DEF v
<1>5. w \in SpStates /\ w.asked = v.asked
  BY <1>3, SpPopFields, Zenon
<1>a. spDone' \in Seq(SpRequests)
  <2>1. sp.fifo0 \in SpRequests
    BY <1>1 DEF SpStates
  <2>2. QED
    BY <1>1, <2>1
<1>6. CASE "FULL" \in sp.status
  <2>1. w.status = sp.status \ {"FULL"} /\ w.events = v.events + 1
          /\ w.fifo0 = sp.fifo1 /\ w.fifo1 = sp.fifo1
    BY <1>3, <1>4, <1>6, SpPopFields, Zenon
  <2> HIDE DEF w
  <2>2. SpInv'
    BY <1>1, <1>2, <1>a, <1>4, <1>5, <1>6, <2>1 DEF SpInv, SpTypeOK, SpBusyServed
  <2>3. SpQueue!Complete
    BY <1>1, <1>2, <1>6, <2>1 DEF SpQueue!Complete
  <2>4. QED
    BY <2>2, <2>3
<1>7. CASE "FULL" \notin sp.status
  <2>1. w.status = sp.status \ {"BUSY"} /\ w.events = v.events
          /\ w.fifo0 = sp.fifo0 /\ w.fifo1 = sp.fifo1 /\ w.place = sp.place
    BY <1>3, <1>4, <1>7, SpPopFields, Zenon
  <2> HIDE DEF w
  <2>2. SpInv'
    BY <1>1, <1>2, <1>a, <1>4, <1>5, <1>7, <2>1 DEF SpInv, SpTypeOK, SpBusyServed
  <2>3. SpQueue!Complete
    BY <1>1, <1>2, <1>7, <2>1 DEF SpQueue!Complete
  <2>4. QED
    BY <2>2, <2>3
<1>8. QED
  BY <1>6, <1>7

LEMMA SpPowerOnInv ==
  ASSUME SpPowerOn
  PROVE  SpInv' /\ SpQueue!Reset
<1>1. SpReset \in SpStates /\ SpReset.asked = Unwritten
  BY SpPlaces, SMT DEF SpReset, NoRequest, SpRequests, SpStates
<1>2. SpReset.status = {} /\ SpReset.events = 0 /\ SpReset.fifo0.asked = Unwritten
        /\ SpReset.fifo1.asked = Unwritten
  BY DEF SpReset, NoRequest
<1>3. sp' = SpReset /\ spDone' = <<>>
  BY DEF SpPowerOn
<1> HIDE DEF SpReset
<1>4. QED
  BY <1>1, <1>2, <1>3 DEF SpInv, SpTypeOK, SpBusyServed, SpQueue!Reset

LEMMA SpNmiInv ==
  ASSUME SpInv, SpNmi, "BUSY" \notin sp.status
  PROVE  SpInv' /\ SpQueue!Other
<1> DEFINE w == [sp EXCEPT !.events = 0]
<1>1. sp \in SpStates /\ sp' = w /\ spDone' = <<>>
  BY DEF SpInv, SpTypeOK, SpNmi
<1>2. w \in SpStates
  BY <1>1, SpSetters, Zenon
<1>3. w.status = sp.status /\ w.events = 0 /\ w.asked = sp.asked
        /\ w.fifo0 = sp.fifo0 /\ w.fifo1 = sp.fifo1 /\ w.place = sp.place
  BY <1>1, SMT DEF SpStates
<1> HIDE DEF w
<1>4. QED
  BY <1>1, <1>2, <1>3 DEF SpInv, SpTypeOK, SpBusyServed, SpQueue!Other

LEMMA SpOtherInv ==
  ASSUME SpInv, SpOther
  PROVE  SpInv' /\ SpQueue!Other
BY DEF SpInv, SpTypeOK, SpBusyServed, SpOther, SpQueue!Other

(* The programs that SpQueueSpec speaks of.                                *)
LEMMA SpStep ==
  ASSUME SP_POLITE = TRUE, QUIET = TRUE, SpInv, [Next]_rcpVars
  PROVE  SpInv' /\ [SpQueue!Next]_SpQueue!vars
<1>1. CASE OfSp(SpNext)
  <2>1. ASSUME NEW p \in Places, WriteSpAddr(p) PROVE SpInv' /\ SpQueue!Next
    BY <2>1, SpWriteAddr DEF SpQueue!Next
  <2>2. ASSUME NEW dir \in {"read", "write"}, WriteSpLen(dir) PROVE SpInv' /\ SpQueue!Next
    BY <2>2, SpWriteLen
  <2>3. ASSUME RspEndOfDma PROVE SpInv' /\ SpQueue!Next
    BY <2>3, SpEnd DEF SpQueue!Next
  <2>4. QED
    BY <1>1, <2>1, <2>2, <2>3 DEF OfSp, SpNext
<1>2. CASE OfSi(SiNext) \/ OfPi(PiNext) \/ OfAi(AiNext)
  <2>1. SpOther
    BY <1>2 DEF OfSi, OfPi, OfAi
  <2>2. QED
    BY <2>1, SpOtherInv DEF SpQueue!Next
<1>3. CASE ResetHardHandler
  BY <1>3, SpPowerOnInv DEF ResetHardHandler, SpQueue!Next
<1>4. CASE NmiHandler
  BY <1>4, SpNmiInv DEF NmiHandler, SpQueue!Next
<1>5. CASE UNCHANGED rcpVars
  <2>1. sp' = sp /\ spDone' = spDone
    BY <1>5 DEF rcpVars, spVars
  <2>2. QED
    BY <2>1 DEF SpInv, SpTypeOK, SpBusyServed, SpQueue!vars
<1>6. QED
  BY <1>1, <1>2, <1>3, <1>4, <1>5 DEF Next

(* The DMA engine of the SP carries the transfers of a program that writes *)
(* addresses only while it has room out as they were written, in order.    *)
THEOREM SpQueueImplemented == SP_POLITE = TRUE /\ QUIET = TRUE => (Spec => SpQueueSpec)
<1> SUFFICES ASSUME SP_POLITE = TRUE, QUIET = TRUE PROVE Spec => SpQueueSpec
  OBVIOUS
<1>1. Init => SpInv /\ SpQueue!Init
  <2> SUFFICES ASSUME Init PROVE SpInv /\ SpQueue!Init
    OBVIOUS
  <2>1. SpInit
    BY DEF Init
  <2>2. SpInv
    BY <2>1, SpInitInv
  <2>3. sp.status = {} /\ spDone = <<>>
    BY <2>1 DEF SpInit, SpReset
  <2>4. QED
    BY <2>2, <2>3 DEF SpQueue!Init
<1>2. SpInv /\ [Next]_rcpVars => SpInv' /\ [SpQueue!Next]_SpQueue!vars
  BY SpStep
<1>3. QED
  BY <1>1, <1>2, PTL DEF Spec, SpQueueSpec, SpQueue!Spec

-----------------------------------------------------------------------------
(* The AI.                                                                 *)
AiInv == AiTypeOK /\ AiBusyServed /\ FormatPassedOn /\ (ai.changed => ai.rate # 0)

Chunks == [addr : ADDRESSES, from : 0 .. MAX_LEN, to : 0 .. MAX_LEN]
BackEnds == [rate : RATES \cup {PLUGIN_RATE}, pushed : Seq(Chunks)]

LEMMA BackEndPush ==
  ASSUME AiInv, NEW q \in Seq(Chunks)
  PROVE  /\ aout \in BackEnds
         /\ [aout EXCEPT !.pushed = q] \in BackEnds
         /\ [aout EXCEPT !.pushed = q].rate = aout.rate
         /\ [aout EXCEPT !.pushed = q].pushed = q
<1>1. aout \in BackEnds
  BY DEF AiInv, AiTypeOK, Chunks, BackEnds
<1>2. QED
  BY <1>1, SMT DEF BackEnds


(* One register at a time.                                                 *)
LEMMA AiSetters ==
  ASSUME NEW a \in AiStates
  PROVE  /\ \A u \in SUBSET {"BUSY", "FULL"} : [a EXCEPT !.status = u] \in AiStates
         /\ \A b \in Buffers : [a EXCEPT !.fifo0 = b] \in AiStates
         /\ \A b \in Buffers : [a EXCEPT !.fifo1 = b] \in AiStates
         /\ \A n \in 0 .. MAX_LEN : [a EXCEPT !.last = n] \in AiStates
         /\ \A n \in 0 .. NoEvent : [a EXCEPT !.event = n] \in AiStates
         /\ \A r \in RATES : [a EXCEPT !.rate = r] \in AiStates
         /\ \A c \in BOOLEAN : [a EXCEPT !.changed = c] \in AiStates
<1>1. \A u \in SUBSET {"BUSY", "FULL"} : [a EXCEPT !.status = u] \in AiStates
  BY SMT DEF AiStates
<1>2. \A b \in Buffers : [a EXCEPT !.fifo0 = b] \in AiStates
  BY SMT DEF AiStates
<1>3. \A b \in Buffers : [a EXCEPT !.fifo1 = b] \in AiStates
  BY SMT DEF AiStates
<1>4. \A n \in 0 .. MAX_LEN : [a EXCEPT !.last = n] \in AiStates
  BY SMT DEF AiStates
<1>5. \A n \in 0 .. NoEvent : [a EXCEPT !.event = n] \in AiStates
  BY SMT DEF AiStates
<1>6. \A r \in RATES : [a EXCEPT !.rate = r] \in AiStates
  BY SMT DEF AiStates
<1>7. \A c \in BOOLEAN : [a EXCEPT !.changed = c] \in AiStates
  BY SMT DEF AiStates
<1>8. QED
  BY <1>1, <1>2, <1>3, <1>4, <1>5, <1>6, <1>7

LEMMA DoDmaFields ==
  ASSUME NEW a \in AiStates, NEW b \in Buffers
  PROVE  /\ DoDma(a, b) \in AiStates
         /\ DoDma(a, b).fifo0 = b /\ DoDma(a, b).last = b.len
         /\ DoDma(a, b).event = b.len /\ DoDma(a, b).event # NoEvent
         /\ DoDma(a, b).changed = FALSE
         /\ DoDma(a, b).status = a.status /\ DoDma(a, b).rate = a.rate
         /\ DoDma(a, b).fifo1 = a.fifo1
<1> DEFINE w1 == [a EXCEPT !.fifo0 = b]
           w2 == [w1 EXCEPT !.last = b.len]
           w3 == [w2 EXCEPT !.event = b.len]
           w4 == [w3 EXCEPT !.changed = FALSE]
<1>1. b.len \in 0 .. MAX_LEN /\ b.len \in 0 .. NoEvent /\ b.len # NoEvent
  BY AiAssumption DEF Buffers, NoEvent
<1>2. w1 \in AiStates
  BY AiSetters, Zenon
<1>3. w2 \in AiStates
  BY <1>1, <1>2, AiSetters, Zenon
<1>4. w3 \in AiStates
  BY <1>1, <1>3, AiSetters, Zenon
<1>5. w4 \in AiStates
  BY <1>4, AiSetters, Zenon
<1>6. DoDma(a, b) = w4
  BY DEF DoDma
<1>7. QED
  BY <1>1, <1>5, <1>6, SMT DEF AiStates

LEMMA PushedType ==
  ASSUME AiInv, NEW m \in 0 .. MAX_LEN, m <= ai.last
  PROVE  Pushed(ai.last, m) \in Seq(Chunks)
<1>1. CASE ai.last = m
  BY <1>1 DEF Pushed
<1>2. CASE ai.last # m
  <2> DEFINE b == ai.fifo0
             x == [addr |-> b.addr, from |-> b.len - ai.last, to |-> b.len - m]
  <2>1. b \in Buffers /\ ai.last \in 0 .. MAX_LEN /\ ai.last <= b.len
    BY DEF AiInv, AiTypeOK, AiStates, AiBusyServed
  <2>2. x \in Chunks
    BY <2>1, AiAssumption DEF Chunks, Buffers
  <2>3. Pushed(ai.last, m) = <<x>>
    BY <1>2 DEF Pushed
  <2>4. QED
    BY <2>2, <2>3
<1>3. QED
  BY <1>1, <1>2

LEMMA AppendToOne ==
  ASSUME NEW S, NEW x \in S, NEW y \in S
  PROVE  Append(<<x>>, y) = <<x, y>>
<1>1. <<x>> \in Seq(S) /\ <<x, y>> \in Seq(S)
  OBVIOUS
<1>2. Len(<<x>>) = 1 /\ Len(<<x, y>>) = 2 /\ <<x>>[1] = x /\ <<x, y>>[1] = x /\ <<x, y>>[2] = y
  OBVIOUS
<1> DEFINE r == Append(<<x>>, y)
<1>3. r \in Seq(S) /\ Len(r) = 2 /\ r[1] = x /\ r[2] = y
  BY <1>1, <1>2, AppendProperties
<1> HIDE DEF r
<1>4. \A i \in 1 .. Len(r) : r[i] = <<x, y>>[i]
  BY <1>2, <1>3
<1>5. r = <<x, y>>
  BY <1>1, <1>2, <1>3, <1>4, SeqEqual
<1>6. QED
  BY <1>5 DEF r

LEMMA FrequencyType ==
  ASSUME AiInv
  PROVE  Frequency(ai) \in RATES \cup {PLUGIN_RATE} /\ (ai.rate # 0 => Frequency(ai) = ai.rate)
<1>1. ai.rate \in RATES \cup {0} /\ aout.rate \in RATES \cup {PLUGIN_RATE} /\ ai.changed \in BOOLEAN
  BY DEF AiInv, AiTypeOK, AiStates
<1>2. CASE ai.changed
  BY <1>1, <1>2 DEF AiInv, Frequency
<1>3. CASE ~ai.changed
  BY <1>1, <1>3 DEF AiInv, FormatPassedOn, Frequency
<1>4. QED
  BY <1>2, <1>3

(* A buffer is submitted.                                                  *)
LEMMA AiFifoPush ==
  ASSUME AiInv, NEW b \in Buffers, FifoPush(b)
  PROVE  AiInv' /\ Stream!Next
<1>1. ai \in AiStates /\ aout.rate \in RATES \cup {PLUGIN_RATE} /\ aiLine \in BOOLEAN
  BY DEF AiInv, AiTypeOK
<1>2. CASE "BUSY" \in ai.status
  <2> DEFINE v == [ai EXCEPT !.fifo1 = b]
             w == [v EXCEPT !.status = ai.status \cup {"FULL"}]
  <2>1. ai' = w /\ aiLine' = aiLine /\ aout' = [aout EXCEPT !.pushed = <<>>]
    BY <1>2 DEF FifoPush
  <2>2. ai.status \cup {"FULL"} \in SUBSET {"BUSY", "FULL"}
    BY <1>1 DEF AiStates
  <2>3. w \in AiStates
    BY <1>1, <2>2, AiSetters, Zenon
  <2>4. /\ w.status = ai.status \cup {"FULL"} /\ w.fifo1 = b /\ w.fifo0 = ai.fifo0
        /\ w.last = ai.last /\ w.event = ai.event /\ w.rate = ai.rate /\ w.changed = ai.changed
    BY <1>1, SMT DEF AiStates
  <2> HIDE DEF w
  <2>5. <<>> \in Seq(Chunks)
    OBVIOUS
  <2>6. aout'.pushed = <<>> /\ aout'.rate = aout.rate /\ aout' \in BackEnds
    BY <2>1, <2>5, BackEndPush
  <2>7. AiInv'
    BY <1>1, <1>2, <2>1, <2>3, <2>4, <2>6
    DEF AiInv, AiTypeOK, AiBusyServed, FormatPassedOn, Chunks, BackEnds
  <2>8. /\ Playing = IF "FULL" \in ai.status THEN <<ai.fifo0, ai.fifo1>> ELSE <<ai.fifo0>>
        /\ Playing' = <<ai.fifo0, b>>
    BY <1>2, <2>1, <2>4 DEF Playing, Holding
  <2>9. Playing' = IF Len(Playing) < 2 THEN Append(Playing, b) ELSE <<Playing[1], b>>
    <3>1. CASE "FULL" \in ai.status
      BY <2>8, <3>1
    <3>2. CASE "FULL" \notin ai.status
      <4>1. Playing = <<ai.fifo0>> /\ Len(<<ai.fifo0>>) = 1
        BY <2>8, <3>2
      <4>2. Append(<<ai.fifo0>>, b) = <<ai.fifo0, b>>
        <5>1. ai.fifo0 \in Buffers
          BY <1>1 DEF AiStates
        <5>2. QED
          BY <5>1, AppendToOne
      <4>3. QED
        BY <2>8, <4>1, <4>2
    <3>3. QED
      BY <3>1, <3>2
  <2>10. Stream!Submit(b)
    BY <1>2, <2>1, <2>4, <2>6, <2>9 DEF Stream!Submit, Holding
  <2>11. QED
    BY <2>7, <2>10 DEF Stream!Next
<1>3. CASE "BUSY" \notin ai.status
  <2> DEFINE v == [ai EXCEPT !.status = ai.status \cup {"BUSY"}]
             w == DoDma(v, b)
  <2>1. ai' = w /\ aiLine' = TRUE /\ aout' = [rate |-> Frequency(ai), pushed |-> <<>>]
    BY <1>3 DEF FifoPush
  <2>2. ai.status \cup {"BUSY"} \in SUBSET {"BUSY", "FULL"}
    BY <1>1 DEF AiStates
  <2>3. v \in AiStates
    BY <1>1, <2>2, AiSetters, Zenon
  <2>4. v.status = ai.status \cup {"BUSY"} /\ v.rate = ai.rate
    BY <1>1, SMT DEF AiStates
  <2> HIDE DEF v
  <2>5. /\ w \in AiStates /\ w.fifo0 = b /\ w.last = b.len /\ w.event # NoEvent
        /\ w.changed = FALSE /\ w.status = ai.status \cup {"BUSY"} /\ w.rate = ai.rate
    BY <2>3, <2>4, DoDmaFields
  <2> HIDE DEF w
  <2>6. Frequency(ai) \in RATES \cup {PLUGIN_RATE} /\ (ai.rate # 0 => Frequency(ai) = ai.rate)
    BY FrequencyType
  <2>7. <<>> \in Seq(Chunks)
    OBVIOUS
  <2>8. aout'.pushed = <<>> /\ aout'.rate = Frequency(ai) /\ aout' \in BackEnds
    BY <2>1, <2>6, <2>7 DEF BackEnds
  <2>9. AiInv'
    BY <1>1, <1>3, <2>1, <2>5, <2>6, <2>8
    DEF AiInv, AiTypeOK, AiBusyServed, FormatPassedOn, Chunks, BackEnds, Buffers
  <2>10. "FULL" \notin ai.status
    BY <1>3 DEF AiInv, AiBusyServed
  <2>11. Playing' = <<b>> /\ Holding' /\ ai'.fifo0.len - ai'.last = 0
    BY <2>1, <2>5, <2>10, AiAssumption DEF Playing, Holding, Buffers
  <2>12. CASE ai.last = 0
    <3>1. Playing = <<>> /\ ~Holding
      BY <1>3, <2>12 DEF Playing, Holding
    <3>2. Stream!Submit(b)
      BY <1>3, <2>1, <2>5, <2>8, <2>11, <2>12, <3>1 DEF Stream!Submit
    <3>3. QED
      BY <2>9, <3>2 DEF Stream!Next
  <2>13. CASE ai.last # 0
    <3>1. Stream!Restart(b)
      BY <1>3, <2>1, <2>5, <2>8, <2>11, <2>13 DEF Stream!Restart
    <3>2. QED
      BY <2>9, <3>1 DEF Stream!Next
  <2>14. QED
    BY <2>12, <2>13
<1>4. QED
  BY <1>2, <1>3

(* A read of AI_LEN_REG plays what was played since the last one; after a  *)
(* soft reset it plays the rest of the buffer the reset stopped.           *)
LEMMA AiRead ==
  ASSUME AiInv, ReadAiLen
  PROVE  AiInv' /\ Stream!Next
<1> DEFINE left == IF Remaining < ai.last THEN Remaining ELSE ai.last
           w == [ai EXCEPT !.last = left]
<1>1. /\ ai \in AiStates /\ aiLine \in BOOLEAN /\ ai.last \in 0 .. MAX_LEN
      /\ ai.last <= ai.fifo0.len /\ ai.fifo0.len \in 0 .. MAX_LEN
      /\ ai.event \in 0 .. NoEvent /\ MAX_LEN \in Nat
  BY AiAssumption DEF AiInv, AiTypeOK, AiStates, AiBusyServed, Buffers
<1>2. left \in 0 .. MAX_LEN /\ left <= ai.last
  BY <1>1 DEF Remaining, NoEvent
<1> HIDE DEF left
<1>3. w \in AiStates
  BY <1>1, <1>2, AiSetters, Zenon
<1>4. /\ w.status = ai.status /\ w.fifo1 = ai.fifo1 /\ w.fifo0 = ai.fifo0
      /\ w.last = left /\ w.event = ai.event /\ w.rate = ai.rate /\ w.changed = ai.changed
  BY <1>1, SMT DEF AiStates
<1>5. ai' = w /\ aiLine' = aiLine /\ aout' = [aout EXCEPT !.pushed = Pushed(ai.last, left)]
  BY DEF ReadAiLen, left
<1>6. aout'.pushed = Pushed(ai.last, left) /\ aout'.rate = aout.rate /\ aout' \in BackEnds
  BY <1>2, <1>5, PushedType, BackEndPush
<1> HIDE DEF w
<1>7. AiInv'
  BY <1>1, <1>2, <1>3, <1>4, <1>5, <1>6
  DEF AiInv, AiTypeOK, AiBusyServed, FormatPassedOn, Chunks, BackEnds
<1>8. CASE "BUSY" \in ai.status
  <2>1. Holding /\ Holding' /\ Playing' = Playing /\ Playing # <<>> /\ Head(Playing) = ai.fifo0
    BY <1>4, <1>5, <1>8 DEF Playing, Holding
  <2>2. ai.fifo0.len - left \in (ai.fifo0.len - ai.last) .. Head(Playing).len
    BY <1>1, <1>2, <2>1
  <2>3. Stream!Play(ai.fifo0.len - left)
    <3>1. Pushed(ai.last, left)
            = Stream!Chunk(ai.fifo0, ai.fifo0.len - ai.last, ai.fifo0.len - left)
      BY <1>1, <1>2 DEF Pushed, Stream!Chunk
    <3>2. QED
      BY <1>4, <1>5, <1>6, <1>8, <2>1, <3>1 DEF Stream!Play
  <2>4. QED
    BY <1>7, <2>1, <2>2, <2>3 DEF Stream!Next
<1>9. CASE "BUSY" \notin ai.status
  <2>1. left = 0
    BY <1>1, <1>9 DEF left, Remaining, AiInv, AiBusyServed
  <2>2. ~Holding' /\ Playing' = <<>>
    BY <1>4, <1>5, <1>9, <2>1 DEF Playing, Holding
  <2>3. "FULL" \notin ai.status
    BY <1>9 DEF AiInv, AiBusyServed
  <2>4. CASE ai.last = 0
    <3>1. ~Holding /\ Playing = <<>> /\ Pushed(ai.last, left) = <<>>
      BY <1>9, <2>1, <2>4 DEF Playing, Holding, Pushed
    <3>2. Stream!Other
      BY <1>4, <1>5, <1>6, <1>9, <2>1, <2>2, <2>4, <3>1 DEF Stream!Other
    <3>3. QED
      BY <1>7, <3>2 DEF Stream!Next
  <2>5. CASE ai.last # 0
    <3>1. Holding /\ Playing = <<ai.fifo0>>
      BY <2>3, <2>5 DEF Playing, Holding
    <3>2. Pushed(ai.last, left)
            = Stream!Chunk(ai.fifo0, ai.fifo0.len - ai.last, ai.fifo0.len)
      BY <1>1, <2>1, <2>5 DEF Pushed, Stream!Chunk
    <3>3. Stream!Finish
      BY <1>4, <1>5, <1>6, <2>1, <2>2, <3>1, <3>2 DEF Stream!Finish
    <3>4. QED
      BY <1>7, <3>3 DEF Stream!Next
  <2>6. QED
    BY <2>4, <2>5
<1>10. QED
  BY <1>8, <1>9

(* AI_INT ends a buffer.                                                   *)
LEMMA AiEnd ==
  ASSUME AiInv, AiEndOfDma
  PROVE  AiInv' /\ Stream!Next
<1> DEFINE v0 == [ai EXCEPT !.event = NoEvent]
           v == [v0 EXCEPT !.last = 0]
<1>1. /\ ai \in AiStates /\ ai.last \in 0 .. MAX_LEN /\ ai.last <= ai.fifo0.len
      /\ ai.fifo0 \in Buffers /\ ai.fifo0.len \in 0 .. MAX_LEN /\ ai.fifo1 \in Buffers
      /\ ai.event = 0 /\ MAX_LEN \in Nat /\ ai.fifo1.len \in 0 .. MAX_LEN
  BY AiAssumption DEF AiInv, AiTypeOK, AiStates, AiBusyServed, Buffers, AiEndOfDma
<1>2. "BUSY" \in ai.status
  BY <1>1 DEF AiInv, AiBusyServed, NoEvent
<1>3. 0 \in 0 .. MAX_LEN /\ NoEvent \in 0 .. NoEvent
  BY <1>1 DEF NoEvent
<1>4. v \in AiStates
  BY <1>1, <1>3, AiSetters, Zenon
<1>5. /\ v.status = ai.status /\ v.fifo1 = ai.fifo1 /\ v.fifo0 = ai.fifo0
      /\ v.last = 0 /\ v.event = NoEvent /\ v.rate = ai.rate /\ v.changed = ai.changed
  BY <1>1, SMT DEF AiStates
<1>6. ai' = FifoPop(v) /\ aiLine' = TRUE
        /\ aout' = [rate |-> IF "FULL" \in ai.status THEN Frequency(ai) ELSE aout.rate,
                    pushed |-> Pushed(ai.last, 0)]
  BY DEF AiEndOfDma
<1> HIDE DEF v
<1>7. Pushed(ai.last, 0) \in Seq(Chunks)
  BY <1>1, <1>3, PushedType
<1>8. Pushed(ai.last, 0) = Stream!Chunk(ai.fifo0, ai.fifo0.len - ai.last, ai.fifo0.len)
  BY <1>1 DEF Pushed, Stream!Chunk
<1>9. CASE "FULL" \in ai.status
  <2> DEFINE u == [v EXCEPT !.status = v.status \ {"FULL"}]
             w == DoDma(u, v.fifo1)
  <2>1. ai' = w
    BY <1>5, <1>6, <1>9 DEF FifoPop
  <2>2. v.status \ {"FULL"} \in SUBSET {"BUSY", "FULL"}
    BY <1>4 DEF AiStates
  <2>3. u \in AiStates
    BY <1>4, <2>2, AiSetters, Zenon
  <2>4. u.status = ai.status \ {"FULL"} /\ u.rate = ai.rate
    BY <1>4, <1>5, SMT DEF AiStates
  <2> HIDE DEF u
  <2>5. /\ w \in AiStates /\ w.fifo0 = ai.fifo1 /\ w.last = ai.fifo1.len /\ w.event # NoEvent
        /\ w.changed = FALSE /\ w.status = ai.status \ {"FULL"} /\ w.rate = ai.rate
    <3>0. v.fifo1 \in Buffers
      BY <1>1, <1>5
    <3>1. /\ w \in AiStates /\ w.fifo0 = v.fifo1 /\ w.last = v.fifo1.len /\ w.event # NoEvent
          /\ w.changed = FALSE /\ w.status = u.status /\ w.rate = u.rate
      BY <2>3, <3>0, DoDmaFields, Zenon
    <3> HIDE DEF w
    <3>2. QED
      BY <1>5, <2>4, <3>1
  <2> HIDE DEF w
  <2>6. aout'.pushed = Pushed(ai.last, 0) /\ aout'.rate = Frequency(ai) /\ aout' \in BackEnds
    BY <1>6, <1>7, <1>9, FrequencyType DEF BackEnds
  <2>7. AiInv'
    BY <1>1, <1>2, <1>6, <2>1, <2>5, <2>6, FrequencyType
    DEF AiInv, AiTypeOK, AiBusyServed, FormatPassedOn, Chunks, BackEnds
  <2>8. Holding /\ Playing = <<ai.fifo0, ai.fifo1>>
    BY <1>2, <1>9 DEF Playing, Holding
  <2>9. Holding' /\ Playing' = <<ai.fifo1>> /\ ai'.fifo0.len - ai'.last = 0
    BY <1>1, <1>2, <2>1, <2>5 DEF Playing, Holding
  <2>10. Stream!Finish
    BY <1>2, <1>8, <2>1, <2>5, <2>6, <2>8, <2>9 DEF Stream!Finish
  <2>11. QED
    BY <2>7, <2>10 DEF Stream!Next
<1>10. CASE "FULL" \notin ai.status
  <2> DEFINE w == [v EXCEPT !.status = v.status \ {"BUSY"}]
  <2>1. ai' = w
    BY <1>5, <1>6, <1>10 DEF FifoPop
  <2>2. v.status \ {"BUSY"} \in SUBSET {"BUSY", "FULL"}
    BY <1>4 DEF AiStates
  <2>3. w \in AiStates
    BY <1>4, <2>2, AiSetters, Zenon
  <2>4. /\ w.status = ai.status \ {"BUSY"} /\ w.fifo0 = ai.fifo0 /\ w.last = 0
        /\ w.event = NoEvent /\ w.rate = ai.rate /\ w.changed = ai.changed
    BY <1>4, <1>5, SMT DEF AiStates
  <2> HIDE DEF w
  <2>5. aout'.pushed = Pushed(ai.last, 0) /\ aout'.rate = aout.rate /\ aout' \in BackEnds
    BY <1>6, <1>7, <1>10, BackEndPush DEF BackEnds
  <2>6. AiInv'
    BY <1>1, <1>6, <1>10, <2>1, <2>3, <2>4, <2>5
    DEF AiInv, AiTypeOK, AiBusyServed, FormatPassedOn, Chunks, BackEnds
  <2>7. Holding /\ Playing = <<ai.fifo0>>
    BY <1>2, <1>10 DEF Playing, Holding
  <2>8. ~Holding' /\ Playing' = <<>>
    BY <2>1, <2>4 DEF Playing, Holding
  <2>9. Stream!Finish
    BY <1>8, <2>1, <2>4, <2>5, <2>7, <2>8 DEF Stream!Finish
  <2>10. QED
    BY <2>6, <2>9 DEF Stream!Next
<1>11. QED
  BY <1>9, <1>10

LEMMA AiQuiet ==
  ASSUME AiInv, aout' = [aout EXCEPT !.pushed = <<>>]
  PROVE  aout'.pushed = <<>> /\ aout'.rate = aout.rate /\ aout' \in BackEnds
<1>1. <<>> \in Seq(Chunks)
  OBVIOUS
<1>2. QED
  BY <1>1, BackEndPush

LEMMA AiDacRate ==
  ASSUME AiInv, NEW r \in RATES, WriteDacRate(r)
  PROVE  AiInv' /\ Stream!Other
<1> DEFINE c == ai.changed \/ r # ai.rate
           v == [ai EXCEPT !.rate = r]
           w == [v EXCEPT !.changed = c]
<1>1. /\ ai \in AiStates /\ aiLine \in BOOLEAN /\ ai.changed \in BOOLEAN
      /\ r \in Nat /\ r # 0
  BY AiAssumption DEF AiInv, AiTypeOK, AiStates
<1>2. c \in BOOLEAN
  OBVIOUS
<1>3. ai' = w /\ aiLine' = aiLine
  BY DEF WriteDacRate
<1>4. aout'.pushed = <<>> /\ aout'.rate = aout.rate /\ aout' \in BackEnds
  BY AiQuiet DEF WriteDacRate
<1>5. w \in AiStates
  <2> HIDE DEF c
  <2>1. QED
    BY <1>1, <1>2, AiSetters, Zenon
<1>6. /\ w.status = ai.status /\ w.fifo1 = ai.fifo1 /\ w.fifo0 = ai.fifo0
      /\ w.last = ai.last /\ w.event = ai.event /\ w.rate = r /\ w.changed = c
  <2> HIDE DEF c
  <2>1. QED
    BY <1>1, SMT DEF AiStates
<1> HIDE DEF w
<1>7. AiInv'
  <2>1. AiTypeOK' /\ AiBusyServed'
    BY <1>1, <1>3, <1>4, <1>5, <1>6 DEF AiInv, AiTypeOK, AiBusyServed, Chunks, BackEnds
  <2>2. FormatPassedOn' /\ (ai.changed => ai.rate # 0)'
    BY <1>1, <1>3, <1>4, <1>6 DEF AiInv, FormatPassedOn
  <2>3. QED
    BY <2>1, <2>2 DEF AiInv
<1>8. Stream!Other
  BY <1>3, <1>4, <1>6 DEF Stream!Other, Playing, Holding
<1>9. QED
  BY <1>7, <1>8

LEMMA AiTick ==
  ASSUME AiInv, Tick
  PROVE  AiInv' /\ Stream!Other
<1> DEFINE w == [ai EXCEPT !.event = ai.event - 1]
<1>1. /\ ai \in AiStates /\ aiLine \in BOOLEAN
      /\ ai.event \in 0 .. MAX_LEN /\ ai.event > 0 /\ MAX_LEN \in Nat
  BY AiAssumption DEF AiInv, AiTypeOK, AiStates, NoEvent, Tick, Remaining
<1>2. ai.event - 1 \in 0 .. NoEvent /\ ai.event - 1 # NoEvent /\ ai.event # NoEvent
  BY <1>1 DEF NoEvent
<1>3. ai' = w /\ aiLine' = aiLine
  BY DEF Tick
<1>4. aout'.pushed = <<>> /\ aout'.rate = aout.rate /\ aout' \in BackEnds
  BY AiQuiet DEF Tick
<1>5. w \in AiStates
  BY <1>1, <1>2, AiSetters, Zenon
<1>6. /\ w.status = ai.status /\ w.fifo1 = ai.fifo1 /\ w.fifo0 = ai.fifo0
      /\ w.last = ai.last /\ w.event # NoEvent /\ w.rate = ai.rate /\ w.changed = ai.changed
  BY <1>1, <1>2, SMT DEF AiStates
<1> HIDE DEF w
<1>7. AiInv'
  BY <1>1, <1>2, <1>3, <1>4, <1>5, <1>6
  DEF AiInv, AiTypeOK, AiBusyServed, FormatPassedOn, Chunks, BackEnds
<1>8. Stream!Other
  BY <1>3, <1>4, <1>6 DEF Stream!Other, Playing, Holding
<1>9. QED
  BY <1>7, <1>8

(* The steps that leave the registers alone.                               *)
LEMMA AiSame ==
  ASSUME AiInv, ai' = ai, aiLine' \in BOOLEAN, aout' = [aout EXCEPT !.pushed = <<>>]
  PROVE  AiInv' /\ Stream!Other
<1>1. aout'.pushed = <<>> /\ aout'.rate = aout.rate /\ aout' \in BackEnds
  BY AiQuiet
<1>2. AiInv'
  BY <1>1 DEF AiInv, AiTypeOK, AiBusyServed, FormatPassedOn, Chunks, BackEnds
<1>3. Stream!Other
  BY <1>1 DEF Stream!Other, Playing, Holding
<1>4. QED
  BY <1>2, <1>3

LEMMA AiResetType ==
  /\ AiReset \in AiStates /\ AiReset.status = {} /\ AiReset.last = 0
  /\ AiReset.event = NoEvent /\ AiReset.rate = 0 /\ AiReset.changed = FALSE
  /\ AiReset.fifo0.len = 0
<1>1. NoBuffer \in Buffers /\ NoBuffer.len = 0
  BY AiAssumption DEF NoBuffer, Buffers
<1>2. QED
  BY <1>1, AiAssumption DEF AiReset, AiStates, NoEvent

(* A reset puts the registers into the state they start in.                *)
LEMMA AiResetInv ==
  ASSUME ai = AiReset, aiLine = FALSE, aout \in BackEnds
  PROVE  AiInv
<1>1. /\ ai \in AiStates /\ ai.status = {} /\ ai.last = 0 /\ ai.event = NoEvent
      /\ ai.rate = 0 /\ ai.changed = FALSE /\ ai.fifo0.len = 0
  BY AiResetType
<1>2. AiTypeOK
  BY <1>1 DEF AiTypeOK, Chunks, BackEnds
<1>3. AiBusyServed
  BY <1>1 DEF AiBusyServed
<1>4. QED
  BY <1>1, <1>2, <1>3 DEF AiInv, FormatPassedOn

LEMMA AiPowerOnInv ==
  ASSUME AiInv, AiPowerOn
  PROVE  AiInv' /\ Stream!Stop
<1>1. ai' = AiReset /\ aiLine' = FALSE
  BY DEF AiPowerOn
<1>2. aout'.pushed = <<>> /\ aout'.rate = aout.rate /\ aout' \in BackEnds
  BY AiQuiet DEF AiPowerOn
<1>3. AiInv'
  <2>1. /\ ai' \in AiStates /\ ai'.status = {} /\ ai'.last = 0 /\ ai'.event = NoEvent
        /\ ai'.rate = 0 /\ ai'.changed = FALSE /\ ai'.fifo0.len = 0
    BY <1>1, AiResetType, Zenon
  <2>2. AiTypeOK'
    BY <1>1, <1>2, <2>1 DEF AiTypeOK, Chunks, BackEnds
  <2>3. AiBusyServed'
    BY <2>1 DEF AiBusyServed
  <2>4. QED
    BY <1>2, <2>1, <2>2, <2>3 DEF AiInv, FormatPassedOn
<1>4. Stream!Stop
  BY <1>1, <1>2, AiResetType DEF Stream!Stop, Playing, Holding
<1>5. QED
  BY <1>3, <1>4

LEMMA AiNmiInv ==
  ASSUME AiInv, AiNmi
  PROVE  AiInv' /\ Stream!Next
<1> DEFINE v == [ai EXCEPT !.status = {}]
           w == [v EXCEPT !.event = NoEvent]
<1>1. ai \in AiStates /\ aiLine \in BOOLEAN
  BY DEF AiInv, AiTypeOK
<1>2. NoEvent \in 0 .. NoEvent /\ {} \in SUBSET {"BUSY", "FULL"}
  BY AiAssumption DEF NoEvent
<1>3. ai' = w /\ aiLine' = aiLine
  BY DEF AiNmi
<1>4. aout'.pushed = <<>> /\ aout'.rate = aout.rate /\ aout' \in BackEnds
  BY AiQuiet DEF AiNmi
<1>5. w \in AiStates
  BY <1>1, <1>2, AiSetters, Zenon
<1>6. /\ w.status = {} /\ w.fifo1 = ai.fifo1 /\ w.fifo0 = ai.fifo0
      /\ w.last = ai.last /\ w.event = NoEvent /\ w.rate = ai.rate /\ w.changed = ai.changed
  BY <1>1, SMT DEF AiStates
<1> HIDE DEF w
<1>7. AiInv'
  BY <1>1, <1>3, <1>4, <1>5, <1>6
  DEF AiInv, AiTypeOK, AiBusyServed, FormatPassedOn, Chunks, BackEnds
<1>8. CASE ai.last = 0
  <2>1. Stream!Stop
    BY <1>3, <1>4, <1>6, <1>8 DEF Stream!Stop, Playing, Holding
  <2>2. QED
    BY <1>7, <2>1 DEF Stream!Next
<1>9. CASE ai.last # 0
  <2>1. Playing # <<>> /\ Head(Playing) = ai.fifo0 /\ Holding /\ Holding'
          /\ Playing' = <<ai.fifo0>>
    BY <1>3, <1>6, <1>9 DEF Playing, Holding
  <2>2. Stream!Stop
    BY <1>3, <1>4, <1>6, <1>9, <2>1 DEF Stream!Stop
  <2>3. QED
    BY <1>7, <2>2 DEF Stream!Next
<1>10. QED
  BY <1>8, <1>9

LEMMA AiStep ==
  ASSUME AiInv, [Next]_rcpVars
  PROVE  AiInv' /\ [Stream!Next]_Stream!vars
<1>1. CASE OfAi(AiNext)
  <2>1. ASSUME NEW b \in Buffers, FifoPush(b) PROVE AiInv' /\ Stream!Next
    BY <2>1, AiFifoPush
  <2>2. ASSUME NEW r \in RATES, WriteDacRate(r) PROVE AiInv' /\ Stream!Next
    BY <2>2, AiDacRate DEF Stream!Next
  <2>3. ASSUME ReadAiLen PROVE AiInv' /\ Stream!Next
    BY <2>3, AiRead
  <2>4. ASSUME WriteAiStatus PROVE AiInv' /\ Stream!Next
    BY <2>4, AiSame DEF WriteAiStatus, Stream!Next
  <2>5. ASSUME Tick PROVE AiInv' /\ Stream!Next
    BY <2>5, AiTick DEF Stream!Next
  <2>6. ASSUME AiEndOfDma PROVE AiInv' /\ Stream!Next
    BY <2>6, AiEnd
  <2>7. QED
    BY <1>1, <2>1, <2>2, <2>3, <2>4, <2>5, <2>6 DEF OfAi, AiNext
<1>2. CASE OfSi(SiNext) \/ OfPi(PiNext) \/ OfSp(SpNext)
  <2>1. AiOther /\ aiLine \in BOOLEAN
    BY <1>2 DEF OfSi, OfPi, OfSp, AiInv, AiTypeOK
  <2>2. QED
    BY <2>1, AiSame DEF AiOther, Stream!Next
<1>3. CASE ResetHardHandler
  BY <1>3, AiPowerOnInv DEF ResetHardHandler, Stream!Next
<1>4. CASE NmiHandler
  BY <1>4, AiNmiInv DEF NmiHandler
<1>5. CASE UNCHANGED rcpVars
  <2>1. ai' = ai /\ aiLine' = aiLine /\ aout' = aout
    BY <1>5 DEF rcpVars, aiVars
  <2>2. AiInv'
    BY <2>1 DEF AiInv, AiTypeOK, AiBusyServed, FormatPassedOn
  <2>3. QED
    BY <2>1, <2>2 DEF Stream!vars, Playing, Holding
<1>6. QED
  BY <1>1, <1>2, <1>3, <1>4, <1>5 DEF Next

LEMMA AiInitInv == Init => AiInv /\ Stream!Init
<1> SUFFICES ASSUME Init PROVE AiInv /\ Stream!Init
  OBVIOUS
<1>1. ai = AiReset /\ aiLine = FALSE /\ aout = [rate |-> PLUGIN_RATE, pushed |-> <<>>]
  BY DEF Init, AiInit
<1>2. <<>> \in Seq(Chunks)
  OBVIOUS
<1>3. aout \in BackEnds
  BY <1>1, <1>2 DEF BackEnds
<1>4. AiInv
  BY <1>1, <1>3, AiResetInv
<1>5. Stream!Init
  BY <1>1, AiResetType DEF Stream!Init, Playing, Holding
<1>6. QED
  BY <1>4, <1>5

(* The audio interface plays every sample of every buffer once and in      *)
(* order, whatever the program stores, reads and resets in between.        *)
THEOREM StreamImplemented == Spec => StreamSpec
<1>1. AiInv /\ [Next]_rcpVars => AiInv' /\ [Stream!Next]_Stream!vars
  BY AiStep
<1>2. QED
  BY <1>1, AiInitInv, PTL DEF Spec, StreamSpec, Stream!Spec

(* The back end plays at the rate of AI_DACRATE_REG once the change has    *)
(* been passed on.                                                         *)
THEOREM FormatAlwaysPassedOn == Spec => []FormatPassedOn
<1>1. AiInv /\ [Next]_rcpVars => AiInv'
  BY AiStep
<1>2. Init => AiInv
  BY AiInitInv
<1>3. AiInv => FormatPassedOn
  BY DEF AiInv
<1>4. QED
  BY <1>1, <1>2, <1>3, PTL DEF Spec
-----------------------------------------------------------------------------
(* The SI: one SI_INT is queued while it is busy, and it is busy with the  *)
(* transfer that dma_dir tells.                                            *)
SiBits == {"DMA_BUSY", "IO_BUSY", "DMA_ERROR", "INTERRUPT"}
SiStates == [status : SUBSET SiBits, dir : {"none", "write", "read"},
             addr : Registers, events : Nat]

SiInv ==
  /\ SiTypeOK
  /\ SiBusy <=> "DMA_BUSY" \in si.status
  /\ si.events = IF SiBusy THEN 1 ELSE 0
  /\ SiBusy <=> si.dir # "none"

LEMMA SiPlaces ==
  /\ 0 \in Addresses /\ 0 \in Registers
  /\ \A r \in Registers : Advanced(r) \in Registers /\ DramAddress(r) \in Addresses
  /\ \A c \in COMMANDS \cup {NoCommand} : Command(c) \in Blocks /\ Answer(c) \in Blocks
  /\ Empty \in Blocks
<1>1. DRAM_BLOCKS \in Nat /\ DRAM_BLOCKS > 0 /\ ADDR_BLOCKS \in Nat /\ ADDR_BLOCKS > 0
  BY SiAssumption, SMT
<1>2. /\ 0 \in Addresses /\ 0 \in Registers
      /\ \A r \in Registers : Advanced(r) \in Registers /\ DramAddress(r) \in Addresses
  BY <1>1, SMT DEF Addresses, Registers, Advanced, DramAddress
<1>3. \A c \in COMMANDS \cup {NoCommand} : Command(c) \in Blocks /\ Answer(c) \in Blocks
  BY SMT DEF Command, Answer, Blocks
<1>4. QED
  BY <1>2, <1>3 DEF Empty

LEMMA SiSetters ==
  ASSUME NEW s \in SiStates
  PROVE  /\ \A u \in SUBSET SiBits : [s EXCEPT !.status = u] \in SiStates
         /\ \A d \in {"none", "write", "read"} : [s EXCEPT !.dir = d] \in SiStates
         /\ \A r \in Registers : [s EXCEPT !.addr = r] \in SiStates
         /\ \A n \in Nat : [s EXCEPT !.events = n] \in SiStates
<1>1. \A u \in SUBSET SiBits : [s EXCEPT !.status = u] \in SiStates
  BY SMT DEF SiStates
<1>2. \A d \in {"none", "write", "read"} : [s EXCEPT !.dir = d] \in SiStates
  BY SMT DEF SiStates
<1>3. \A r \in Registers : [s EXCEPT !.addr = r] \in SiStates
  BY SMT DEF SiStates
<1>4. \A n \in Nat : [s EXCEPT !.events = n] \in SiStates
  BY SMT DEF SiStates
<1>5. QED
  BY <1>1, <1>2, <1>3, <1>4

(* The transfers, typed.                                                   *)
LEMMA SiTransferTypes ==
  /\ \A b \in Blocks : WriteOf(b) \in SiTransfers
  /\ \A a \in Addresses, b \in Blocks : ReadOf(a, b) \in SiTransfers
  /\ \A t \in SiTransfers : <<t>> \in Seq(SiTransfers)
  /\ <<>> \in Seq(SiTransfers)
BY SiPlaces, SMT DEF WriteOf, ReadOf, SiTransfers

(* What the steps that start no transfer and end none have in common.      *)
LEMMA SiKept ==
  ASSUME SiInv, si' \in SiStates, siDone' = <<>>, siLine' \in BOOLEAN,
         pif' \in [ram : Blocks, channels : COMMANDS \cup {NoCommand}],
         dram' \in [Addresses -> Blocks],
         "DMA_BUSY" \in si'.status <=> "DMA_BUSY" \in si.status,
         "IO_BUSY" \in si'.status <=> "IO_BUSY" \in si.status,
         si'.dir = si.dir, si'.events = si.events,
         SiBusy => si'.addr = si.addr /\ pif'.ram = pif.ram
  PROVE  SiInv' /\ SiQueue!Other
<1>1. SiBusy' <=> SiBusy
  BY DEF SiBusy
<1>2. SiTypeOK'
  BY SiTransferTypes DEF SiTypeOK, SiStates, SiBits
<1>3. SiInv'
  BY <1>1, <1>2 DEF SiInv
<1>4. SiQueue!Other
  BY <1>1 DEF SiQueue!Other, InProgress
<1>5. QED
  BY <1>3, <1>4

LEMMA SiPrepare ==
  ASSUME SiInv, NEW a \in Addresses, NEW c \in COMMANDS, Prepare(a, c)
  PROVE  SiInv' /\ SiQueue!Other
<1>1. dram' \in [Addresses -> Blocks]
  BY SiPlaces DEF SiInv, SiTypeOK, Prepare
<1>2. QED
  BY <1>1, SiKept DEF SiInv, SiTypeOK, SiStates, SiBits, Prepare

LEMMA SiSetDramAddr ==
  ASSUME SiInv, POLITE = TRUE, NEW r \in Registers, SetDramAddr(r)
  PROVE  SiInv' /\ SiQueue!Other
<1> DEFINE w == [si EXCEPT !.addr = r]
<1>1. si \in SiStates /\ si' = w /\ ~SiBusy
  BY DEF SiInv, SiTypeOK, SiStates, SiBits, SetDramAddr
<1>2. w \in SiStates
  BY <1>1, SiSetters, Zenon
<1>3. w.status = si.status /\ w.dir = si.dir /\ w.events = si.events
  BY <1>1, SMT DEF SiStates
<1> HIDE DEF w
<1>4. QED
  BY <1>1, <1>2, <1>3, SiKept DEF SiInv, SiTypeOK, SetDramAddr

LEMMA SiReject ==
  ASSUME SiInv, Rejected, Reject, pif' = pif, UNCHANGED <<dram, siLine>>, siDone' = <<>>
  PROVE  SiInv' /\ SiQueue!Other
<1> DEFINE u == si.status \cup {"DMA_ERROR"}
           w == [si EXCEPT !.status = u]
<1>1. si \in SiStates /\ u \in SUBSET SiBits /\ si' = w
  BY DEF SiInv, SiTypeOK, SiStates, SiBits, Reject
<1>2. w \in SiStates
  BY <1>1, SiSetters, Zenon
<1>3. w.status = u /\ w.dir = si.dir /\ w.events = si.events /\ w.addr = si.addr
  BY <1>1, SMT DEF SiStates
<1> HIDE DEF w
<1>4. QED
  BY <1>1, <1>2, <1>3, SiKept DEF SiInv, SiTypeOK

LEMMA SiWriteStatus ==
  ASSUME SiInv, WriteSiStatus
  PROVE  SiInv' /\ SiQueue!Other
<1> DEFINE u == si.status \ {"INTERRUPT"}
           w == [si EXCEPT !.status = u]
<1>1. si \in SiStates /\ u \in SUBSET SiBits /\ si' = w
  BY DEF SiInv, SiTypeOK, SiStates, SiBits, WriteSiStatus
<1>2. w \in SiStates
  BY <1>1, SiSetters, Zenon
<1>3. w.status = u /\ w.dir = si.dir /\ w.events = si.events /\ w.addr = si.addr
  BY <1>1, SMT DEF SiStates
<1> HIDE DEF w
<1>4. QED
  BY <1>1, <1>2, <1>3, SiKept DEF SiInv, SiTypeOK, WriteSiStatus
(* What the steps that start a transfer have in common.                    *)
LEMMA SiStarts ==
  ASSUME SiInv, ~SiBusy, si' \in SiStates, siDone' = <<>>, UNCHANGED <<dram, siLine>>,
         pif' \in [ram : Blocks, channels : COMMANDS \cup {NoCommand}],
         "DMA_BUSY" \in si'.status, si'.events = 1, si'.dir \in {"write", "read"}
  PROVE  SiInv' /\ SiQueue!Next
<1>1. SiBusy' /\ InProgress = <<>>
  BY DEF SiBusy, InProgress
<1>2. SiTypeOK'
  BY SiTransferTypes DEF SiInv, SiTypeOK, SiStates, SiBits
<1>3. SiInv'
  BY <1>1, <1>2 DEF SiInv
<1>4. pif'.ram \in Blocks /\ DramAddress(si'.addr) \in Addresses
  BY SiPlaces DEF SiStates
<1>5. CASE si'.dir = "read"
  <2>1. InProgress' = <<ReadOf(DramAddress(si'.addr), pif'.ram)>>
    BY <1>1, <1>5 DEF InProgress, ReadOf, DramAddress
  <2>2. SiQueue!Submit(ReadOf(DramAddress(si'.addr), pif'.ram))
    BY <1>1, <2>1 DEF SiQueue!Submit
  <2>3. QED
    BY <1>3, <1>4, <2>2, SiTransferTypes DEF SiQueue!Next
<1>6. CASE si'.dir = "write"
  <2>1. InProgress' = <<WriteOf(pif'.ram)>>
    BY <1>1, <1>6 DEF InProgress, WriteOf
  <2>2. SiQueue!Submit(WriteOf(pif'.ram))
    BY <1>1, <2>1 DEF SiQueue!Submit
  <2>3. QED
    BY <1>3, <1>4, <2>2, SiTransferTypes DEF SiQueue!Next
<1>7. QED
  BY <1>5, <1>6

LEMMA SiBegun ==
  ASSUME SiInv, ~SiBusy, NEW u \in SUBSET SiBits, NEW d \in {"write", "read"}
  PROVE  LET w == [si EXCEPT !.status = u, !.dir = d, !.events = si.events + 1]
         IN  /\ w \in SiStates /\ w.status = u /\ w.dir = d /\ w.events = 1
             /\ w.addr = si.addr
<1> DEFINE w1 == [si EXCEPT !.status = u]
           w2 == [w1 EXCEPT !.dir = d]
           w3 == [w2 EXCEPT !.events = 1]
<1>1. si \in SiStates /\ si.events = 0
  BY DEF SiInv, SiTypeOK, SiStates, SiBits
<1>2. w1 \in SiStates
  BY <1>1, SiSetters, Zenon
<1>3. w2 \in SiStates
  BY <1>2, SiSetters, Zenon
<1>4. w3 \in SiStates
  BY <1>3, SiSetters, Zenon
<1>5. w3 = [si EXCEPT !.status = u, !.dir = d, !.events = si.events + 1]
  BY <1>1
<1>6. w3.status = u /\ w3.dir = d /\ w3.events = 1 /\ w3.addr = si.addr
  BY <1>1, SMT DEF SiStates
<1>7. QED
  BY <1>4, <1>5, <1>6, Zenon

LEMMA SiDmaRead ==
  ASSUME SiInv, DmaSiRead
  PROVE  SiInv' /\ SiQueue!Next
<1>1. CASE Rejected
  BY <1>1, SiReject DEF DmaSiRead, SiQueue!Next
<1>2. CASE ~Rejected
  <2> DEFINE u == si.status \cup {"DMA_BUSY"}
             w == [si EXCEPT !.status = u, !.dir = "read", !.events = si.events + 1]
  <2>1. ~SiBusy /\ u \in SUBSET SiBits
    BY <1>2 DEF Rejected, SiInv, SiTypeOK, SiBits
  <2>2. w \in SiStates /\ w.status = u /\ w.dir = "read" /\ w.events = 1
    BY <2>1, SiBegun, Zenon
  <2>3. si' = w
    BY <1>2 DEF DmaSiRead, Started
  <2> HIDE DEF w
  <2>4. Answered \in Blocks
    BY SiPlaces DEF Answered, SiInv, SiTypeOK
  <2>5. pif' \in [ram : Blocks, channels : COMMANDS \cup {NoCommand}]
    BY <1>2, <2>4 DEF DmaSiRead, SiInv, SiTypeOK
  <2>6. QED
    BY <2>1, <2>2, <2>3, <2>5, SiStarts DEF DmaSiRead
<1>3. QED
  BY <1>1, <1>2

LEMMA SiDmaWrite ==
  ASSUME SiInv, DmaSiWrite
  PROVE  SiInv' /\ SiQueue!Next
<1>1. CASE Rejected
  BY <1>1, SiReject DEF DmaSiWrite, SiQueue!Next
<1>2. CASE ~Rejected
  <2> DEFINE u == si.status \cup {"DMA_BUSY"}
             v == [si EXCEPT !.status = u, !.dir = "write", !.events = si.events + 1]
             w == [v EXCEPT !.addr = Advanced(si.addr)]
  <2>1. /\ ~SiBusy /\ u \in SUBSET SiBits
        /\ si.addr \in Registers /\ DramAddress(si.addr) \in Addresses
    BY <1>2, SiPlaces DEF Rejected, SiInv, SiTypeOK, SiBits
  <2>2. v \in SiStates /\ v.status = u /\ v.dir = "write" /\ v.events = 1 /\ v.addr = si.addr
    BY <2>1, SiBegun, Zenon
  <2>3. si' = w
    BY <1>2, <2>2 DEF DmaSiWrite, Started
  <2> HIDE DEF v
  <2>4. w \in SiStates
    BY <2>1, <2>2, SiPlaces, SiSetters, Zenon
  <2>5. w.status = u /\ w.dir = "write" /\ w.events = 1
    BY <2>2, SMT DEF SiStates
  <2> HIDE DEF w
  <2>6. pif' \in [ram : Blocks, channels : COMMANDS \cup {NoCommand}]
    BY <1>2, <2>1 DEF DmaSiWrite, SiInv, SiTypeOK
  <2>7. QED
    BY <1>2, <2>1, <2>3, <2>4, <2>5, <2>6, SiStarts DEF DmaSiWrite
<1>3. QED
  BY <1>1, <1>2

LEMMA SiWritePifMem ==
  ASSUME SiInv, POLITE = TRUE, NEW c \in COMMANDS, WritePifMem(c)
  PROVE  SiInv' /\ SiQueue!Next
<1> DEFINE u == si.status \cup {"DMA_BUSY", "IO_BUSY"}
           w == [si EXCEPT !.status = u, !.dir = "write", !.events = si.events + 1]
<1>1. ~SiBusy /\ u \in SUBSET SiBits
  BY DEF WritePifMem, SiInv, SiTypeOK, SiBits
<1>2. w \in SiStates /\ w.status = u /\ w.dir = "write" /\ w.events = 1
  BY <1>1, SiBegun, Zenon
<1>3. si' = w
  BY DEF WritePifMem
<1> HIDE DEF w
<1>4. Command(c) \in Blocks
  BY SiPlaces
<1>5. pif' \in [ram : Blocks, channels : COMMANDS \cup {NoCommand}]
  BY <1>4 DEF WritePifMem, SiInv, SiTypeOK
<1>6. QED
  BY <1>1, <1>2, <1>3, <1>5, SiStarts DEF WritePifMem
LEMMA SiEnd ==
  ASSUME SiInv, SiEndOfDma
  PROVE  SiInv' /\ SiQueue!Complete
<1> DEFINE u == (si.status \ {"DMA_BUSY", "IO_BUSY"}) \cup {"INTERRUPT"}
           a == IF si.dir = "read" THEN Advanced(si.addr) ELSE si.addr
           v1 == [si EXCEPT !.status = u]
           v2 == [v1 EXCEPT !.dir = "none"]
           v3 == [v2 EXCEPT !.events = 0]
           w == [v3 EXCEPT !.addr = a]
<1>1. /\ si \in SiStates /\ u \in SUBSET SiBits
      /\ si.addr \in Registers /\ DramAddress(si.addr) \in Addresses
  BY SiPlaces DEF SiInv, SiTypeOK, SiStates, SiBits
<1>2. SiBusy /\ si.events = 1 /\ si.dir \in {"write", "read"}
  BY <1>1 DEF SiInv, SiEndOfDma, SiDispatched, SiStates
<1>3. a \in Registers
  BY <1>1, SiPlaces
<1>4. v1 \in SiStates
  BY <1>1, SiSetters, Zenon
<1>5. v2 \in SiStates
  BY <1>4, SiSetters, Zenon
<1>6. v3 \in SiStates
  BY <1>5, SiSetters, Zenon
<1>7. w \in SiStates
  BY <1>3, <1>6, SiSetters, Zenon
<1>8. si' = w
  BY <1>1, <1>2 DEF SiEndOfDma, SiDispatched
<1>9. w.status = u /\ w.dir = "none" /\ w.events = 0
  BY <1>1, SMT DEF SiStates
<1> HIDE DEF w
<1>10. pif \in [ram : Blocks, channels : COMMANDS \cup {NoCommand}]
  BY DEF SiInv, SiTypeOK
<1>11. pif' \in [ram : Blocks, channels : COMMANDS \cup {NoCommand}]
  BY <1>10 DEF SiEndOfDma, SiDispatched, Processed, Blocks
<1>12. dram \in [Addresses -> Blocks] /\ pif.ram \in Blocks
  BY <1>10 DEF SiInv, SiTypeOK
<1>13. dram' \in [Addresses -> Blocks] /\ (si.dir = "read" => dram'[DramAddress(si.addr)] = pif.ram)
  BY <1>1, <1>12 DEF SiEndOfDma, SiDispatched
<1>14. ~SiBusy'
  BY <1>8, <1>9 DEF SiBusy
<1>15. siDone' = InProgress
  BY <1>2, <1>13 DEF SiEndOfDma, SiDispatched, InProgress
<1>16. \E t \in SiTransfers : InProgress = <<t>>
  BY <1>1, <1>2, <1>12, SiTransferTypes DEF InProgress
<1>17. SiTypeOK'
  <2>1. siDone' \in Seq(SiTransfers)
    BY <1>15, <1>16, SiTransferTypes, Zenon
  <2>2. siLine' \in BOOLEAN
    BY DEF SiEndOfDma, SiDispatched
  <2>3. si' \in SiStates
    BY <1>7, <1>8
  <2>4. QED
    BY <1>11, <1>13, <2>1, <2>2, <2>3 DEF SiTypeOK, SiStates, SiBits
<1>18. SiInv'
  BY <1>8, <1>9, <1>14, <1>17 DEF SiInv, SiBusy
<1>19. InProgress' = <<>>
  BY <1>14 DEF InProgress
<1>20. SiQueue!Complete
  BY <1>15, <1>16, <1>19 DEF SiQueue!Complete
<1>21. QED
  BY <1>18, <1>20

LEMMA SiResetState ==
  /\ SiReset \in SiStates /\ SiReset.status = {} /\ SiReset.events = 0
  /\ SiReset.dir = "none"
  /\ [ram |-> Empty, channels |-> NoCommand]
       \in [ram : Blocks, channels : COMMANDS \cup {NoCommand}]
  /\ [a \in Addresses |-> Empty] \in [Addresses -> Blocks]
BY SiPlaces DEF SiReset, SiStates

LEMMA SiPowerOnInv ==
  ASSUME SiPowerOn
  PROVE  SiInv' /\ SiQueue!Reset
<1>1. /\ si' \in SiStates /\ si'.status = {} /\ si'.events = 0 /\ si'.dir = "none"
      /\ pif' \in [ram : Blocks, channels : COMMANDS \cup {NoCommand}]
      /\ dram' \in [Addresses -> Blocks] /\ siLine' = FALSE /\ siDone' = <<>>
  BY SiResetState, Zenon DEF SiPowerOn
<1>2. ~SiBusy' /\ InProgress' = <<>>
  BY <1>1 DEF SiBusy, InProgress
<1>3. SiTypeOK'
  BY <1>1, SiTransferTypes DEF SiTypeOK, SiStates, SiBits
<1>4. QED
  BY <1>1, <1>2, <1>3 DEF SiInv, SiQueue!Reset

LEMMA SiInitInv == SiInit => SiInv /\ SiQueue!Init
<1> SUFFICES ASSUME SiInit PROVE SiInv /\ SiQueue!Init
  OBVIOUS
<1>1. /\ si \in SiStates /\ si.status = {} /\ si.events = 0 /\ si.dir = "none"
      /\ pif \in [ram : Blocks, channels : COMMANDS \cup {NoCommand}]
      /\ dram \in [Addresses -> Blocks] /\ siLine = FALSE /\ siDone = <<>>
  BY SiResetState, Zenon DEF SiInit
<1>2. ~SiBusy /\ InProgress = <<>>
  BY <1>1 DEF SiBusy, InProgress
<1>3. SiTypeOK
  BY <1>1, SiTransferTypes DEF SiTypeOK, SiStates, SiBits
<1>4. QED
  BY <1>1, <1>2, <1>3 DEF SiInv, SiQueue!Init

LEMMA SiNmiInv ==
  ASSUME SiInv, SiNmi, ~SiBusy
  PROVE  SiInv' /\ SiQueue!Other
<1> DEFINE w == [si EXCEPT !.events = 0]
<1>1. si \in SiStates /\ si' = w
  BY DEF SiInv, SiTypeOK, SiStates, SiBits, SiNmi
<1>2. w \in SiStates
  BY <1>1, SiSetters, Zenon
<1>3. w.status = si.status /\ w.dir = si.dir /\ w.events = 0 /\ w.addr = si.addr
  BY <1>1, SMT DEF SiStates
<1> HIDE DEF w
<1>4. pif' \in [ram : Blocks, channels : COMMANDS \cup {NoCommand}]
  BY SiResetState, Zenon DEF SiNmi
<1>5. si.events = 0
  BY DEF SiInv
<1>6. QED
  BY <1>1, <1>2, <1>3, <1>4, <1>5, SiKept DEF SiInv, SiTypeOK, SiNmi

LEMMA SiOtherInv ==
  ASSUME SiInv, SiOther
  PROVE  SiInv' /\ SiQueue!Other
BY SiKept DEF SiInv, SiTypeOK, SiStates, SiBits, SiOther

LEMMA SiStep ==
  ASSUME POLITE = TRUE, QUIET = TRUE, SiInv, [Next]_rcpVars
  PROVE  SiInv' /\ [SiQueue!Next]_SiQueue!vars
<1>1. CASE OfSi(SiNext)
  <2>1. ASSUME NEW a \in Addresses, NEW c \in COMMANDS, Prepare(a, c)
        PROVE  SiInv' /\ SiQueue!Next
    BY <2>1, SiPrepare DEF SiQueue!Next
  <2>2. ASSUME NEW r \in Registers, SetDramAddr(r) PROVE SiInv' /\ SiQueue!Next
    BY <2>2, SiSetDramAddr DEF SiQueue!Next
  <2>3. ASSUME NEW c \in COMMANDS, WritePifMem(c) PROVE SiInv' /\ SiQueue!Next
    BY <2>3, SiWritePifMem
  <2>4. ASSUME DmaSiWrite PROVE SiInv' /\ SiQueue!Next
    BY <2>4, SiDmaWrite
  <2>5. ASSUME DmaSiRead PROVE SiInv' /\ SiQueue!Next
    BY <2>5, SiDmaRead
  <2>6. ASSUME WriteSiStatus PROVE SiInv' /\ SiQueue!Next
    BY <2>6, SiWriteStatus DEF SiQueue!Next
  <2>7. ASSUME SiEndOfDma PROVE SiInv' /\ SiQueue!Next
    BY <2>7, SiEnd DEF SiQueue!Next
  <2>8. QED
    BY <1>1, <2>1, <2>2, <2>3, <2>4, <2>5, <2>6, <2>7 DEF OfSi, SiNext
<1>2. CASE OfPi(PiNext) \/ OfAi(AiNext) \/ OfSp(SpNext)
  <2>1. SiOther
    BY <1>2 DEF OfPi, OfAi, OfSp
  <2>2. QED
    BY <2>1, SiOtherInv DEF SiQueue!Next
<1>3. CASE ResetHardHandler
  BY <1>3, SiPowerOnInv DEF ResetHardHandler, SiQueue!Next
<1>4. CASE NmiHandler
  BY <1>4, SiNmiInv DEF NmiHandler, SiQueue!Next
<1>5. CASE UNCHANGED rcpVars
  <2>1. si' = si /\ pif' = pif /\ dram' = dram /\ siLine' = siLine /\ siDone' = siDone
    BY <1>5 DEF rcpVars, siVars
  <2>2. QED
    BY <2>1 DEF SiInv, SiTypeOK, SiBusy, SiQueue!vars, InProgress
<1>6. QED
  BY <1>1, <1>2, <1>3, <1>4, <1>5 DEF Next

(* The SI carries the transfers of a program that waits for their end out  *)
(* as they were submitted, one by one.                                     *)
THEOREM SiQueueImplemented == POLITE = TRUE /\ QUIET = TRUE => (Spec => SiQueueSpec)
<1> SUFFICES ASSUME POLITE = TRUE, QUIET = TRUE PROVE Spec => SiQueueSpec
  OBVIOUS
<1>1. Init => SiInv /\ SiQueue!Init
  BY SiInitInv DEF Init
<1>2. SiInv /\ [Next]_rcpVars => SiInv' /\ [SiQueue!Next]_SiQueue!vars
  BY SiStep
<1>3. QED
  BY <1>1, <1>2, PTL DEF Spec, SiQueueSpec, SiQueue!Spec
-----------------------------------------------------------------------------
(* The PI.                                                                 *)
PiInv == PiTypeOK /\ PiBusyServed

LEMMA PiSteps ==
  ASSUME PiInv, PiNext
  PROVE  PiInv'
<1> DEFINE Bits == {"DMA_BUSY", "IO_BUSY", "INTERRUPT", "ERROR"}
           PiStates == [status : SUBSET Bits, events : 0 .. MAX_PI]
<1>1. pi \in PiStates /\ MAX_PI \in Nat /\ piLine \in BOOLEAN
  BY PiAssumption, SMT DEF PiInv, PiTypeOK
<1>2. \A s \in PiStates :
        /\ \A u \in SUBSET Bits : [s EXCEPT !.status = u] \in PiStates
        /\ \A n \in 0 .. MAX_PI : [s EXCEPT !.events = n] \in PiStates
  BY SMT
<1>3. \A u \in SUBSET Bits, n \in 0 .. MAX_PI : [status |-> u, events |-> n] \in PiStates
  BY SMT
(* A request that is rejected.                                             *)
<1>4. ASSUME RejectPi PROVE PiInv'
  <2> DEFINE u == pi.status \cup {"ERROR"}
             w == [pi EXCEPT !.status = u]
  <2>1. u \in SUBSET Bits /\ pi' = w
    BY <1>1, <1>4 DEF RejectPi
  <2>2. w \in PiStates
    BY <1>1, <1>2, <2>1, Zenon
  <2>3. w.status = u /\ w.events = pi.events
    BY <1>1, SMT
  <2> HIDE DEF w
  <2>4. QED
    BY <1>1, <1>4, <2>1, <2>2, <2>3 DEF PiInv, PiTypeOK, PiBusyServed, PiBusy, RejectPi
(* A request that is accepted.                                             *)
<1>5. ASSUME NEW bit \in {"DMA_BUSY", "IO_BUSY"}, StartPi(bit),
             bit = "DMA_BUSY" => PiBusy = {}
      PROVE  PiInv'
  <2> DEFINE u == pi.status \cup {bit}
             v == [pi EXCEPT !.status = u]
             w == [v EXCEPT !.events = pi.events + 1]
  <2>1. u \in SUBSET Bits /\ pi' = w /\ pi.events + 1 \in 0 .. MAX_PI
    BY <1>1, <1>5 DEF StartPi
  <2>2. v \in PiStates
    BY <1>1, <1>2, <2>1, Zenon
  <2>3. w \in PiStates
    BY <1>2, <2>1, <2>2, Zenon
  <2>4. w.status = u /\ w.events = pi.events + 1
    BY <1>1, SMT
  <2> HIDE DEF w
  <2>5. QED
    BY <1>1, <1>5, <2>1, <2>3, <2>4 DEF PiInv, PiTypeOK, PiBusyServed, PiBusy, StartPi
<1>6. ASSUME ReadCartRom PROVE PiInv'
  <2> DEFINE u == pi.status \ {"IO_BUSY"}
             n == IF pi.events > 0 THEN pi.events - 1 ELSE 0
  <2>1. u \in SUBSET Bits /\ n \in 0 .. MAX_PI /\ pi' = [status |-> u, events |-> n]
    BY <1>1, <1>6 DEF ReadCartRom
  <2>2. pi' \in PiStates /\ pi'.status = u /\ pi'.events = n
    BY <1>3, <2>1, Zenon
  <2>3. QED
    BY <1>1, <1>6, <2>2 DEF PiInv, PiTypeOK, PiBusyServed, PiBusy, ReadCartRom
<1>7. ASSUME PiEndOfDma PROVE PiInv'
  <2> DEFINE u == (pi.status \ {"DMA_BUSY", "IO_BUSY"}) \cup {"INTERRUPT"}
             n == pi.events - 1
  <2>1. u \in SUBSET Bits /\ n \in 0 .. MAX_PI /\ pi' = [status |-> u, events |-> n]
    BY <1>1, <1>7 DEF PiEndOfDma
  <2>2. pi' \in PiStates /\ pi'.status = u /\ pi'.events = n
    BY <1>3, <2>1, Zenon
  <2>3. QED
    BY <1>1, <1>7, <2>2 DEF PiInv, PiTypeOK, PiBusyServed, PiBusy, PiEndOfDma
<1>8. ASSUME NEW clear \in BOOLEAN, NEW reset \in BOOLEAN, WritePiStatus(clear, reset)
      PROVE  PiInv'
  <2> DEFINE u == IF reset THEN {} ELSE IF clear THEN pi.status \ {"INTERRUPT"} ELSE pi.status
             w == [pi EXCEPT !.status = u]
  <2>1. u \in SUBSET Bits /\ pi' = w /\ piLine' \in BOOLEAN
    BY <1>1, <1>8 DEF WritePiStatus
  <2>2. w \in PiStates
    BY <1>1, <1>2, <2>1, Zenon
  <2>3. w.status = u /\ w.events = pi.events
    BY <1>1, SMT
  <2> HIDE DEF w
  <2>4. QED
    BY <1>1, <2>1, <2>2, <2>3 DEF PiInv, PiTypeOK, PiBusyServed, PiBusy
<1>9. QED
  BY <1>4, <1>5, <1>6, <1>7, <1>8
  DEF PiNext, DmaPi, WriteCartRom, WriteCartDom2

LEMMA PiResetInv ==
  ASSUME PiReset
  PROVE  PiInv'
<1>1. pi'.status = {} /\ pi'.events = 0
  BY DEF PiReset
<1>2. PiTypeOK'
  <2>1. 0 \in 0 .. MAX_PI
    BY PiAssumption
  <2>2. QED
    BY <2>1 DEF PiReset, PiTypeOK
<1>3. QED
  BY <1>1, <1>2 DEF PiInv, PiBusyServed, PiBusy

LEMMA PiInitInv == PiInit => PiInv
<1> SUFFICES ASSUME PiInit PROVE PiInv
  OBVIOUS
<1>1. pi.status = {} /\ pi.events = 0
  BY DEF PiInit
<1>2. PiTypeOK
  <2>1. 0 \in 0 .. MAX_PI
    BY PiAssumption
  <2>2. QED
    BY <2>1 DEF PiInit, PiTypeOK
<1>3. QED
  BY <1>1, <1>2 DEF PiInv, PiBusyServed, PiBusy

LEMMA PiStep ==
  ASSUME PiInv, [Next]_rcpVars
  PROVE  PiInv'
<1>1. CASE OfPi(PiNext)
  BY <1>1, PiSteps DEF OfPi
<1>2. CASE PiOther \/ UNCHANGED rcpVars
  BY <1>2 DEF PiInv, PiTypeOK, PiBusyServed, PiBusy, PiOther, piVars, rcpVars
<1>3. CASE ResetHardHandler \/ NmiHandler
  BY <1>3, PiResetInv DEF ResetHardHandler, NmiHandler
<1>4. QED
  BY <1>1, <1>2, <1>3 DEF Next, OfSi, OfAi, OfSp

-----------------------------------------------------------------------------
(* The four together.                                                      *)
RcpInv == SiInv /\ PiInv /\ AiInv /\ SpInv

LEMMA RcpInvariant ==
  ASSUME POLITE = TRUE, SP_POLITE = TRUE, QUIET = TRUE
  PROVE  Spec => []RcpInv
<1>1. Init => RcpInv
  BY SiInitInv, PiInitInv, AiInitInv, SpInitInv DEF Init, RcpInv
<1>2. RcpInv /\ [Next]_rcpVars => RcpInv'
  BY SiStep, PiStep, AiStep, SpStep DEF RcpInv
<1>3. QED
  BY <1>1, <1>2, PTL DEF Spec

(* Registers, queues and histories have their types.                       *)
THEOREM TypeCorrect ==
  POLITE = TRUE /\ SP_POLITE = TRUE /\ QUIET = TRUE => (Spec => []TypeOK)
<1> SUFFICES ASSUME POLITE = TRUE, SP_POLITE = TRUE, QUIET = TRUE PROVE Spec => []TypeOK
  OBVIOUS
<1>1. RcpInv => TypeOK
  BY DEF RcpInv, SiInv, PiInv, AiInv, SpInv, TypeOK
<1>2. Spec => []RcpInv
  BY RcpInvariant
<1>3. QED
  BY <1>1, <1>2, PTL

(* A busy engine has the event that will make it idle in the queue.        *)
THEOREM AlwaysBusyServed ==
  POLITE = TRUE /\ SP_POLITE = TRUE /\ QUIET = TRUE => (Spec => []BusyServed)
<1> SUFFICES ASSUME POLITE = TRUE, SP_POLITE = TRUE, QUIET = TRUE PROVE Spec => []BusyServed
  OBVIOUS
<1>1. RcpInv => BusyServed
  BY DEF RcpInv, SiInv, PiInv, AiInv, SpInv, BusyServed, SiBusyServed
<1>2. Spec => []RcpInv
  BY RcpInvariant
<1>3. QED
  BY <1>1, <1>2, PTL
=============================================================================
