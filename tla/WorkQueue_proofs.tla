-------------------------- MODULE WorkQueue_proofs --------------------------
(***************************************************************************)
(* For every number of threads: no wakeup is lost, and when the threads    *)
(* have ended no work is left, provided that nobody queues work once the   *)
(* queue is being shut down.                                               *)
(***************************************************************************)
EXTENDS WorkQueue, FiniteSetTheorems, SequenceTheorems, TLAPS

(* Threads on the list wait, or have left the wait without a signal.       *)
IdleThreads == \A t \in idle : thread[t] \in {"waiting", "look"}

(* The threads that have taken a dismissal.                                *)
Dismissed == {t \in WORKERS :
                \/ thread[t] = "ended"
                \/ thread[t] = "busy" /\ current[t] = Dismissal}

(* The dismissals still queued; they are the last of the queue, and once   *)
(* one has been taken nothing else is queued.                              *)
Left == dismissals - Cardinality(Dismissed)
DismissalsLast ==
  /\ Left \in 0 .. Len(work)
  /\ \A i \in 1 .. Len(work) : work[i] = Dismissal <=> i > Len(work) - Left
  /\ Dismissed # {} => Len(work) = Left

Wakeups == WQTypeOK /\ IdleThreads /\ NoLostWakeup
WQInv   == Wakeups /\ DismissalsLast

(* A step of a queue to which no work is added after the first dismissal.  *)
OrderlyNext ==
  \/ dismissals = 0 /\ \E w \in WORK : QueueWork(w)
  \/ \E t \in WORKERS : GetWork(t) \/ Wake(t) \/ WakeUnasked(t) \/ Return(t)
  \/ Dismiss

-----------------------------------------------------------------------------
(* Facts about the data.                                                   *)

(* A dismissal is told from other work by its function.                    *)
LEMMA DismissalFunc ==
  ASSUME NEW w \in WORK \cup {Dismissal}
  PROVE  w = Dismissal <=> w.func = "dismiss"
  BY WorkAssumption DEF Dismissal

(* Sets of threads are finite.                                             *)
LEMMA ThreadSets ==
  ASSUME NEW S \in SUBSET WORKERS
  PROVE  IsFiniteSet(S) /\ Cardinality(S) \in Nat /\ Cardinality(S) <= Cardinality(WORKERS)
  BY WorkersAssumption, FS_Subset, FS_CardinalityType

(* The first element of a list, and the rest of it.                        *)
LEMMA HeadTail ==
  ASSUME NEW S, NEW q \in Seq(S), q # <<>>
  PROVE  /\ Head(q) \in S /\ Head(q) = q[1]
         /\ Tail(q) \in Seq(S) /\ Len(Tail(q)) = Len(q) - 1
         /\ Len(q) \in Nat \ {0}
         /\ \A i \in 1 .. Len(q) - 1 : Tail(q)[i] = q[i + 1]
  OBVIOUS

-----------------------------------------------------------------------------
(* Steps.                                                                  *)

(* The invariant holds at the start.                                       *)
LEMMA WQInitInv == WQInit => WQInv
<1> SUFFICES ASSUME WQInit PROVE WQInv
  OBVIOUS
<1>1. Cardinality(WORKERS) \in Nat
  BY WorkersAssumption, FS_CardinalityType
<1>2. WQTypeOK
  BY <1>1 DEF WQInit, WQTypeOK
<1>3. IdleThreads /\ NoLostWakeup
  BY DEF WQInit, IdleThreads, NoLostWakeup
<1>4. Dismissed = {}
  BY DEF WQInit, Dismissed
<1>5. Left = 0 /\ Len(work) = 0
  BY <1>4, FS_EmptySet DEF WQInit, Left
<1>6. DismissalsLast
  BY <1>4, <1>5 DEF DismissalsLast
<1> QED
  BY <1>2, <1>3, <1>6 DEF WQInv, Wakeups

(* Whoever queues work adds one to the threads on their way, if it finds a *)
(* thread on the list.                                                     *)
LEMMA EnqueueInv ==
  ASSUME WQTypeOK, IdleThreads, NoLostWakeup, NEW w \in WORK \cup {Dismissal}, Enqueue(w)
  PROVE  /\ work' \in Seq(WORK \cup {Dismissal})
         /\ idle' \subseteq WORKERS
         /\ thread' \in [WORKERS -> {"look", "waiting", "signalled", "busy", "ended"}]
         /\ current' = current
         /\ IdleThreads' /\ NoLostWakeup'
         /\ Dismissed' = Dismissed
<1>1. work' = Append(work, w) /\ Signal /\ current' = current
  BY DEF Enqueue
<1>2. work' \in Seq(WORK \cup {Dismissal}) /\ Len(work') = Len(work) + 1 /\ Len(work) \in Nat
  BY <1>1 DEF WQTypeOK
<1>3. CASE idle = {}
  <2>1. idle' = {} /\ thread' = thread
    BY <1>1, <1>3 DEF Signal
  <2>2. Dismissed' = Dismissed
    BY <1>1, <2>1 DEF Dismissed
  <2>3. thread' \in [WORKERS -> {"look", "waiting", "signalled", "busy", "ended"}]
    BY <2>1 DEF WQTypeOK
  <2> QED
    BY <1>1, <1>2, <2>1, <2>2, <2>3 DEF IdleThreads, NoLostWakeup
<1>4. CASE idle # {}
  <2>1. PICK t \in idle :
          /\ idle' = idle \ {t}
          /\ thread' = [thread EXCEPT ![t] = IF @ = "waiting" THEN "signalled" ELSE @]
    BY <1>1, <1>4 DEF Signal
  <2>2. t \in WORKERS /\ thread[t] \in {"waiting", "look"}
    BY <2>1 DEF WQTypeOK, IdleThreads
  <2>3. /\ thread' \in [WORKERS -> {"look", "waiting", "signalled", "busy", "ended"}]
        /\ thread'[t] \in {"signalled", "look"}
        /\ \A u \in WORKERS : u # t => thread'[u] = thread[u]
    BY <2>1, <2>2 DEF WQTypeOK
  <2>4. OnTheWay' = OnTheWay \cup {t} /\ t \notin OnTheWay
    BY <2>1, <2>2, <2>3 DEF OnTheWay
  <2>5. Cardinality(OnTheWay') = Cardinality(OnTheWay) + 1 /\ Cardinality(OnTheWay) \in Nat
    <3>1. IsFiniteSet(OnTheWay) /\ Cardinality(OnTheWay) \in Nat
      BY ThreadSets DEF OnTheWay
    <3> QED
      BY <3>1, <2>4, FS_AddElement
  <2>6. NoLostWakeup'
    BY <1>2, <1>4, <2>5 DEF NoLostWakeup
  <2>7. IdleThreads'
    BY <2>1, <2>3 DEF IdleThreads, WQTypeOK
  <2>8. Dismissed' = Dismissed
    BY <1>1, <2>2, <2>3 DEF Dismissed
  <2>9. idle' \subseteq WORKERS
    BY <2>1 DEF WQTypeOK
  <2> QED
    BY <1>1, <1>2, <2>3, <2>6, <2>7, <2>8, <2>9
<1> QED
  BY <1>3, <1>4

(* Work may be queued at any time; before the first dismissal the          *)
(* dismissals stay the last.                                               *)
LEMMA QueueWorkInv ==
  ASSUME Wakeups, NEW w \in WORK, QueueWork(w)
  PROVE  Wakeups' /\ (DismissalsLast /\ dismissals = 0 => DismissalsLast')
<1>0. Enqueue(w) /\ dismissals' = dismissals /\ work' = Append(work, w)
  BY DEF QueueWork, Enqueue
<1>2. WQTypeOK' /\ IdleThreads' /\ NoLostWakeup' /\ Dismissed' = Dismissed
  BY <1>0, EnqueueInv DEF Wakeups, WQTypeOK
<1> SUFFICES ASSUME DismissalsLast, dismissals = 0
             PROVE  DismissalsLast'
  BY <1>2 DEF Wakeups
<1>1. dismissals = 0 /\ dismissals' = 0 /\ work' = Append(work, w)
  BY <1>0
<1>3. Cardinality(Dismissed) \in Nat
  BY ThreadSets DEF Dismissed
<1>4. Left = 0 /\ Left' = 0 /\ Cardinality(Dismissed) = 0
  BY <1>1, <1>2, <1>3 DEF DismissalsLast, Left
<1>5. Dismissed = {}
  BY <1>4, ThreadSets, FS_EmptySet DEF Dismissed
<1>6. w # Dismissal
  BY WorkAssumption DEF Dismissal
<1>7. \A i \in 1 .. Len(work') : work'[i] # Dismissal
  BY <1>1, <1>4, <1>6 DEF Wakeups, WQTypeOK, DismissalsLast
<1>8. Len(work') \in Nat
  BY <1>2 DEF WQTypeOK
<1> QED
  BY <1>2, <1>4, <1>5, <1>7, <1>8 DEF DismissalsLast

(* A dismissal goes behind everything else.                                *)
LEMMA DismissInv ==
  ASSUME Wakeups, Dismiss
  PROVE  Wakeups' /\ (DismissalsLast => DismissalsLast')
<1>1. Enqueue(Dismissal) /\ dismissals' = dismissals + 1 /\ dismissals < Cardinality(WORKERS)
  BY DEF Dismiss
<1>2. /\ work' \in Seq(WORK \cup {Dismissal})
      /\ idle' \subseteq WORKERS
      /\ thread' \in [WORKERS -> {"look", "waiting", "signalled", "busy", "ended"}]
      /\ current' = current
      /\ IdleThreads' /\ NoLostWakeup'
      /\ Dismissed' = Dismissed
  BY <1>1, EnqueueInv DEF Wakeups
<1>3. WQTypeOK'
  BY <1>1, <1>2, ThreadSets DEF Wakeups, WQTypeOK
<1> SUFFICES ASSUME DismissalsLast
             PROVE  DismissalsLast'
  BY <1>2, <1>3 DEF Wakeups
<1>4. work' = Append(work, Dismissal) /\ Len(work) \in Nat /\ Len(work') = Len(work) + 1
  BY <1>1 DEF Enqueue, Wakeups, WQTypeOK
<1>5. Cardinality(Dismissed) \in Nat /\ dismissals \in Nat
  BY ThreadSets DEF Dismissed, Wakeups, WQTypeOK
<1>6. Left' = Left + 1 /\ Left \in 0 .. Len(work)
  BY <1>1, <1>2, <1>5 DEF Left, DismissalsLast
<1>7. \A i \in 1 .. Len(work') : work'[i] = Dismissal <=> i > Len(work') - Left'
  <2> SUFFICES ASSUME NEW i \in 1 .. Len(work')
               PROVE  work'[i] = Dismissal <=> i > Len(work') - Left'
    OBVIOUS
  <2>1. CASE i = Len(work')
    BY <1>4, <1>6, <2>1 DEF Wakeups, WQTypeOK
  <2>2. CASE i \in 1 .. Len(work)
    <3>1. work'[i] = work[i]
      BY <1>4, <2>2 DEF Wakeups, WQTypeOK
    <3>2. work[i] = Dismissal <=> i > Len(work) - Left
      BY <2>2 DEF DismissalsLast
    <3> QED
      BY <1>4, <1>6, <2>2, <3>1, <3>2
  <2> QED
    BY <1>4, <2>1, <2>2
<1> QED
  BY <1>2, <1>4, <1>6, <1>7 DEF DismissalsLast

(* A thread takes the first work: one work and at most one thread less.    *)
LEMMA TakeWorkInv ==
  ASSUME Wakeups, NEW t \in WORKERS, thread[t] = "look", TakeWork(t), dismissals' = dismissals
  PROVE  Wakeups' /\ (DismissalsLast => DismissalsLast')
<1>1. /\ work # <<>> /\ work' = Tail(work) /\ idle' = idle \ {t}
      /\ current' = [current EXCEPT ![t] = Head(work)]
      /\ thread' = [thread EXCEPT ![t] = "busy"]
  BY DEF TakeWork
<1>2. /\ Head(work) \in WORK \cup {Dismissal} /\ Head(work) = work[1]
      /\ work' \in Seq(WORK \cup {Dismissal}) /\ Len(work') = Len(work) - 1
      /\ Len(work) \in Nat \ {0}
      /\ \A i \in 1 .. Len(work) - 1 : work'[i] = work[i + 1]
  BY <1>1, HeadTail DEF Wakeups, WQTypeOK
<1>3. /\ thread' \in [WORKERS -> {"look", "waiting", "signalled", "busy", "ended"}]
      /\ thread'[t] = "busy" /\ current'[t] = work[1]
      /\ \A u \in WORKERS : u # t => thread'[u] = thread[u] /\ current'[u] = current[u]
  BY <1>1, <1>2 DEF Wakeups, WQTypeOK
<1>4. WQTypeOK'
  BY <1>1, <1>2, <1>3 DEF Wakeups, WQTypeOK
<1>5. IdleThreads'
  BY <1>1, <1>3 DEF IdleThreads, Wakeups, WQTypeOK
<1>6. NoLostWakeup'
  <2>1. OnTheWay' = OnTheWay \ {t}
    BY <1>1, <1>3 DEF OnTheWay
  <2>2. IsFiniteSet(OnTheWay) /\ Cardinality(OnTheWay) \in Nat
    BY ThreadSets DEF OnTheWay
  <2>3. CASE t \in idle
    <3>1. t \notin OnTheWay
      BY <2>3 DEF OnTheWay
    <3>2. Cardinality(OnTheWay') = Cardinality(OnTheWay)
      BY <2>1, <2>2, <3>1, FS_RemoveElement
    <3> QED
      BY <1>1, <1>2, <2>2, <2>3, <3>2 DEF NoLostWakeup, Wakeups
  <2>4. CASE t \notin idle
    <3>1. Cardinality(OnTheWay') >= Cardinality(OnTheWay) - 1
      BY <2>1, <2>2, FS_RemoveElement
    <3>2. idle' = idle
      BY <1>1, <2>4
    <3>3. Cardinality(OnTheWay') \in Nat
      BY <1>4, ThreadSets, <2>1 DEF OnTheWay
    <3> QED
      BY <1>2, <2>2, <3>1, <3>2, <3>3 DEF NoLostWakeup, Wakeups
  <2> QED
    BY <2>3, <2>4
<1> SUFFICES ASSUME DismissalsLast
             PROVE  DismissalsLast'
  BY <1>4, <1>5, <1>6 DEF Wakeups
<1>7. IsFiniteSet(Dismissed) /\ Cardinality(Dismissed) \in Nat /\ t \notin Dismissed
  BY ThreadSets DEF Dismissed
<1>8. dismissals \in Nat /\ Left \in 0 .. Len(work)
  BY ThreadSets DEF Wakeups, WQTypeOK, DismissalsLast
<1>9. DismissalsLast'
  <2>1. CASE work[1] = Dismissal
    <3>1. Dismissed' = Dismissed \cup {t}
      BY <1>3, <2>1 DEF Dismissed
    <3>2. Left' = Left - 1
      <4>1. Cardinality(Dismissed') = Cardinality(Dismissed) + 1
        BY <1>7, <3>1, FS_AddElement
      <4>2. dismissals' = dismissals
        OBVIOUS
      <4> QED
        BY <1>7, <1>8, <4>1, <4>2 DEF Left
    <3>3. Left = Len(work)
      BY <1>2, <1>8, <2>1 DEF DismissalsLast
    <3>4. \A i \in 1 .. Len(work) : work[i] = Dismissal
      BY <1>2, <3>3 DEF DismissalsLast
    <3>5. \A i \in 1 .. Len(work') : work'[i] = Dismissal
      BY <1>2, <3>4
    <3> QED
      BY <1>2, <3>2, <3>3, <3>5 DEF DismissalsLast
  <2>2. CASE work[1] # Dismissal
    <3>1. Dismissed' = Dismissed
      BY <1>3, <2>2 DEF Dismissed
    <3>2. Left' = Left
      BY <3>1 DEF Left
    <3>3. Left < Len(work) /\ Dismissed = {}
      BY <1>2, <1>8, <2>2 DEF DismissalsLast
    <3>4. \A i \in 1 .. Len(work') : work'[i] = Dismissal <=> i > Len(work') - Left
      <4> SUFFICES ASSUME NEW i \in 1 .. Len(work')
                   PROVE  work'[i] = Dismissal <=> i > Len(work') - Left
        OBVIOUS
      <4>1. i + 1 \in 1 .. Len(work) /\ work'[i] = work[i + 1]
        BY <1>2
      <4>2. work[i + 1] = Dismissal <=> i + 1 > Len(work) - Left
        BY <4>1 DEF DismissalsLast
      <4> QED
        BY <1>2, <1>8, <4>1, <4>2
    <3> QED
      BY <1>2, <1>8, <3>1, <3>2, <3>3, <3>4 DEF DismissalsLast
  <2> QED
    BY <2>1, <2>2
<1> QED
  BY <1>9

(* A step that changes nothing but what one thread does, the thread taking *)
(* no dismissal, and that keeps every thread that is on its way.           *)
LEMMA ThreadStepInv ==
  ASSUME Wakeups, NEW t \in WORKERS,
         NEW s \in {"look", "waiting", "ended"},
         thread' = [thread EXCEPT ![t] = s],
         work' = work, current' = current, dismissals' = dismissals,
         idle' = IF s = "waiting" THEN idle \cup {t} ELSE idle,
         s = "waiting" => work = <<>> /\ thread[t] = "look",
         s = "look" => thread[t] \in {"waiting", "signalled"}
                         \/ (thread[t] = "busy" /\ current[t] # Dismissal),
         s = "ended" => thread[t] = "busy" /\ current[t] = Dismissal
  PROVE  Wakeups' /\ (DismissalsLast => DismissalsLast')
<1>1. /\ thread' \in [WORKERS -> {"look", "waiting", "signalled", "busy", "ended"}]
      /\ thread'[t] = s
      /\ \A u \in WORKERS : u # t => thread'[u] = thread[u]
  BY DEF Wakeups, WQTypeOK
<1>2. WQTypeOK'
  BY <1>1 DEF Wakeups, WQTypeOK
<1>3. IdleThreads'
  BY <1>1 DEF Wakeups, WQTypeOK, IdleThreads
<1>4. NoLostWakeup'
  <2>1. CASE s = "waiting"
    <3>1. Len(work') = 0
      BY <2>1
    <3>2. Cardinality(OnTheWay') \in Nat
      BY ThreadSets DEF OnTheWay
    <3> QED
      BY <3>1, <3>2 DEF NoLostWakeup
  <2>2. CASE s # "waiting"
    <3>1. OnTheWay \subseteq OnTheWay'
      BY <1>1, <2>2 DEF OnTheWay
    <3>2. OnTheWay' \in SUBSET WORKERS
      BY DEF OnTheWay
    <3>3. /\ Cardinality(OnTheWay) <= Cardinality(OnTheWay')
          /\ Cardinality(OnTheWay) \in Nat /\ Cardinality(OnTheWay') \in Nat
      BY <3>1, <3>2, ThreadSets, FS_Subset
    <3>4. Len(work) \in Nat
      BY DEF Wakeups, WQTypeOK
    <3> QED
      BY <2>2, <3>3, <3>4 DEF NoLostWakeup, Wakeups
  <2> QED
    BY <2>1, <2>2
<1>5. Dismissed' = Dismissed
  BY <1>1 DEF Dismissed
<1>6. DismissalsLast => DismissalsLast'
  BY <1>5 DEF DismissalsLast, Left
<1> QED
  BY <1>2, <1>3, <1>4, <1>6 DEF Wakeups

(* A turn of the loop of workqueue_get_work.                               *)
LEMMA GetWorkInv ==
  ASSUME Wakeups, NEW t \in WORKERS, GetWork(t)
  PROVE  Wakeups' /\ (DismissalsLast => DismissalsLast')
<1>1. CASE TakeWork(t)
  BY <1>1, TakeWorkInv DEF GetWork
<1>2. CASE AwaitWork(t)
  <2>1. thread[t] = "look" /\ work = <<>>
    BY <1>2 DEF GetWork, AwaitWork
  <2> QED
    BY <1>2, <2>1, ThreadStepInv DEF GetWork, AwaitWork
<1> QED
  BY <1>1, <1>2 DEF GetWork

(* A thread that wakes up looks for work.                                  *)
LEMMA WakeInv ==
  ASSUME Wakeups, NEW t \in WORKERS, Wake(t) \/ WakeUnasked(t)
  PROVE  Wakeups' /\ (DismissalsLast => DismissalsLast')
  BY ThreadStepInv DEF Wake, WakeUnasked

(* A thread ends only after its dismissal.                                 *)
LEMMA ReturnInv ==
  ASSUME Wakeups, NEW t \in WORKERS, Return(t)
  PROVE  Wakeups' /\ (DismissalsLast => DismissalsLast')
<1>1. current[t] = Dismissal <=> current[t].func = "dismiss"
  BY DismissalFunc DEF Wakeups, WQTypeOK
<1>2. CASE current[t] = Dismissal
  BY <1>1, <1>2, ThreadStepInv DEF Return
<1>3. CASE current[t] # Dismissal
  BY <1>1, <1>3, ThreadStepInv DEF Return
<1> QED
  BY <1>2, <1>3

-----------------------------------------------------------------------------
(* The invariants are inductive.                                           *)

(* Every step of the queue keeps the threads on their way.                 *)
LEMMA WQNextWakeups == Wakeups /\ [WQNext]_wqvars => Wakeups'
<1> SUFFICES ASSUME Wakeups, [WQNext]_wqvars PROVE Wakeups'
  OBVIOUS
<1>1. ASSUME NEW w \in WORK, QueueWork(w) PROVE Wakeups'
  BY <1>1, QueueWorkInv
<1>2. ASSUME NEW t \in WORKERS, GetWork(t) PROVE Wakeups'
  BY <1>2, GetWorkInv
<1>3. ASSUME NEW t \in WORKERS, Wake(t) \/ WakeUnasked(t) PROVE Wakeups'
  BY <1>3, WakeInv
<1>4. ASSUME NEW t \in WORKERS, Return(t) PROVE Wakeups'
  BY <1>4, ReturnInv
<1>5. CASE Dismiss
  BY <1>5, DismissInv
<1>6. CASE UNCHANGED wqvars
  BY <1>6 DEF wqvars, Wakeups, WQTypeOK, IdleThreads, NoLostWakeup, OnTheWay
<1> QED
  BY <1>1, <1>2, <1>3, <1>4, <1>5, <1>6 DEF WQNext

(* The dismissals stay the last as long as nothing is queued behind them.  *)
LEMMA OrderlyNextInv == WQInv /\ [OrderlyNext]_wqvars => WQInv'
<1> SUFFICES ASSUME Wakeups, DismissalsLast, [OrderlyNext]_wqvars PROVE WQInv'
  BY DEF WQInv
<1> USE DEF WQInv
<1>1. ASSUME NEW w \in WORK, dismissals = 0, QueueWork(w) PROVE WQInv'
  BY <1>1, QueueWorkInv
<1>2. ASSUME NEW t \in WORKERS, GetWork(t) PROVE WQInv'
  BY <1>2, GetWorkInv
<1>3. ASSUME NEW t \in WORKERS, Wake(t) \/ WakeUnasked(t) PROVE WQInv'
  BY <1>3, WakeInv
<1>4. ASSUME NEW t \in WORKERS, Return(t) PROVE WQInv'
  BY <1>4, ReturnInv
<1>5. CASE Dismiss
  BY <1>5, DismissInv
<1>6. CASE UNCHANGED wqvars
  BY <1>6 DEF wqvars, Wakeups, WQTypeOK, IdleThreads, NoLostWakeup, OnTheWay,
              DismissalsLast, Left, Dismissed
<1> QED
  BY <1>1, <1>2, <1>3, <1>4, <1>5, <1>6 DEF OrderlyNext

(* When the threads have ended, none of the queue is left.                 *)
LEMMA NothingLeft == WQInv => NothingLeftBehind
<1> SUFFICES ASSUME WQInv, WORKERS # {}, Joined
             PROVE  work = <<>>
  BY DEF NothingLeftBehind
<1>1. Dismissed = WORKERS
  BY DEF Joined, Dismissed
<1>2. dismissals \in 0 .. Cardinality(WORKERS) /\ Cardinality(WORKERS) \in Nat
  BY ThreadSets DEF WQInv, Wakeups, WQTypeOK
<1>3. Left = 0 /\ Len(work) = Left
  BY <1>1, <1>2 DEF Left, WQInv, DismissalsLast
<1> QED
  BY <1>3 DEF WQInv, Wakeups, WQTypeOK

(* queue_work signals at most one thread, and that thread may have woken   *)
(* up by itself or find that another one has taken the work: all the same, *)
(* for any number of threads, no work waits for a thread that waits.       *)
THEOREM NoWakeupLost == WQSpec => []NoLostWakeup
<1>1. WQInit => Wakeups
  BY WQInitInv DEF WQInv
<1>2. Wakeups => NoLostWakeup
  BY DEF Wakeups
<1> QED
  BY <1>1, <1>2, WQNextWakeups, PTL DEF WQSpec

(* What the queue needs of those who use it, and does not look at itself.  *)
QueuesInTime == [][\A w \in WORK : QueueWork(w) => dismissals = 0]_wqvars

(* workqueue_shutdown does not stop with work still pending, provided that *)
(* nothing is queued once it has begun: each thread takes one dismissal,   *)
(* and the dismissals are behind all other work.                           *)
THEOREM AllWorkDone == WQSpec /\ QueuesInTime => []NothingLeftBehind
<1>1. [WQNext]_wqvars /\ [\A w \in WORK : QueueWork(w) => dismissals = 0]_wqvars
        => [OrderlyNext]_wqvars
  BY DEF WQNext, OrderlyNext
<1> QED
  BY <1>1, WQInitInv, OrderlyNextInv, NothingLeft, PTL DEF WQSpec, QueuesInTime

=============================================================================
