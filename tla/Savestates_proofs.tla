-------------------------- MODULE Savestates_proofs --------------------------
(***************************************************************************)
(* Nothing is queued once the queue is being shut down, so no captured     *)
(* state is left in it; no load reads a file that is being written, for    *)
(* any number of workers, whatever fails. With one worker and no failure,  *)
(* a file goes through the states captured for it in their order.          *)
(***************************************************************************)
EXTENDS Savestates, WorkQueue_proofs

(* A name or a slot makes a path.                                          *)
LEMMA PathOfType ==
  ASSUME NEW n \in FILES \cup {Null}, NEW s \in Slots
  PROVE  PathOf(n, s) \in Paths
<1>1. 0 \in Slots
  <2>1. SLOTS \in Nat \ {0}
    BY SavestatesAssumption, Zenon
  <2> QED
    BY <2>1 DEF Slots
<1>2. CASE n = Null
  BY <1>2 DEF PathOf, Paths
<1>3. CASE n # Null
  BY <1>3 DEF PathOf, Paths
<1> QED
  BY <1>2, <1>3

-----------------------------------------------------------------------------
(* What Savestates does with the queue.                                    *)

(* What savestates_save queues is work of the queue.                       *)
LEMMA SaveStateQueues ==
  ASSUME TypeOK, SaveState
  PROVE  \E w \in WORK : QueueWork(w)
<1> DEFINE target == PathOf(fname, slot)
           w == [func |-> "save", path |-> target, state |-> captures + 1]
<1>1. QueueWork(w) /\ captures + 1 <= MAX_SAVES
  BY DEF SaveState
<1>2. target \in Paths
  BY PathOfType DEF TypeOK
<1>3. captures + 1 \in 1 .. MAX_SAVES
  <2>1. MAX_SAVES \in Nat
    BY SavestatesAssumption, Zenon
  <2>2. captures \in 0 .. MAX_SAVES
    BY Zenon DEF TypeOK
  <2> QED
    BY <1>1, <2>1, <2>2
<1>4. w \in WORK
  BY <1>2, <1>3, SavestatesAssumption
<1> QED
  BY <1>1, <1>4

(* A worker takes work, wakes up and returns as the queue says.            *)
LEMMA WorkerQueues ==
  ASSUME NEW t \in WORKERS, Worker(t)
  PROVE  [OrderlyNext]_wqvars
<1>1. CASE QueueStep(GetWork(t)) \/ QueueStep(Wake(t)) \/ WriteReturn(t)
  BY <1>1 DEF QueueStep, WriteReturn, OrderlyNext
<1>2. CASE WriteLock(t) \/ WriteOpen(t) \/ Write(t)
  BY <1>2 DEF WriteLock, WriteOpen, Write
<1> QED
  BY <1>1, <1>2 DEF Worker

(* The dismissals come after the end of the game.                          *)
GameOver == dismissals > 0 => emu = "off"

(* Every step is one of the queue, or leaves it alone; nothing is queued   *)
(* after a dismissal.                                                      *)
LEMMA StepQueues ==
  ASSUME TypeOK, GameOver, [Next]_vars
  PROVE  [OrderlyNext]_wqvars
<1>1. ASSUME NEW j \in {"save", "load"}, NEW name \in FILES \cup {Null}, Request(j, name)
      PROVE  UNCHANGED wqvars
  BY <1>1 DEF Request
<1>2. CASE RequestJob \/ RequestName \/ Stop \/ \E s \in Slots : SelectSlot(s)
  BY <1>2 DEF RequestJob, RequestName, Stop, SelectSlot
<1>3. CASE Emulation
  <2>1. CASE LoadBegin \/ LoadLock \/ LoadRead \/ ClearJob
    BY <2>1 DEF LoadBegin, LoadLock, LoadRead, ClearJob
  <2>2. CASE SaveState
    <3>1. dismissals = 0
      <4>1. dismissals \in 0 .. Cardinality(WORKERS) /\ Cardinality(WORKERS) \in Nat
        BY ThreadSets DEF TypeOK, WQTypeOK
      <4>2. ~(dismissals > 0)
        BY <2>2 DEF SaveState, GameOver
      <4> QED
        BY <4>1, <4>2
    <3> QED
      BY <2>2, <3>1, SaveStateQueues DEF OrderlyNext
  <2> QED
    BY <1>3, <2>1, <2>2 DEF Emulation
<1>4. ASSUME NEW t \in WORKERS, Worker(t) PROVE [OrderlyNext]_wqvars
  BY <1>4, WorkerQueues
<1>5. ASSUME NEW t \in WORKERS, QueueStep(WakeUnasked(t)) PROVE OrderlyNext
  BY <1>5 DEF QueueStep, OrderlyNext
<1>6. CASE Shutdown
  BY <1>6 DEF Shutdown, QueueStep, OrderlyNext
<1>7. CASE UNCHANGED vars
  BY <1>7 DEF vars
<1> QED
  BY <1>1, <1>2, <1>3, <1>4, <1>5, <1>6, <1>7 DEF Next

(* The game does not start again, and the queue is shut down only then.    *)
LEMMA StepGameOver ==
  ASSUME TypeOK, GameOver, [Next]_vars
  PROVE  GameOver'
<1>1. CASE Shutdown
  BY <1>1 DEF Shutdown, QueueStep, GameOver
<1>2. CASE Emulation
  <2>1. emu # "off" /\ dismissals' = dismissals
    BY <1>2 DEF Emulation, LoadBegin, LoadLock, LoadRead, SaveState, QueueWork, ClearJob, wqvars
  <2> QED
    BY <2>1 DEF GameOver
<1>3. CASE Stop
  BY <1>3 DEF Stop, GameOver
<1>4. ASSUME UNCHANGED <<emu, dismissals>>
      PROVE  GameOver'
  BY <1>4 DEF GameOver
<1>5. ASSUME NEW j \in {"save", "load"}, NEW name \in FILES \cup {Null}, Request(j, name)
      PROVE  UNCHANGED <<emu, dismissals>>
  BY <1>5 DEF Request, wqvars
<1>6. CASE RequestJob \/ RequestName \/ (\E s \in Slots : SelectSlot(s)) \/ UNCHANGED vars
  BY <1>4, <1>6 DEF RequestJob, RequestName, SelectSlot, vars, wqvars
<1>7. ASSUME NEW t \in WORKERS, Worker(t) \/ QueueStep(WakeUnasked(t))
      PROVE  UNCHANGED <<emu, dismissals>>
  <2>1. CASE QueueStep(GetWork(t)) \/ QueueStep(Wake(t)) \/ QueueStep(WakeUnasked(t))
    BY <2>1 DEF QueueStep, GetWork, Wake, WakeUnasked
  <2>2. CASE WriteLock(t) \/ WriteOpen(t) \/ Write(t) \/ WriteReturn(t)
    BY <2>2 DEF WriteLock, WriteOpen, Write, WriteReturn, Return, wqvars
  <2> QED
    BY <1>7, <2>1, <2>2 DEF Worker
<1> QED
  BY <1>1, <1>2, <1>3, <1>4, <1>5, <1>6, <1>7 DEF Next

-----------------------------------------------------------------------------
(* The lock. A worker that failed keeps it; then no load ever reads.       *)

Critical(t) == Saving(t, "open") \/ Saving(t, "write")

LockInv ==
  /\ lock.owner = "none" <=> lock.depth = 0
  /\ emu = "read" <=> lock.owner = "emulation"
  /\ emu = "read" => lock.depth = 1
  /\ torn # {} => lock.owner \in WORKERS
  /\ \A t \in WORKERS :
       /\ Critical(t) => lock.owner = t
       /\ lock.depth = 1 /\ Saving(t, "open") => torn = {}
       /\ lock.depth = 1 /\ Saving(t, "write") => torn \subseteq {current[t].path}
       /\ thread[t] # "busy" => step[t] = "lock"

(* The invariant: types, the work queue's own, the shutdown's and the      *)
(* lock's.                                                                 *)
IInv == TypeOK /\ WQInv /\ GameOver /\ LockInv

(* The names of the threads are told apart.                                *)
LEMMA Threads ==
  /\ "none" \notin WORKERS /\ "emulation" \notin WORKERS
  /\ MAX_SAVES \in Nat /\ SLOTS \in Nat \ {0}
  /\ WORK = [func : {"save"}, path : Paths, state : 1 .. MAX_SAVES]
<1>1. WORKERS \cap {"none", "emulation"} = {}
  BY SavestatesAssumption, Zenon
<1>2. "none" \notin WORKERS /\ "emulation" \notin WORKERS
  BY <1>1
<1> QED
  BY <1>2, SavestatesAssumption, Zenon

(* A step outside of the critical sections.                                *)
LEMMA LockFrame ==
  ASSUME LockInv, lock' = lock, step' = step, torn' = torn,
         emu' = "read" <=> emu = "read",
         \A t \in WORKERS : thread'[t] = "busy"
           => \/ thread[t] = "busy" /\ current'[t] = current[t]
              \/ step[t] = "lock",
         \A t \in WORKERS : thread'[t] # "busy" => step[t] = "lock"
  PROVE  LockInv'
<1>1. ASSUME NEW t \in WORKERS, NEW s \in {"open", "write"}, Saving(t, s)'
      PROVE  Saving(t, s) /\ current'[t] = current[t]
  BY <1>1 DEF Saving
<1>2. \A t \in WORKERS :
       /\ Critical(t)' => lock.owner = t
       /\ lock.depth = 1 /\ Saving(t, "open")' => torn = {}
       /\ lock.depth = 1 /\ Saving(t, "write")' => torn \subseteq {current'[t].path}
  BY <1>1 DEF LockInv, Critical
<1> QED
  BY <1>2 DEF LockInv

(* A signal makes no thread busy, nor any busy thread anything else.       *)
LEMMA SignalBusy ==
  ASSUME WQTypeOK, Signal
  PROVE  \A t \in WORKERS : thread'[t] = "busy" <=> thread[t] = "busy"
<1>1. CASE idle = {}
  BY <1>1 DEF Signal
<1>2. CASE idle # {}
  <2>1. PICK u \in idle :
          thread' = [thread EXCEPT ![u] = IF @ = "waiting" THEN "signalled" ELSE @]
    BY <1>2 DEF Signal
  <2> QED
    BY <2>1 DEF WQTypeOK
<1> QED
  BY <1>1, <1>2

(* What the queue does by itself happens outside of the critical sections. *)
LEMMA QueueStepLock ==
  ASSUME WQTypeOK, LockInv, UNCHANGED <<emu, lock, step, torn>>,
         \/ \E t \in WORKERS : GetWork(t) \/ Wake(t) \/ WakeUnasked(t)
         \/ Dismiss
  PROVE  LockInv'
<1>1. ASSUME NEW t \in WORKERS, GetWork(t) \/ Wake(t) \/ WakeUnasked(t)
      PROVE  LockInv'
  <2>1. /\ thread[t] # "busy"
        /\ \A u \in WORKERS : u # t => thread'[u] = thread[u] /\ current'[u] = current[u]
    BY <1>1 DEF GetWork, TakeWork, AwaitWork, Wake, WakeUnasked, WQTypeOK
  <2>2. step[t] = "lock"
    BY <2>1 DEF LockInv
  <2> QED
    BY <2>1, <2>2, LockFrame DEF LockInv
<1>2. CASE Dismiss
  <2>1. Signal /\ current' = current
    BY <1>2 DEF Dismiss, Enqueue
  <2> QED
    BY <2>1, SignalBusy, LockFrame DEF LockInv
<1> QED
  BY <1>1, <1>2

(* The emulation thread.                                                   *)
LEMMA LoadLockInv ==
  ASSUME TypeOK, LockInv, LoadLock \/ LoadRead
  PROVE  LockInv' /\ lock' \in [owner : WORKERS \cup {"none", "emulation"}, depth : Nat]
<1>0. /\ lock \in [owner : WORKERS \cup {"none", "emulation"}, depth : Nat]
      /\ UNCHANGED <<step, torn, thread, current>>
  BY DEF TypeOK, LoadLock, LoadRead, wqvars
<1>1. \A t \in WORKERS : \A s : Saving(t, s)' <=> Saving(t, s)
  BY <1>0 DEF Saving
<1>2. \A t \in WORKERS : Critical(t)' <=> Critical(t)
  BY <1>1 DEF Critical
<1>3. CASE LoadLock
  <2>1. lock.owner = "none" /\ lock.depth = 0 /\ emu' = "read"
    BY <1>3 DEF LoadLock, Available, LockInv
  <2>2. lock' = [owner |-> "emulation", depth |-> 1]
    BY <1>3, <2>1 DEF LoadLock, Locked
  <2>3. torn = {} /\ \A t \in WORKERS : ~Critical(t)
    BY <2>1, Threads DEF LockInv
  <2> QED
    BY <1>0, <1>1, <1>2, <2>1, <2>2, <2>3 DEF LockInv
<1>4. CASE LoadRead
  <2>1. lock.owner = "emulation" /\ lock.depth = 1 /\ emu' = "end"
    BY <1>4 DEF LoadRead, LockInv
  <2>2. lock' = [owner |-> "none", depth |-> 0]
    BY <1>4, <2>1 DEF LoadRead, Unlocked
  <2>3. torn = {} /\ \A t \in WORKERS : ~Critical(t)
    BY <2>1, Threads DEF LockInv
  <2> QED
    BY <1>0, <1>1, <1>2, <2>1, <2>2, <2>3 DEF LockInv
<1> QED
  BY <1>3, <1>4

(* The workers: what a step in the critical section of t does, and that    *)
(* the other workers are not in theirs.                                    *)
LEMMA WriteFrame ==
  ASSUME TypeOK, LockInv, NEW t \in WORKERS,
         UNCHANGED <<wqvars, emu>>,
         thread[t] = "busy", Available(t) \/ Critical(t),
         NEW s \in {"open", "write", "return"},
         step' = [step EXCEPT ![t] = s]
  PROVE  /\ lock.owner \in {"none", t}
         /\ emu' # "read"
         /\ \A u \in WORKERS : thread'[u] # "busy" => step'[u] = "lock"
         /\ \A u \in WORKERS \ {t} : ~Critical(u)' /\ ~Saving(u, "open")' /\ ~Saving(u, "write")'
         /\ Critical(t)' => s \in {"open", "write"}
         /\ Saving(t, "open")' => s = "open"
         /\ Saving(t, "write")' => s = "write"
<1>1. lock.owner \in {"none", t}
  BY DEF Available, LockInv
<1>2. emu' # "read"
  BY <1>1, Threads DEF LockInv
<1>3. \A u \in WORKERS \ {t} : ~Critical(u)
  BY <1>1, Threads DEF LockInv
<1>4. thread' = thread /\ current' = current /\ step \in [WORKERS -> {"lock", "open", "write", "return"}]
  BY DEF wqvars, TypeOK
<1>5. \A u \in WORKERS \ {t} : step'[u] = step[u]
  BY <1>4
<1>6. step'[t] = s
  BY <1>4
<1>7. \A u \in WORKERS : thread'[u] # "busy" => step'[u] = "lock"
  BY <1>4, <1>5 DEF LockInv
<1>8. \A u \in WORKERS \ {t} : ~Saving(u, "open")' /\ ~Saving(u, "write")'
  BY <1>3, <1>4, <1>5 DEF Critical, Saving
<1>9. (Saving(t, "open")' => s = "open") /\ (Saving(t, "write")' => s = "write")
  BY <1>6 DEF Saving
<1> QED
  BY <1>1, <1>2, <1>7, <1>8, <1>9 DEF Critical

(* Taking the lock: for the first time nothing is torn, else it is held    *)
(* more than once from then on.                                            *)
LEMMA WriteLockInv ==
  ASSUME TypeOK, LockInv, NEW t \in WORKERS, WriteLock(t)
  PROVE  LockInv' /\ lock' \in [owner : WORKERS \cup {"none", "emulation"}, depth : Nat]
<1>1. /\ lock \in [owner : WORKERS \cup {"none", "emulation"}, depth : Nat]
      /\ Available(t) /\ thread[t] = "busy" /\ torn' = torn
      /\ step' = [step EXCEPT ![t] = "open"] /\ UNCHANGED <<wqvars, emu>>
      /\ lock' = [owner |-> t, depth |-> lock.depth + 1]
  BY DEF TypeOK, WriteLock, Saving, Locked
<1>2. /\ lock.owner \in {"none", t}
      /\ emu' # "read"
      /\ \A u \in WORKERS : thread'[u] # "busy" => step'[u] = "lock"
      /\ \A u \in WORKERS \ {t} : ~Critical(u)' /\ ~Saving(u, "open")' /\ ~Saving(u, "write")'
      /\ ~Saving(t, "write")'
  BY <1>1, WriteFrame
<1>3. lock'.owner = t /\ lock'.depth = lock.depth + 1 /\ lock.depth \in Nat
  BY <1>1
<1>4. lock'.depth # 0 /\ (lock'.depth = 1 => lock.depth = 0)
  BY <1>3
<1>5. lock.depth = 0 => torn = {}
  BY Threads DEF LockInv
<1>6. lock'.depth = 1 => torn' = {}
  BY <1>1, <1>4, <1>5
<1>7. lock'.owner \in WORKERS /\ lock'.owner # "none" /\ lock'.owner # "emulation"
  BY <1>3, Threads
<1>8. \A u \in WORKERS :
        /\ Critical(u)' => lock'.owner = u
        /\ lock'.depth = 1 /\ Saving(u, "open")' => torn' = {}
        /\ lock'.depth = 1 /\ Saving(u, "write")' => torn' \subseteq {current'[u].path}
  BY <1>2, <1>3, <1>6
<1>9. LockInv'
  BY <1>2, <1>4, <1>7, <1>8 DEF LockInv
<1>10. lock' \in [owner : WORKERS \cup {"none", "emulation"}, depth : Nat]
  BY <1>1, <1>3
<1> QED
  BY <1>9, <1>10

(* Opening the file truncates it.                                          *)
LEMMA WriteOpenInv ==
  ASSUME TypeOK, LockInv, NEW t \in WORKERS, WriteOpen(t)
  PROVE  LockInv' /\ lock' = lock
<1>1. /\ Critical(t) /\ Saving(t, "open") /\ thread[t] = "busy"
      /\ UNCHANGED <<wqvars, emu, lock>>
      /\ lock.depth \in Nat
  BY DEF TypeOK, WriteOpen, Critical, Saving
<1>2. lock.owner = t
  BY <1>1 DEF LockInv
<1>3. CASE step' = [step EXCEPT ![t] = "write"] /\ torn' = torn \cup {current[t].path}
  <2>1. /\ emu' # "read"
        /\ \A u \in WORKERS : thread'[u] # "busy" => step'[u] = "lock"
        /\ \A u \in WORKERS \ {t} : ~Critical(u)' /\ ~Saving(u, "open")' /\ ~Saving(u, "write")'
        /\ ~Saving(t, "open")'
    BY <1>1, <1>3, WriteFrame
  <2>2. lock.depth = 1 => torn' \subseteq {current'[t].path}
    BY <1>1, <1>3 DEF LockInv, wqvars
  <2> QED
    BY <1>1, <1>2, <2>1, <2>2, Threads DEF LockInv
<1>4. CASE step' = [step EXCEPT ![t] = "return"] /\ torn' = torn
  <2>1. /\ emu' # "read"
        /\ \A u \in WORKERS : thread'[u] # "busy" => step'[u] = "lock"
        /\ \A u \in WORKERS : ~Critical(u)' /\ ~Saving(u, "open")' /\ ~Saving(u, "write")'
    BY <1>1, <1>4, WriteFrame DEF Critical
  <2> QED
    BY <1>1, <1>2, <1>4, <2>1, Threads DEF LockInv
<1> QED
  BY <1>1, <1>3, <1>4 DEF WriteOpen

(* The last unlock leaves nothing torn; a worker that failed keeps it.     *)
LEMMA WriteInv ==
  ASSUME TypeOK, LockInv, NEW t \in WORKERS, Write(t)
  PROVE  LockInv' /\ lock' \in [owner : WORKERS \cup {"none", "emulation"}, depth : Nat]
<1>1. /\ lock \in [owner : WORKERS \cup {"none", "emulation"}, depth : Nat]
      /\ Critical(t) /\ Saving(t, "write") /\ thread[t] = "busy"
      /\ UNCHANGED <<wqvars, emu>> /\ step' = [step EXCEPT ![t] = "return"]
  BY DEF TypeOK, Write, Critical, Saving
<1>2. lock.owner = t /\ lock.depth \in Nat /\ lock.depth # 0
  BY <1>1, Threads DEF LockInv
<1>3. /\ emu' # "read"
      /\ \A u \in WORKERS : thread'[u] # "busy" => step'[u] = "lock"
      /\ \A u \in WORKERS : ~Critical(u)' /\ ~Saving(u, "open")' /\ ~Saving(u, "write")'
  BY <1>1, WriteFrame DEF Critical
<1>4. CASE torn' = torn \ {current[t].path} /\ lock' = Unlocked
  <2>1. CASE lock.depth = 1
    <3>1. torn' = {}
      BY <1>1, <1>4, <2>1 DEF LockInv
    <3>2. lock' = [owner |-> "none", depth |-> 0]
      BY <1>4, <2>1 DEF Unlocked
    <3> QED
      BY <1>3, <3>1, <3>2, Threads DEF LockInv
  <2>2. CASE lock.depth # 1
    <3>1. lock' = [lock EXCEPT !.depth = @ - 1]
      BY <1>4, <2>2 DEF Unlocked
    <3>2. lock'.owner = t /\ lock'.depth = lock.depth - 1
      BY <1>1, <1>2, <3>1
    <3>3. lock'.depth \in Nat \ {0}
      BY <1>2, <2>2, <3>2
    <3>4. lock' \in [owner : WORKERS \cup {"none", "emulation"}, depth : Nat]
      BY <1>1, <1>2, <2>2, <3>1
    <3> QED
      BY <1>3, <3>2, <3>3, <3>4, Threads DEF LockInv
  <2> QED
    BY <2>1, <2>2
<1>5. CASE torn' = torn /\ lock' = lock
  BY <1>1, <1>2, <1>3, <1>5, Threads DEF LockInv
<1> QED
  BY <1>4, <1>5 DEF Write

(* A returning worker leaves the critical section behind.                  *)
LEMMA WriteReturnInv ==
  ASSUME TypeOK, LockInv, NEW t \in WORKERS, WriteReturn(t)
  PROVE  LockInv' /\ lock' = lock
<1>1. /\ UNCHANGED <<emu, lock, torn, current>>
      /\ step' = [step EXCEPT ![t] = "lock"]
      /\ thread' = [thread EXCEPT ![t] = IF current[t].func = "dismiss" THEN "ended" ELSE "look"]
  BY DEF WriteReturn, Return
<1>2. /\ thread \in [WORKERS -> {"look", "waiting", "signalled", "busy", "ended"}]
      /\ step \in [WORKERS -> {"lock", "open", "write", "return"}]
  BY DEF TypeOK, WQTypeOK
<1>3. thread'[t] # "busy" /\ step'[t] = "lock"
  BY <1>1, <1>2
<1>4. \A u \in WORKERS \ {t} : thread'[u] = thread[u] /\ step'[u] = step[u]
  BY <1>1, <1>2
<1>5. ~Saving(t, "open")' /\ ~Saving(t, "write")' /\ ~Critical(t)'
  BY <1>3 DEF Saving, Critical
<1>6. \A u \in WORKERS \ {t} :
        /\ Saving(u, "open")' <=> Saving(u, "open")
        /\ Saving(u, "write")' <=> Saving(u, "write")
        /\ Critical(u)' <=> Critical(u)
  BY <1>1, <1>4 DEF Saving, Critical
<1>7. \A u \in WORKERS :
        /\ Critical(u)' => lock.owner = u
        /\ lock.depth = 1 /\ Saving(u, "open")' => torn = {}
        /\ lock.depth = 1 /\ Saving(u, "write")' => torn \subseteq {current[u].path}
        /\ thread'[u] # "busy" => step'[u] = "lock"
  BY <1>3, <1>4, <1>5, <1>6 DEF LockInv
<1> QED
  BY <1>1, <1>7 DEF LockInv

-----------------------------------------------------------------------------
(* The invariant is inductive.                                             *)

(* It holds at the start.                                                  *)
LEMMA InitIInv == Init => IInv
<1> SUFFICES ASSUME Init PROVE IInv
  OBVIOUS
<1>1. WQInv
  BY WQInitInv DEF Init
<1>2. MAX_SAVES \in Nat /\ SLOTS \in Nat \ {0} /\ 0 \in 0 .. MAX_SAVES
  <2>1. MAX_SAVES \in Nat /\ SLOTS \in Nat \ {0}
    BY Threads, Zenon
  <2> QED
    BY <2>1
<1>3. 0 \in Slots /\ PathOf(Null, 0) \in Paths
  BY <1>2, PathOfType DEF Slots
<1>4. TypeOK
  BY <1>1, <1>2, <1>3 DEF Init, TypeOK, WQInv, Wakeups
<1>5. \A t \in WORKERS : ~Critical(t) /\ ~Saving(t, "open") /\ ~Saving(t, "write") /\ step[t] = "lock"
  BY DEF Init, WQInit, Critical, Saving
<1>6. LockInv
  BY <1>5 DEF Init, LockInv
<1>7. GameOver
  BY DEF Init, WQInit, GameOver
<1> QED
  BY <1>1, <1>4, <1>6, <1>7 DEF IInv

(* The front end.                                                          *)
LEMMA RequestsInv ==
  ASSUME TypeOK, LockInv, WQTypeOK',
         \/ \E j \in {"save", "load"}, name \in FILES \cup {Null} : Request(j, name)
         \/ RequestJob \/ RequestName
         \/ \E s \in Slots : SelectSlot(s)
  PROVE  TypeOK' /\ LockInv'
<1>1. UNCHANGED <<thread, current, emu, path, lock, step, disk, torn, captures, captured>>
  BY DEF Request, RequestJob, RequestName, SelectSlot, wqvars, filevars, savevars
<1>2. LockInv'
  BY <1>1, LockFrame DEF LockInv
<1>3. /\ job' \in {"none", "save", "load"} /\ fname' \in FILES \cup {Null}
      /\ slot' \in Slots
      /\ request' \in [at : {"job", "name", "done"}, job : {"none", "save", "load"},
                       name : FILES \cup {Null}]
  <2>1. CASE \E j \in {"save", "load"}, name \in FILES \cup {Null} : Request(j, name)
    BY <2>1 DEF Request, TypeOK
  <2>2. CASE RequestJob
    BY <2>2 DEF RequestJob, TypeOK
  <2>3. CASE RequestName
    BY <2>3 DEF RequestName, TypeOK
  <2>4. CASE \E s \in Slots : SelectSlot(s)
    BY <2>4 DEF SelectSlot, TypeOK
  <2> QED
    BY <2>1, <2>2, <2>3, <2>4
<1> QED
  BY <1>1, <1>2, <1>3 DEF TypeOK

(* The emulation thread outside of the lock.                               *)
LEMMA SaveStateInv ==
  ASSUME TypeOK, LockInv, WQTypeOK', SaveState
  PROVE  TypeOK' /\ LockInv'
<1> DEFINE target == PathOf(fname, slot)
           w == [func |-> "save", path |-> target, state |-> captures + 1]
<1>1. /\ UNCHANGED <<job, fname, request, path, lock, step, disk, torn>>
      /\ emu = "run" /\ emu' = "end"
      /\ captures' = captures + 1 /\ captures + 1 <= MAX_SAVES
      /\ captured' = [captured EXCEPT ![target] = captures + 1]
      /\ slot' = IF AUTOINC THEN (slot + 1) % SLOTS ELSE slot
  BY DEF SaveState, filevars
<1>2. Signal /\ current' = current
  BY DEF SaveState, QueueWork, Enqueue
<1>3. \A t \in WORKERS : thread'[t] = "busy" <=> thread[t] = "busy"
  BY <1>2, SignalBusy DEF TypeOK
<1>4. LockInv'
  BY <1>1, <1>2, <1>3, LockFrame DEF LockInv
<1>5. captures' \in 0 .. MAX_SAVES /\ captured' \in [Paths -> 0 .. MAX_SAVES]
  <2>1. MAX_SAVES \in Nat
    BY Threads, Zenon
  <2>2. captures + 1 \in 0 .. MAX_SAVES
    BY <1>1, <2>1 DEF TypeOK
  <2> QED
    BY <1>1, <2>2 DEF TypeOK
<1>6. slot' \in Slots
  <2>1. SLOTS \in Nat \ {0} /\ slot \in 0 .. SLOTS - 1
    BY Threads, Zenon DEF TypeOK, Slots
  <2>2. (slot + 1) % SLOTS \in 0 .. SLOTS - 1
    BY <2>1
  <2> QED
    BY <1>1, <2>1, <2>2 DEF Slots
<1> QED
  BY <1>1, <1>4, <1>5, <1>6 DEF TypeOK

(* The emulation thread.                                                   *)
LEMMA EmulationInv ==
  ASSUME TypeOK, LockInv, WQTypeOK', Emulation \/ Stop
  PROVE  TypeOK' /\ LockInv'
<1>1. CASE LoadBegin
  <2>1. /\ UNCHANGED <<thread, current, job, fname, slot, request, lock, step, disk, torn,
                       captures, captured>>
        /\ path' = PathOf(fname, slot) /\ emu = "run" /\ emu' \in {"lock", "end"}
    BY <1>1 DEF LoadBegin, wqvars, jobvars, filevars, savevars
  <2>2. path' \in Paths
    BY <2>1, PathOfType DEF TypeOK
  <2>3. LockInv'
    BY <2>1, LockFrame DEF LockInv
  <2> QED
    BY <2>1, <2>2, <2>3 DEF TypeOK
<1>2. CASE LoadLock \/ LoadRead
  <2>1. /\ UNCHANGED <<job, fname, slot, request, path, step, disk, torn, captures, captured>>
        /\ emu' \in {"read", "end"}
    BY <1>2 DEF LoadLock, LoadRead, jobvars, savevars
  <2> QED
    BY <1>2, <2>1, LoadLockInv DEF TypeOK
<1>3. CASE SaveState
  BY <1>3, SaveStateInv
<1>4. CASE ClearJob \/ Stop
  <2>1. /\ UNCHANGED <<thread, current, slot, request, path, lock, step, disk, torn,
                       captures, captured>>
        /\ emu \in {"run", "end"} /\ emu' \in {"run", "off"}
        /\ job' \in {job, "none"} /\ fname' \in {fname, Null}
    BY <1>4 DEF ClearJob, Stop, wqvars, jobvars, filevars, savevars
  <2>2. LockInv'
    BY <2>1, LockFrame DEF LockInv
  <2> QED
    BY <2>1, <2>2 DEF TypeOK
<1> QED
  BY <1>1, <1>2, <1>3, <1>4 DEF Emulation

(* The workers.                                                            *)
LEMMA WorkerInv ==
  ASSUME TypeOK, LockInv, WQTypeOK', NEW t \in WORKERS, Worker(t) \/ QueueStep(WakeUnasked(t))
  PROVE  TypeOK' /\ LockInv'
<1>1. CASE QueueStep(GetWork(t)) \/ QueueStep(Wake(t)) \/ QueueStep(WakeUnasked(t))
  <2>1. /\ UNCHANGED <<job, fname, slot, request, emu, path, lock, step, disk, torn,
                       captures, captured>>
        /\ GetWork(t) \/ Wake(t) \/ WakeUnasked(t)
    BY <1>1 DEF QueueStep, jobvars, filevars, savevars
  <2>2. LockInv'
    BY <2>1, QueueStepLock DEF TypeOK
  <2> QED
    BY <2>1, <2>2 DEF TypeOK
<1>2. CASE WriteLock(t)
  <2>1. /\ UNCHANGED <<job, fname, slot, request, emu, path, disk, torn, captures, captured>>
        /\ step' = [step EXCEPT ![t] = "open"]
    BY <1>2 DEF WriteLock, jobvars, savevars
  <2> QED
    BY <1>2, <2>1, WriteLockInv DEF TypeOK
<1>3. CASE WriteOpen(t)
  <2>1. /\ UNCHANGED <<job, fname, slot, request, emu, path, disk, captures, captured>>
        /\ step' \in {[step EXCEPT ![t] = "write"], [step EXCEPT ![t] = "return"]}
        /\ torn' \in {torn, torn \cup {current[t].path}}
        /\ thread[t] = "busy" /\ current[t].func = "save"
    BY <1>3 DEF WriteOpen, jobvars, savevars, Saving
  <2>2. current[t] \in WORK
    BY <2>1 DEF TypeOK, WQTypeOK, Dismissal
  <2>3. torn' \subseteq Paths
    BY <2>1, <2>2, Threads DEF TypeOK
  <2> QED
    BY <1>3, <2>1, <2>3, WriteOpenInv DEF TypeOK
<1>4. CASE Write(t)
  <2>1. /\ UNCHANGED <<job, fname, slot, request, emu, path, captures, captured>>
        /\ step' = [step EXCEPT ![t] = "return"]
        /\ torn' \subseteq torn
        /\ disk' \in {disk, [disk EXCEPT ![current[t].path] = current[t].state]}
        /\ thread[t] = "busy" /\ current[t].func = "save"
    BY <1>4 DEF Write, jobvars, savevars, Saving
  <2>2. current[t] \in WORK
    BY <2>1 DEF TypeOK, WQTypeOK, Dismissal
  <2>3. current[t].path \in Paths /\ current[t].state \in 0 .. MAX_SAVES
    <3>1. WORK = [func : {"save"}, path : Paths, state : 1 .. MAX_SAVES]
      BY Threads, Zenon
    <3>2. MAX_SAVES \in Nat
      BY Threads, Zenon
    <3>3. current[t].path \in Paths /\ current[t].state \in 1 .. MAX_SAVES
      BY <2>2, <3>1
    <3> QED
      BY <3>2, <3>3
  <2>4. disk' \in [Paths -> 0 .. MAX_SAVES]
    BY <2>1, <2>3 DEF TypeOK
  <2> QED
    BY <1>4, <2>1, <2>4, WriteInv DEF TypeOK
<1>5. CASE WriteReturn(t)
  <2>1. /\ UNCHANGED <<job, fname, slot, request, emu, path, disk, torn, captures, captured>>
        /\ step' = [step EXCEPT ![t] = "lock"]
    BY <1>5 DEF WriteReturn, jobvars, savevars
  <2> QED
    BY <1>5, <2>1, WriteReturnInv DEF TypeOK
<1> QED
  BY <1>1, <1>2, <1>3, <1>4, <1>5 DEF Worker

(* Every step keeps it, by the lemma of its actor.                         *)
LEMMA NextIInv ==
  ASSUME IInv, [Next]_vars
  PROVE  IInv'
<1>1. WQInv' /\ WQTypeOK' /\ GameOver'
  BY StepQueues, StepGameOver, OrderlyNextInv DEF IInv, WQInv, Wakeups
<1>2. CASE UNCHANGED vars
  <2>1. UNCHANGED <<thread, current, job, fname, slot, request, emu, path, lock, step, disk,
                    torn, captures, captured>>
    BY <1>2 DEF vars, wqvars, jobvars, filevars, savevars
  <2>2. LockInv'
    BY <2>1, LockFrame DEF IInv, LockInv
  <2> QED
    BY <1>1, <2>1, <2>2 DEF IInv, TypeOK
<1>3. CASE \/ \E j \in {"save", "load"}, name \in FILES \cup {Null} : Request(j, name)
           \/ RequestJob \/ RequestName
           \/ \E s \in Slots : SelectSlot(s)
  BY <1>1, <1>3, RequestsInv DEF IInv
<1>4. CASE Emulation \/ Stop
  BY <1>1, <1>4, EmulationInv DEF IInv
<1>5. CASE \E t \in WORKERS : Worker(t) \/ QueueStep(WakeUnasked(t))
  BY <1>1, <1>5, WorkerInv DEF IInv
<1>6. CASE Shutdown
  <2>1. /\ UNCHANGED <<job, fname, slot, request, emu, path, lock, step, disk, torn,
                       captures, captured>>
        /\ Dismiss
    BY <1>6 DEF Shutdown, QueueStep, jobvars, filevars, savevars
  <2>2. LockInv'
    BY <2>1, QueueStepLock DEF IInv, TypeOK
  <2> QED
    BY <1>1, <2>1, <2>2 DEF IInv, TypeOK
<1> QED
  BY <1>2, <1>3, <1>4, <1>5, <1>6 DEF Next

(* The invariant holds of every state.                                     *)
LEMMA IInvariance == Spec => []IInv
<1>1. IInv /\ [Next]_vars => IInv'
  BY NextIInv
<1> QED
  BY InitIInv, <1>1, PTL DEF Spec

-----------------------------------------------------------------------------
(* Every variable has its type.                                            *)
THEOREM TypeCorrect == Spec => []TypeOK
<1>1. IInv => TypeOK
  BY DEF IInv
<1> QED
  BY IInvariance, <1>1, PTL

(* savestates_lock does its work: a load never reads a file that a worker  *)
(* has truncated and not finished, for any number of workers and whether   *)
(* or not opening and writing files fails. (After a failure nothing is     *)
(* loaded any more: the lock is never released.)                           *)
THEOREM NeverTornLoad == Spec => []NoTornLoad
<1>1. IInv => NoTornLoad
  BY Threads DEF IInv, LockInv, NoTornLoad
<1> QED
  BY IInvariance, <1>1, PTL

(* workqueue_shutdown may find a worker writing, and others waiting, awake *)
(* or about to look: with any number of workers, and whatever fails, it    *)
(* ends only when every captured state has been taken from the queue,      *)
(* because a state is captured only while the game runs.                   *)
THEOREM SavesNotLeftBehind == Spec => []NothingLeftBehind
<1>1. IInv => NothingLeftBehind
  BY NothingLeft DEF IInv
<1> QED
  BY IInvariance, <1>1, PTL

-----------------------------------------------------------------------------
(* One worker, and no failure: the saves of a file in the order asked for. *)

Writing(t)   == thread[t] = "busy" /\ current[t].func = "save" /\ step[t] # "return"
QueuedFor(p) == {i \in DOMAIN work : work[i].func = "save" /\ work[i].path = p}

(* The last save queued for a file, else the one being written, else the   *)
(* file itself, holds the state captured for that file last.               *)
LastQueued(p) ==
  \A i \in QueuedFor(p) : (\A j \in QueuedFor(p) : j <= i) => work[i].state = captured[p]
LastWritten(p) ==
  \A t \in WORKERS : Writing(t) /\ current[t].path = p /\ QueuedFor(p) = {}
                     => current[t].state = captured[p]
OrderInv == (\A p \in Paths : LastQueued(p) /\ LastWritten(p)) /\ LatestOnDisk

(* There is one worker and nothing fails when it writes.                   *)
OneSureWorker == (\E t : WORKERS = {t}) /\ FAILURES = {}

(* A save waits in the queue or is being written.                          *)
LEMMA PendingSaves ==
  ASSUME NEW p
  PROVE  Pending(p) <=> QueuedFor(p) # {} \/ \E t \in WORKERS : Writing(t) /\ current[t].path = p
  BY DEF Pending, QueuedFor, Writing

(* A step that queues, takes, captures and writes nothing.                 *)
LEMMA OrderFrame ==
  ASSUME OrderInv, work' = work, captured' = captured, disk' = disk,
         \A t \in WORKERS : Writing(t)' <=> Writing(t),
         \A t \in WORKERS : Writing(t) => current'[t] = current[t]
  PROVE  OrderInv'
<1>1. \A p : QueuedFor(p)' = QueuedFor(p)
  BY DEF QueuedFor
<1>2. \A p \in Paths : LastQueued(p)'
  BY <1>1 DEF OrderInv, LastQueued
<1>3. \A p \in Paths : LastWritten(p)'
  BY <1>1 DEF OrderInv, LastWritten
<1>4. ASSUME NEW p \in Paths, ~Pending(p)'
      PROVE  disk'[p] = captured'[p]
  <2>1. ~Pending(p)
    BY <1>4 DEF Pending, Writing
  <2> QED
    BY <2>1 DEF OrderInv, LatestOnDisk
<1> QED
  BY <1>2, <1>3, <1>4 DEF OrderInv, LatestOnDisk

(* A save that is queued is the last one for its file.                     *)
LEMMA SaveStateOrder ==
  ASSUME TypeOK, OrderInv, SaveState
  PROVE  OrderInv'
<1>0. PICK target : target = PathOf(fname, slot)
  OBVIOUS
<1> DEFINE state == captures + 1
           w == [func |-> "save", path |-> target, state |-> state]
<1>1. /\ work' = Append(work, w) /\ current' = current /\ Signal
      /\ captured' = [captured EXCEPT ![target] = state] /\ UNCHANGED <<step, disk>>
  BY <1>0 DEF SaveState, QueueWork, Enqueue, filevars
<1>2. target \in Paths
  BY <1>0, PathOfType DEF TypeOK
<1>3. /\ work \in Seq(WORK \cup {Dismissal}) /\ Len(work) \in Nat /\ DOMAIN work = 1 .. Len(work)
      /\ captured \in [Paths -> 0 .. MAX_SAVES]
  BY LenProperties DEF TypeOK, WQTypeOK
<1>4. \A t \in WORKERS : Writing(t)' <=> Writing(t)
  BY <1>1, SignalBusy DEF TypeOK, Writing
<1>5. w.func = "save" /\ w.path = target /\ w.state = state
  OBVIOUS
<1> HIDE DEF state, w
<1>6. /\ DOMAIN work' = 1 .. Len(work) + 1
      /\ \A i \in DOMAIN work : work'[i] = work[i]
      /\ work'[Len(work) + 1] = w
  BY <1>1, <1>3
<1>7. captured'[target] = state /\ \A p \in Paths \ {target} : captured'[p] = captured[p]
  BY <1>1, <1>2, <1>3
<1>8. /\ Len(work) + 1 \in QueuedFor(target)'
      /\ \A i \in QueuedFor(target)' : i \in Nat /\ i <= Len(work) + 1
      /\ \A p : p # target => QueuedFor(p)' = QueuedFor(p)
  <2>1. Len(work) + 1 \in QueuedFor(target)'
    BY <1>3, <1>5, <1>6 DEF QueuedFor
  <2>2. \A i \in QueuedFor(target)' : i \in Nat /\ i <= Len(work) + 1
    BY <1>3, <1>6 DEF QueuedFor
  <2>3. ASSUME NEW p, p # target
        PROVE  QueuedFor(p)' = QueuedFor(p)
    <3>1. QueuedFor(p)' = {i \in DOMAIN work' : work'[i].func = "save" /\ work'[i].path = p}
      BY DEF QueuedFor
    <3>2. DOMAIN work' = DOMAIN work \cup {Len(work) + 1}
      BY <1>3, <1>6
    <3> QED
      BY <2>3, <3>1, <3>2, <1>5, <1>6 DEF QueuedFor
  <2> QED
    BY <2>1, <2>2, <2>3
<1>9. ASSUME NEW p \in Paths
      PROVE  LastQueued(p)'
  <2>1. CASE p = target
    <3>1. ASSUME NEW i \in QueuedFor(p)', \A j \in QueuedFor(p)' : j <= i
          PROVE  work'[i].state = captured'[p]
      <4>1. i = Len(work) + 1
        BY <1>3, <1>8, <2>1, <3>1
      <4> QED
        BY <4>1, <1>5, <1>6, <1>7, <2>1
    <3> QED
      BY <3>1 DEF LastQueued
  <2>2. CASE p # target
    <3>1. \A i \in QueuedFor(p) : i \in DOMAIN work
      BY DEF QueuedFor
    <3>2. captured'[p] = captured[p] /\ LastQueued(p)
      BY <1>7, <2>2 DEF OrderInv
    <3> QED
      BY <3>1, <3>2, <1>6, <1>8, <2>2 DEF LastQueued
  <2> QED
    BY <2>1, <2>2
<1>10. ASSUME NEW p \in Paths
       PROVE  LastWritten(p)'
  <2>1. CASE p = target
    BY <1>8, <2>1 DEF LastWritten
  <2>2. CASE p # target
    BY <1>1, <1>4, <1>7, <1>8, <2>2 DEF OrderInv, LastWritten
  <2> QED
    BY <2>1, <2>2
<1>11. ASSUME NEW p \in Paths, ~Pending(p)'
       PROVE  disk'[p] = captured'[p]
  <2>1. QueuedFor(p)' = {} /\ \A t \in WORKERS : ~(Writing(t)' /\ current'[t].path = p)
    BY <1>11 DEF Pending, QueuedFor, Writing
  <2>2. p # target
    BY <1>8, <2>1
  <2>3. ~Pending(p)
    BY <1>1, <1>4, <1>8, <2>1, <2>2, PendingSaves
  <2> QED
    BY <1>1, <1>7, <2>2, <2>3 DEF OrderInv, LatestOnDisk
<1> QED
  BY <1>9, <1>10, <1>11 DEF OrderInv, LatestOnDisk

(* The only worker takes work: a save that was the last one in the queue   *)
(* for its file is then the one being written.                             *)
LEMMA TakeWorkOrder ==
  ASSUME TypeOK, OrderInv, NEW t, WORKERS = {t}, ~Writing(t), step[t] = "lock",
         TakeWork(t), UNCHANGED <<step, disk, captured>>
  PROVE  OrderInv'
<1>1. PICK h : h = work[1]
  OBVIOUS
<1>2. /\ Len(work) \in Nat \ {0} /\ DOMAIN work = 1 .. Len(work)
      /\ DOMAIN work' = 1 .. Len(work) - 1
      /\ \A i \in 1 .. Len(work) - 1 : work'[i] = work[i + 1]
      /\ Head(work) = h
  <2>1. work \in Seq(WORK \cup {Dismissal}) /\ work # <<>> /\ work' = Tail(work)
    BY DEF TypeOK, WQTypeOK, TakeWork
  <2> QED
    BY <1>1, <2>1, HeadTail
<1>3. thread'[t] = "busy" /\ current'[t] = h /\ step'[t] = "lock"
  BY <1>2 DEF TakeWork, TypeOK, WQTypeOK
<1>4. Writing(t)' <=> h.func = "save"
  BY <1>3 DEF Writing
<1>5. ASSUME NEW p
      PROVE  /\ \A i \in QueuedFor(p)' : i \in Nat \ {0} /\ i + 1 \in QueuedFor(p)
             /\ \A j \in QueuedFor(p) : j \in Nat \ {0} /\ (j = 1 \/ j - 1 \in QueuedFor(p)')
  <2>1. QueuedFor(p)' = {i \in DOMAIN work' : work'[i].func = "save" /\ work'[i].path = p}
    BY DEF QueuedFor
  <2>2. \A i \in QueuedFor(p)' : i \in Nat \ {0} /\ i + 1 \in QueuedFor(p)
    BY <1>2, <2>1 DEF QueuedFor
  <2>3. ASSUME NEW j \in QueuedFor(p), j # 1
        PROVE  j - 1 \in QueuedFor(p)'
    <3>1. j \in 1 .. Len(work) /\ work[j].func = "save" /\ work[j].path = p
      BY <1>2 DEF QueuedFor
    <3>2. j - 1 \in 1 .. Len(work) - 1
      BY <1>2, <2>3, <3>1
    <3>3. work'[j - 1] = work[j]
      <4>1. work'[j - 1] = work[(j - 1) + 1]
        BY <1>2, <3>2
      <4>2. (j - 1) + 1 = j
        BY <3>1
      <4> QED
        BY <4>1, <4>2
    <3> QED
      BY <1>2, <2>1, <3>1, <3>2, <3>3
  <2>4. \A j \in QueuedFor(p) : j \in Nat \ {0}
    BY <1>2 DEF QueuedFor
  <2> QED
    BY <2>2, <2>3, <2>4
<1>6. \A p : 1 \in QueuedFor(p) <=> h.func = "save" /\ h.path = p
  BY <1>1, <1>2 DEF QueuedFor
<1>7. ASSUME NEW p \in Paths
      PROVE  LastQueued(p)'
  <2>1. SUFFICES ASSUME NEW i \in QueuedFor(p)', \A j \in QueuedFor(p)' : j <= i
                 PROVE  work'[i].state = captured[p]
    BY DEF LastQueued
  <2>2. i \in Nat \ {0} /\ i + 1 \in QueuedFor(p)
    BY <1>5
  <2>3. ASSUME NEW j \in QueuedFor(p)
        PROVE  j <= i + 1
    <3>1. j \in Nat \ {0} /\ (j = 1 \/ j - 1 \in QueuedFor(p)')
      BY <1>5
    <3>2. CASE j = 1
      BY <2>2, <3>2
    <3>3. CASE j - 1 \in QueuedFor(p)'
      <4>1. j - 1 <= i
        BY <2>1, <3>3
      <4> QED
        BY <2>2, <3>1, <4>1
    <3> QED
      BY <3>1, <3>2, <3>3
  <2>4. work[i + 1].state = captured[p]
    BY <2>2, <2>3 DEF OrderInv, LastQueued
  <2>5. i \in 1 .. Len(work) - 1
    BY <1>2 DEF QueuedFor
  <2> QED
    BY <1>2, <2>4, <2>5
<1>8. ASSUME NEW p \in Paths
      PROVE  LastWritten(p)'
  <2>1. SUFFICES ASSUME Writing(t)', h.path = p, QueuedFor(p)' = {}
                 PROVE  h.state = captured[p]
    BY <1>3 DEF LastWritten
  <2>2. 1 \in QueuedFor(p)
    BY <1>4, <1>6, <2>1
  <2>3. \A j \in QueuedFor(p) : j <= 1
    BY <1>5, <2>1
  <2> QED
    BY <1>1, <2>2, <2>3 DEF OrderInv, LastQueued
<1>9. ASSUME NEW p \in Paths, ~Pending(p)'
      PROVE  disk'[p] = captured'[p]
  <2>1. QueuedFor(p)' = {} /\ ~(Writing(t)' /\ h.path = p)
    BY <1>3, <1>9 DEF Pending, QueuedFor, Writing
  <2>2. QueuedFor(p) = {}
    BY <1>4, <1>5, <1>6, <2>1
  <2>3. ~Pending(p)
    BY <2>2, PendingSaves
  <2> QED
    BY <2>3 DEF OrderInv, LatestOnDisk
<1> QED
  BY <1>7, <1>8, <1>9 DEF OrderInv, LatestOnDisk

(* The only worker writes: the file then holds what was captured last,     *)
(* unless another save for it is queued.                                   *)
LEMMA WriteOrder ==
  ASSUME TypeOK, OrderInv, NEW t, WORKERS = {t}, FAILURES = {}, Write(t)
  PROVE  OrderInv'
<1>1. PICK q, s : q = current[t].path /\ s = current[t].state
  OBVIOUS
<1>2. /\ Writing(t) /\ step' = [step EXCEPT ![t] = "return"]
      /\ disk' = [disk EXCEPT ![q] = s]
      /\ UNCHANGED <<work, thread, current, captured>>
  BY <1>1 DEF Write, Saving, Writing, wqvars, savevars
<1>3. disk \in [Paths -> 0 .. MAX_SAVES] /\ step'[t] = "return"
  BY <1>2 DEF TypeOK
<1>4. ~Writing(t)' /\ \A p : QueuedFor(p)' = QueuedFor(p)
  BY <1>2, <1>3 DEF Writing, QueuedFor
<1>5. \A p \in Paths : LastQueued(p)' /\ LastWritten(p)'
  BY <1>2, <1>4 DEF OrderInv, LastQueued, LastWritten
<1>6. ASSUME NEW p \in Paths, ~Pending(p)'
      PROVE  disk'[p] = captured'[p]
  <2>1. QueuedFor(p) = {}
    BY <1>4, <1>6 DEF Pending, QueuedFor
  <2>2. CASE p = q
    <3>1. s = captured[p]
      BY <1>1, <1>2, <2>1, <2>2 DEF OrderInv, LastWritten
    <3> QED
      BY <1>2, <1>3, <2>2, <3>1
  <2>3. CASE p # q
    <3>1. ~Pending(p)
      BY <1>1, <2>1, <2>3, PendingSaves
    <3> QED
      BY <1>2, <1>3, <2>3, <3>1 DEF OrderInv, LatestOnDisk
  <2> QED
    BY <2>2, <2>3
<1> QED
  BY <1>5, <1>6 DEF OrderInv, LatestOnDisk

(* What the only worker does.                                              *)
LEMMA WorkerOrder ==
  ASSUME IInv, OrderInv, NEW t, WORKERS = {t}, FAILURES = {},
         Worker(t) \/ QueueStep(WakeUnasked(t))
  PROVE  OrderInv'
<1>1. TypeOK /\ LockInv /\ WQTypeOK
  BY DEF IInv, TypeOK
<1>2. /\ thread \in [WORKERS -> {"look", "waiting", "signalled", "busy", "ended"}]
      /\ step \in [WORKERS -> {"lock", "open", "write", "return"}]
  BY <1>1 DEF TypeOK, WQTypeOK
<1>3. CASE QueueStep(GetWork(t))
  <2>1. thread[t] = "look" /\ UNCHANGED <<step, disk, captured>>
    BY <1>3 DEF QueueStep, GetWork, filevars, savevars
  <2>2. ~Writing(t) /\ step[t] = "lock"
    BY <1>1, <2>1 DEF Writing, LockInv
  <2>3. CASE TakeWork(t)
    BY <1>1, <2>1, <2>2, <2>3, TakeWorkOrder
  <2>4. CASE AwaitWork(t)
    <3>1. work' = work /\ ~Writing(t)'
      BY <1>2, <2>4 DEF AwaitWork, Writing
    <3> QED
      BY <2>1, <2>2, <3>1, OrderFrame
  <2> QED
    BY <1>3, <2>3, <2>4 DEF QueueStep, GetWork
<1>4. CASE QueueStep(Wake(t)) \/ QueueStep(WakeUnasked(t))
  <2>1. /\ UNCHANGED <<work, current, disk, captured>>
        /\ thread[t] # "busy" /\ thread'[t] = "look"
    BY <1>2, <1>4 DEF QueueStep, Wake, WakeUnasked, filevars, savevars
  <2>2. ~Writing(t) /\ ~Writing(t)'
    BY <2>1 DEF Writing
  <2> QED
    BY <2>1, <2>2, OrderFrame
<1>5. CASE WriteLock(t) \/ WriteOpen(t)
  <2>1. /\ UNCHANGED <<work, thread, current, disk, captured>>
        /\ step[t] # "return" /\ step'[t] # "return"
    BY <1>2, <1>5 DEF WriteLock, WriteOpen, Saving, wqvars, savevars
  <2>2. Writing(t)' <=> Writing(t)
    BY <2>1 DEF Writing
  <2> QED
    BY <2>1, <2>2, OrderFrame
<1>6. CASE Write(t)
  BY <1>1, <1>6, WriteOrder
<1>7. CASE WriteReturn(t)
  <2>1. /\ UNCHANGED <<work, current, disk, captured>>
        /\ ~Writing(t) /\ thread'[t] # "busy"
    BY <1>2, <1>7 DEF WriteReturn, Return, Writing, savevars
  <2>2. ~Writing(t)'
    BY <2>1 DEF Writing
  <2> QED
    BY <2>1, <2>2, OrderFrame
<1> QED
  BY <1>3, <1>4, <1>5, <1>6, <1>7 DEF Worker

(* A dismissal is no save.                                                 *)
LEMMA ShutdownOrder ==
  ASSUME TypeOK, OrderInv, Shutdown
  PROVE  OrderInv'
<1>1. /\ work' = Append(work, Dismissal) /\ current' = current /\ Signal
      /\ UNCHANGED <<step, disk, captured>>
  BY DEF Shutdown, QueueStep, Dismiss, Enqueue, filevars, savevars
<1>2. /\ work \in Seq(WORK \cup {Dismissal}) /\ Len(work) \in Nat
      /\ DOMAIN work = 1 .. Len(work)
  BY LenProperties DEF TypeOK, WQTypeOK
<1>3. /\ DOMAIN work' = 1 .. Len(work) + 1
      /\ \A i \in DOMAIN work : work'[i] = work[i]
      /\ work'[Len(work) + 1] = Dismissal
  BY <1>1, <1>2
<1>4. Dismissal.func # "save"
  BY DEF Dismissal
<1>5. ASSUME NEW p
      PROVE  QueuedFor(p)' = QueuedFor(p)
  <2>1. QueuedFor(p)' = {i \in DOMAIN work' : work'[i].func = "save" /\ work'[i].path = p}
    BY DEF QueuedFor
  <2>2. DOMAIN work' = DOMAIN work \cup {Len(work) + 1}
    BY <1>2, <1>3
  <2> QED
    BY <1>3, <1>4, <2>1, <2>2 DEF QueuedFor
<1>6. \A t \in WORKERS : Writing(t)' <=> Writing(t)
  BY <1>1, SignalBusy DEF TypeOK, Writing
<1>7. \A p : \A i \in QueuedFor(p) : work'[i] = work[i]
  BY <1>3 DEF QueuedFor
<1>8. \A p \in Paths : LastQueued(p)'
  BY <1>1, <1>5, <1>7 DEF OrderInv, LastQueued
<1>9. \A p \in Paths : LastWritten(p)'
  BY <1>1, <1>5, <1>6 DEF OrderInv, LastWritten
<1>10. ASSUME NEW p \in Paths, ~Pending(p)'
       PROVE  disk'[p] = captured'[p]
  <2>1. QueuedFor(p)' = {} /\ \A t \in WORKERS : ~(Writing(t)' /\ current'[t].path = p)
    BY <1>10 DEF Pending, QueuedFor, Writing
  <2>2. ~Pending(p)
    BY <1>1, <1>5, <1>6, <2>1, PendingSaves
  <2> QED
    BY <1>1, <2>2 DEF OrderInv, LatestOnDisk
<1> QED
  BY <1>8, <1>9, <1>10 DEF OrderInv, LatestOnDisk

(* Everything else leaves the queue, the worker and the files alone.       *)
LEMMA NextOrder ==
  ASSUME OneSureWorker, IInv, OrderInv, [Next]_vars
  PROVE  OrderInv'
<1>1. PICK w : WORKERS = {w} /\ FAILURES = {}
  BY DEF OneSureWorker
<1>2. ASSUME UNCHANGED <<work, thread, current, step, disk, captured>>
      PROVE  OrderInv'
  <2>1. \A t \in WORKERS : Writing(t)' <=> Writing(t)
    BY <1>2 DEF Writing
  <2> QED
    BY <1>2, <2>1, OrderFrame
<1>3. ASSUME NEW j \in {"save", "load"}, NEW name \in FILES \cup {Null}, Request(j, name)
      PROVE  OrderInv'
  BY <1>2, <1>3 DEF Request, wqvars, filevars, savevars
<1>4. CASE \/ RequestJob \/ RequestName \/ Stop \/ \E s \in Slots : SelectSlot(s)
           \/ UNCHANGED vars
  <2>1. UNCHANGED <<work, thread, current, step, disk, captured>>
    BY <1>4 DEF RequestJob, RequestName, Stop, SelectSlot, vars, wqvars, filevars, savevars
  <2> QED
    BY <1>2, <2>1
<1>5. CASE Emulation
  <2>1. CASE LoadBegin \/ LoadLock \/ LoadRead \/ ClearJob
    <3>1. UNCHANGED <<work, thread, current, step, disk, captured>>
      BY <2>1 DEF LoadBegin, LoadLock, LoadRead, ClearJob, wqvars, filevars, savevars
    <3> QED
      BY <1>2, <3>1
  <2>2. CASE SaveState
    BY <2>2, SaveStateOrder DEF IInv
  <2> QED
    BY <1>5, <2>1, <2>2 DEF Emulation
<1>6. ASSUME NEW t \in WORKERS, Worker(t) \/ QueueStep(WakeUnasked(t))
      PROVE  OrderInv'
  <2>1. WORKERS = {t}
    BY <1>1
  <2> QED
    BY <1>1, <1>6, <2>1, WorkerOrder
<1>7. CASE Shutdown
  BY <1>7, ShutdownOrder DEF IInv
<1> QED
  BY <1>3, <1>4, <1>5, <1>6, <1>7 DEF Next

LEMMA InitOrder == Init => OrderInv
<1> SUFFICES ASSUME Init PROVE OrderInv
  OBVIOUS
<1>1. /\ work = <<>> /\ \A t \in WORKERS : thread[t] = "look"
      /\ disk = [p \in Paths |-> 0] /\ captured = [p \in Paths |-> 0]
  BY DEF Init, WQInit
<1>2. \A p : QueuedFor(p) = {}
  BY <1>1 DEF QueuedFor
<1>3. \A t \in WORKERS : ~Writing(t)
  BY <1>1 DEF Writing
<1> QED
  BY <1>1, <1>2, <1>3 DEF OrderInv, LastQueued, LastWritten, LatestOnDisk

(* With one worker, as in the program (WORKQUEUE_THREADS), and while files *)
(* can be opened and written, a file for which no save is queued or being  *)
(* written holds the state captured for it last: the saves of a file are   *)
(* written in the order they were asked for, and none is lost, whatever    *)
(* the front end asks and however the worker is woken.                     *)
THEOREM LatestSaveOnDisk == OneSureWorker => (Spec => []LatestOnDisk)
<1> SUFFICES ASSUME OneSureWorker
             PROVE  Spec => []LatestOnDisk
  OBVIOUS
<1>1. IInv /\ OrderInv /\ [Next]_vars => OrderInv'
  BY NextOrder
<1>2. OrderInv => LatestOnDisk
  BY DEF OrderInv
<1> QED
  BY IInvariance, InitOrder, <1>1, <1>2, PTL DEF Spec

-----------------------------------------------------------------------------
(* One worker, and no failure: Savestates implements SaveOrder.            *)

(* The states in the queue go up, and the one being written is below them. *)
QueuedSaves == {i \in DOMAIN work : work[i].func = "save"}
QueueOrder ==
  /\ \A i \in QueuedSaves :
       /\ work[i].state \in 1 .. captures
       /\ \A j \in QueuedSaves : j < i => work[j].state < work[i].state
       /\ \A t \in WORKERS : Writing(t) => current[t].state < work[i].state
  /\ \A t \in WORKERS : Writing(t) => current[t].state \in 1 .. captures

(* Work and what the worker has taken last are records.                    *)
LEMMA WorkRecords ==
  ASSUME NEW w \in WORK \cup {Dismissal}, w.func = "save"
  PROVE  /\ w.path \in Paths /\ w.state \in Nat
         /\ \A p, s : w = [func |-> "save", path |-> p, state |-> s]
                        <=> w.path = p /\ w.state = s
<1>1. w # Dismissal
  BY DEF Dismissal
<1>2. w \in [func : {"save"}, path : Paths, state : 1 .. MAX_SAVES]
  BY <1>1, Threads
<1> QED
  BY <1>2

(* A state is unwritten if it is queued or being written.                  *)
LEMMA UnwrittenSaves ==
  ASSUME TypeOK, NEW p, NEW s
  PROVE  Unwritten(p, s)
           <=> \/ \E i \in QueuedFor(p) : work[i].state = s
               \/ \E t \in WORKERS : Writing(t) /\ current[t].path = p /\ current[t].state = s
<1> DEFINE w == [func |-> "save", path |-> p, state |-> s]
<1>1. work \in Seq(WORK \cup {Dismissal}) /\ current \in [WORKERS -> WORK \cup {Dismissal}]
  BY DEF TypeOK, WQTypeOK
<1>2. ASSUME NEW i \in DOMAIN work
      PROVE  work[i] = w <=> work[i].func = "save" /\ work[i].path = p /\ work[i].state = s
  <2>1. work[i] \in WORK \cup {Dismissal}
    BY <1>1
  <2>2. CASE work[i].func = "save"
    BY <2>1, <2>2, WorkRecords
  <2>3. CASE work[i].func # "save"
    BY <2>3
  <2> QED
    BY <2>2, <2>3
<1>3. ASSUME NEW t \in WORKERS
      PROVE  current[t] = w
               <=> current[t].func = "save" /\ current[t].path = p /\ current[t].state = s
  <2>1. current[t] \in WORK \cup {Dismissal}
    BY <1>1
  <2>2. CASE current[t].func = "save"
    BY <2>1, <2>2, WorkRecords
  <2>3. CASE current[t].func # "save"
    BY <2>3
  <2> QED
    BY <2>2, <2>3
<1>4. (\E i \in DOMAIN work : work[i] = w) <=> \E i \in QueuedFor(p) : work[i].state = s
  BY <1>2 DEF QueuedFor
<1>5. \A t \in WORKERS : (thread[t] = "busy" /\ step[t] # "return" /\ current[t] = w)
                           <=> Writing(t) /\ current[t].path = p /\ current[t].state = s
  BY <1>3 DEF Writing
<1> QED
  BY <1>4, <1>5 DEF Unwritten

(* The same of every file and state, and of the state after a step.        *)
Saved(p, s) == \/ \E i \in QueuedFor(p) : work[i].state = s
               \/ \E t \in WORKERS : Writing(t) /\ current[t].path = p /\ current[t].state = s
UnwrittenIsSaved == \A p, s : Unwritten(p, s) <=> Saved(p, s)
LEMMA UnwrittenNow == TypeOK => UnwrittenIsSaved
  BY UnwrittenSaves DEF UnwrittenIsSaved, Saved
LEMMA UnwrittenNext == TypeOK' => UnwrittenIsSaved'
  BY UnwrittenNow, PTL

(* A step that queues, takes and writes no save.                           *)
LEMMA QueueOrderFrame ==
  ASSUME TypeOK, TypeOK', QueueOrder, captures' = captures,
         QueuedSaves' = QueuedSaves, \A i \in QueuedSaves : work'[i] = work[i],
         \A t \in WORKERS : Writing(t)' <=> Writing(t),
         \A t \in WORKERS : Writing(t) => current'[t] = current[t]
  PROVE  QueueOrder' /\ Remaining' = Remaining
<1>1. QueueOrder'
  BY DEF QueueOrder
<1>2. \A p : \A i : i \in QueuedFor(p) <=> i \in QueuedSaves /\ work[i].path = p
  BY DEF QueuedFor, QueuedSaves
<1>3. \A p : \A i : i \in QueuedFor(p)' <=> i \in QueuedSaves' /\ work'[i].path = p
  BY DEF QueuedFor, QueuedSaves
<1>4. \A p : \A i : i \in QueuedFor(p)' <=> i \in QueuedFor(p) /\ work'[i] = work[i]
  BY <1>2, <1>3
<1>5. ASSUME NEW p, NEW s
      PROVE  Unwritten(p, s)' <=> Unwritten(p, s)
  <2>1. (\E j \in QueuedFor(p)' : work'[j].state = s) <=> \E j \in QueuedFor(p) : work[j].state = s
    BY <1>2, <1>4
  <2>2. \A t \in WORKERS : (Writing(t)' /\ current'[t].path = p /\ current'[t].state = s)
                             <=> Writing(t) /\ current[t].path = p /\ current[t].state = s
    OBVIOUS
  <2>3. (Unwritten(p, s) <=> Saved(p, s)) /\ (Unwritten(p, s)' <=> Saved(p, s)')
    BY UnwrittenNow, UnwrittenNext DEF UnwrittenIsSaved
  <2> QED
    BY <2>1, <2>2, <2>3 DEF Saved
<1>6. Remaining' = Remaining
  BY <1>5 DEF Remaining
<1> QED
  BY <1>1, <1>6

(* A save is captured with a higher number than all before it.             *)
LEMMA SaveStateCaptures ==
  ASSUME TypeOK, TypeOK', QueueOrder, SaveState
  PROVE  /\ QueueOrder' /\ captures' = captures + 1 /\ disk' = disk
         /\ \E p \in Paths : Remaining' = [Remaining EXCEPT ![p] = @ \cup {captures + 1}]
<1>0. PICK target : target = PathOf(fname, slot)
  OBVIOUS
<1> DEFINE state == captures + 1
           w == [func |-> "save", path |-> target, state |-> state]
<1>1. /\ work' = Append(work, w) /\ current' = current /\ Signal
      /\ captures' = captures + 1 /\ UNCHANGED <<step, disk>>
  BY <1>0 DEF SaveState, QueueWork, Enqueue, filevars
<1>2. target \in Paths /\ captures \in Nat
  <2>1. target \in Paths
    BY <1>0, PathOfType DEF TypeOK
  <2>2. captures \in 0 .. MAX_SAVES /\ MAX_SAVES \in Nat
    BY Threads, Zenon DEF TypeOK
  <2> QED
    BY <2>1, <2>2
<1>3. work \in Seq(WORK \cup {Dismissal}) /\ Len(work) \in Nat /\ DOMAIN work = 1 .. Len(work)
  BY LenProperties DEF TypeOK, WQTypeOK
<1>4. \A t \in WORKERS : Writing(t)' <=> Writing(t)
  BY <1>1, SignalBusy DEF TypeOK, Writing
<1>5. w.func = "save" /\ w.path = target /\ w.state = captures + 1
  OBVIOUS
<1> HIDE DEF w
<1>6. /\ DOMAIN work' = 1 .. Len(work) + 1
      /\ \A i \in DOMAIN work : work'[i] = work[i]
      /\ work'[Len(work) + 1] = w
  BY <1>1, <1>3
<1>7. \A i : i \in QueuedSaves' <=> i \in QueuedSaves \/ i = Len(work) + 1
  <2>1. \A i : i \in QueuedSaves' <=> i \in DOMAIN work' /\ work'[i].func = "save"
    BY DEF QueuedSaves
  <2>2. \A i : i \in DOMAIN work' <=> i \in DOMAIN work \/ i = Len(work) + 1
    BY <1>3, <1>6
  <2> QED
    BY <2>1, <2>2, <1>5, <1>6 DEF QueuedSaves
<1>8. \A i \in QueuedSaves : i \in Nat /\ i <= Len(work) /\ work'[i] = work[i]
  BY <1>3, <1>6 DEF QueuedSaves
<1>9. QueueOrder'
  <2>1. ASSUME NEW i \in QueuedSaves'
        PROVE  /\ work'[i].state \in 1 .. captures'
               /\ \A j \in QueuedSaves' : j < i => work'[j].state < work'[i].state
               /\ \A t \in WORKERS : Writing(t)' => current'[t].state < work'[i].state
    <3>1. CASE i = Len(work) + 1
      <4>1. work'[i].state = captures + 1
        BY <1>5, <1>6, <3>1
      <4>2. \A j \in QueuedSaves' : j < i => j \in QueuedSaves /\ work'[j] = work[j]
        BY <1>3, <1>7, <1>8, <3>1
      <4>3. \A j \in QueuedSaves : work[j].state \in 1 .. captures
        BY DEF QueueOrder
      <4>4. \A t \in WORKERS : Writing(t)' => current'[t].state \in 1 .. captures
        <5>1. \A t \in WORKERS : Writing(t) => current[t].state \in 1 .. captures
          BY DEF QueueOrder
        <5> QED
          BY <1>1, <1>4, <5>1
      <4>5. work'[i].state \in 1 .. captures'
        BY <1>1, <1>2, <4>1
      <4>6. \A j \in QueuedSaves' : j < i => work'[j].state < work'[i].state
        BY <1>2, <4>1, <4>2, <4>3
      <4>7. \A t \in WORKERS : Writing(t)' => current'[t].state < work'[i].state
        BY <1>2, <4>1, <4>4
      <4> QED
        BY <4>5, <4>6, <4>7
    <3>2. CASE i \in QueuedSaves
      <4>1. \A j \in QueuedSaves' : j < i => j \in QueuedSaves /\ work'[j] = work[j]
        BY <1>3, <1>7, <1>8, <3>2
      <4>2. work'[i] = work[i]
        BY <1>8, <3>2
      <4>3. work[i].state \in 1 .. captures /\ captures' = captures + 1
        BY <1>1, <3>2 DEF QueueOrder
      <4>4. \A j \in QueuedSaves' : j < i => work'[j].state < work'[i].state
        BY <3>2, <4>1, <4>2 DEF QueueOrder
      <4>5. \A t \in WORKERS : Writing(t)' => current'[t].state < work'[i].state
        BY <1>1, <1>4, <3>2, <4>2 DEF QueueOrder
      <4> QED
        BY <1>2, <4>2, <4>3, <4>4, <4>5
    <3> QED
      BY <1>7, <3>1, <3>2
  <2>2. \A t \in WORKERS : Writing(t)' => current'[t].state \in 1 .. captures'
    BY <1>1, <1>2, <1>4 DEF QueueOrder
  <2> QED
    BY <2>1, <2>2 DEF QueueOrder
<1>10. ASSUME NEW p, NEW s
       PROVE  Unwritten(p, s)' <=> Unwritten(p, s) \/ (p = target /\ s = captures + 1)
  <2>1. \A i : i \in QueuedFor(p)' <=> i \in QueuedSaves' /\ work'[i].path = p
    BY DEF QueuedFor, QueuedSaves
  <2>2. \A i : i \in QueuedFor(p) <=> i \in QueuedSaves /\ work[i].path = p
    BY DEF QueuedFor, QueuedSaves
  <2>3. (\E i \in QueuedFor(p)' : work'[i].state = s)
          <=> (\E i \in QueuedFor(p) : work[i].state = s) \/ (p = target /\ s = captures + 1)
    BY <1>5, <1>6, <1>7, <1>8, <2>1, <2>2
  <2>4. \A t \in WORKERS : (Writing(t)' /\ current'[t].path = p /\ current'[t].state = s)
                             <=> Writing(t) /\ current[t].path = p /\ current[t].state = s
    BY <1>1, <1>4
  <2>5. (Unwritten(p, s) <=> Saved(p, s)) /\ (Unwritten(p, s)' <=> Saved(p, s)')
    BY UnwrittenNow, UnwrittenNext DEF UnwrittenIsSaved
  <2> QED
    BY <2>3, <2>4, <2>5 DEF Saved
<1>11. Remaining' = [Remaining EXCEPT ![target] = @ \cup {captures + 1}]
  <2>1. Remaining' = [p \in Paths |-> {s \in 1 .. captures + 1 : Unwritten(p, s)'}]
    BY <1>1 DEF Remaining
  <2>2. ASSUME NEW p \in Paths, p # target
        PROVE  {s \in 1 .. captures + 1 : Unwritten(p, s)'} = {s \in 1 .. captures : Unwritten(p, s)}
    <3>1. ~Unwritten(p, captures + 1)
      <4>1. SUFFICES ~Saved(p, captures + 1)
        BY UnwrittenNow DEF UnwrittenIsSaved
      <4>2. \A j \in QueuedFor(p) : work[j].state # captures + 1
        BY <1>2 DEF QueueOrder, QueuedFor, QueuedSaves
      <4>3. \A t \in WORKERS : Writing(t) => current[t].state # captures + 1
        BY <1>2 DEF QueueOrder
      <4> QED
        BY <4>2, <4>3 DEF Saved
    <3>2. \A s \in 1 .. captures + 1 : s \in 1 .. captures \/ s = captures + 1
      BY <1>2
    <3>3. \A s \in 1 .. captures : s \in 1 .. captures + 1
      BY <1>2
    <3>4. \A s : Unwritten(p, s)' <=> Unwritten(p, s)
      BY <1>10, <2>2
    <3> QED
      BY <3>1, <3>2, <3>3, <3>4
  <2>3. {s \in 1 .. captures + 1 : Unwritten(target, s)'}
          = {s \in 1 .. captures : Unwritten(target, s)} \cup {captures + 1}
    <3>1. \A s : s \in 1 .. captures + 1 <=> s \in 1 .. captures \/ s = captures + 1
      BY <1>2
    <3>2. \A s : Unwritten(target, s)' <=> Unwritten(target, s) \/ s = captures + 1
      BY <1>10
    <3> QED
      BY <3>1, <3>2
  <2> QED
    BY <1>2, <2>1, <2>2, <2>3 DEF Remaining
<1> QED
  BY <1>1, <1>2, <1>9, <1>11

(* The only worker takes the oldest save of the queue.                     *)
LEMMA TakeWorkRemains ==
  ASSUME TypeOK, TypeOK', QueueOrder, NEW t, WORKERS = {t}, ~Writing(t), step[t] = "lock",
         TakeWork(t), UNCHANGED <<step, captures>>
  PROVE  QueueOrder' /\ Remaining' = Remaining
<1>1. PICK h : h = work[1]
  OBVIOUS
<1>2. /\ Len(work) \in Nat \ {0} /\ DOMAIN work = 1 .. Len(work)
      /\ DOMAIN work' = 1 .. Len(work) - 1
      /\ \A i \in 1 .. Len(work) - 1 : work'[i] = work[i + 1]
      /\ Head(work) = h
  <2>1. work \in Seq(WORK \cup {Dismissal}) /\ work # <<>> /\ work' = Tail(work)
    BY DEF TypeOK, WQTypeOK, TakeWork
  <2> QED
    BY <1>1, <2>1, HeadTail
<1>3. thread'[t] = "busy" /\ current'[t] = h /\ step'[t] = "lock"
  BY <1>2 DEF TakeWork, TypeOK, WQTypeOK
<1>4. Writing(t)' <=> h.func = "save"
  BY <1>3 DEF Writing
<1>5. /\ \A i \in QueuedSaves' : /\ i \in Nat \ {0} /\ i + 1 \in QueuedSaves
                                 /\ work'[i] = work[i + 1]
      /\ \A j \in QueuedSaves : /\ j \in Nat \ {0}
                                /\ j = 1 \/ (j - 1 \in QueuedSaves' /\ work'[j - 1] = work[j])
  <2>1. \A i : i \in QueuedSaves' <=> i \in DOMAIN work' /\ work'[i].func = "save"
    BY DEF QueuedSaves
  <2>2. ASSUME NEW i \in QueuedSaves'
        PROVE  i \in Nat \ {0} /\ i + 1 \in QueuedSaves /\ work'[i] = work[i + 1]
    BY <1>2, <2>1 DEF QueuedSaves
  <2>3. ASSUME NEW j \in QueuedSaves, j # 1
        PROVE  j - 1 \in QueuedSaves' /\ work'[j - 1] = work[j]
    <3>1. j \in 1 .. Len(work) /\ work[j].func = "save"
      BY <1>2 DEF QueuedSaves
    <3>2. j - 1 \in 1 .. Len(work) - 1
      BY <1>2, <2>3, <3>1
    <3>3. work'[j - 1] = work[(j - 1) + 1] /\ (j - 1) + 1 = j
      BY <1>2, <3>1, <3>2
    <3> QED
      BY <1>2, <2>1, <3>1, <3>2, <3>3
  <2>4. \A j \in QueuedSaves : j \in Nat \ {0}
    BY <1>2 DEF QueuedSaves
  <2> QED
    BY <2>2, <2>3, <2>4
<1>6. 1 \in QueuedSaves <=> h.func = "save"
  BY <1>1, <1>2 DEF QueuedSaves
<1>7. QueueOrder'
  <2>1. ASSUME NEW i \in QueuedSaves'
        PROVE  /\ work'[i].state \in 1 .. captures'
               /\ \A j \in QueuedSaves' : j < i => work'[j].state < work'[i].state
               /\ \A u \in WORKERS : Writing(u)' => current'[u].state < work'[i].state
    <3>1. i \in Nat \ {0} /\ i + 1 \in QueuedSaves /\ work'[i] = work[i + 1]
      BY <1>5
    <3>2. work'[i].state \in 1 .. captures'
      BY <3>1 DEF QueueOrder
    <3>3. ASSUME NEW j \in QueuedSaves', j < i
          PROVE  work'[j].state < work'[i].state
      <4>1. j \in Nat \ {0} /\ j + 1 \in QueuedSaves /\ work'[j] = work[j + 1]
        BY <1>5
      <4>2. j + 1 < i + 1
        BY <3>1, <3>3, <4>1
      <4> QED
        BY <3>1, <4>1, <4>2 DEF QueueOrder
    <3>4. ASSUME NEW u \in WORKERS, Writing(u)'
          PROVE  current'[u].state < work'[i].state
      <4>1. u = t
        OBVIOUS
      <4>2. 1 \in QueuedSaves
        BY <1>4, <1>6, <3>4, <4>1
      <4>3. 1 < i + 1
        BY <3>1
      <4>4. work[1].state < work[i + 1].state
        BY <3>1, <4>2, <4>3 DEF QueueOrder
      <4> QED
        BY <1>1, <1>3, <3>1, <4>1, <4>4
    <3> QED
      BY <3>2, <3>3, <3>4
  <2>2. ASSUME NEW u \in WORKERS, Writing(u)'
        PROVE  current'[u].state \in 1 .. captures'
    <3>1. u = t /\ 1 \in QueuedSaves
      BY <1>4, <1>6, <2>2
    <3>2. work[1].state \in 1 .. captures
      BY <3>1 DEF QueueOrder
    <3> QED
      BY <1>1, <1>3, <3>1, <3>2
  <2> QED
    BY <2>1, <2>2 DEF QueueOrder
<1>8. ASSUME NEW p, NEW s
      PROVE  Unwritten(p, s)' <=> Unwritten(p, s)
  <2>1. \A i : i \in QueuedFor(p)' <=> i \in QueuedSaves' /\ work'[i].path = p
    BY DEF QueuedFor, QueuedSaves
  <2>2. \A i : i \in QueuedFor(p) <=> i \in QueuedSaves /\ work[i].path = p
    BY DEF QueuedFor, QueuedSaves
  <2>3. Saved(p, s)' <=> (\E i \in QueuedFor(p)' : work'[i].state = s)
                           \/ (1 \in QueuedSaves /\ h.path = p /\ h.state = s)
    BY <1>3, <1>4, <1>6 DEF Saved
  <2>4. Saved(p, s) <=> \E i \in QueuedFor(p) : work[i].state = s
    BY DEF Saved
  <2>5. (\E i \in QueuedFor(p) : work[i].state = s)
          => (\E i \in QueuedFor(p)' : work'[i].state = s)
               \/ (1 \in QueuedSaves /\ h.path = p /\ h.state = s)
    BY <1>1, <1>5, <2>1, <2>2
  <2>6. (\E i \in QueuedFor(p)' : work'[i].state = s)
           \/ (1 \in QueuedSaves /\ h.path = p /\ h.state = s)
          => \E i \in QueuedFor(p) : work[i].state = s
    BY <1>1, <1>5, <2>1, <2>2
  <2>7. (Unwritten(p, s) <=> Saved(p, s)) /\ (Unwritten(p, s)' <=> Saved(p, s)')
    BY UnwrittenNow, UnwrittenNext DEF UnwrittenIsSaved
  <2> QED
    BY <2>3, <2>4, <2>5, <2>6, <2>7
<1>9. Remaining' = Remaining
  BY <1>8 DEF Remaining
<1> QED
  BY <1>7, <1>9

(* The only worker writes the oldest state of the file that is left.       *)
LEMMA WriteStores ==
  ASSUME TypeOK, TypeOK', QueueOrder, NEW t, WORKERS = {t}, FAILURES = {}, Write(t)
  PROVE  /\ QueueOrder' /\ captures' = captures
         /\ \E p \in Paths : \E s \in Remaining[p] :
              /\ \A other \in Remaining[p] : s <= other
              /\ disk' = [disk EXCEPT ![p] = s]
              /\ Remaining' = [Remaining EXCEPT ![p] = @ \ {s}]
<1>1. PICK q, s : q = current[t].path /\ s = current[t].state
  OBVIOUS
<1>2. /\ Writing(t) /\ step' = [step EXCEPT ![t] = "return"]
      /\ disk' = [disk EXCEPT ![q] = s]
      /\ UNCHANGED <<work, thread, current, captures>>
  BY <1>1 DEF Write, Saving, Writing, wqvars, savevars
<1>3. step'[t] = "return"
  BY <1>2 DEF TypeOK
<1>4. ~Writing(t)' /\ QueuedSaves' = QueuedSaves /\ \A p : QueuedFor(p)' = QueuedFor(p)
  BY <1>2, <1>3 DEF Writing, QueuedSaves, QueuedFor
<1>5. QueueOrder'
  BY <1>2, <1>4 DEF QueueOrder
<1>6. q \in Paths
  <2>1. current[t] \in WORK \cup {Dismissal}
    BY DEF TypeOK, WQTypeOK
  <2>2. current[t].func = "save"
    BY <1>2 DEF Writing
  <2> QED
    BY <1>1, <2>1, <2>2, WorkRecords
<1>7. s \in 1 .. captures
  BY <1>1, <1>2 DEF QueueOrder
<1>8. \A p : \A i \in QueuedFor(p) : i \in QueuedSaves
  BY DEF QueuedFor, QueuedSaves
<1>9. \A i \in QueuedSaves : work[i].state \in 1 .. captures /\ s < work[i].state
  BY <1>1, <1>2 DEF QueueOrder
<1>10. ASSUME NEW p, NEW o
       PROVE  /\ Unwritten(p, o) <=> Unwritten(p, o)' \/ (p = q /\ o = s)
              /\ Unwritten(p, o)' => o \in 1 .. captures /\ s < o
  <2>1. Saved(p, o) <=> (\E i \in QueuedFor(p) : work[i].state = o) \/ (p = q /\ o = s)
    BY <1>1, <1>2 DEF Saved
  <2>2. Saved(p, o)' <=> \E i \in QueuedFor(p) : work[i].state = o
    BY <1>2, <1>4 DEF Saved
  <2>3. (Unwritten(p, o) <=> Saved(p, o)) /\ (Unwritten(p, o)' <=> Saved(p, o)')
    BY UnwrittenNow, UnwrittenNext DEF UnwrittenIsSaved
  <2> QED
    BY <1>8, <1>9, <2>1, <2>2, <2>3
<1>11. s \in Remaining[q] /\ \A other \in Remaining[q] : s <= other
  BY <1>6, <1>7, <1>10 DEF Remaining
<1>12. Remaining' = [Remaining EXCEPT ![q] = @ \ {s}]
  <2>1. Remaining' = [p \in Paths |-> {o \in 1 .. captures : Unwritten(p, o)'}]
    BY <1>2 DEF Remaining
  <2>2. ASSUME NEW p \in Paths, p # q
        PROVE  {o \in 1 .. captures : Unwritten(p, o)'} = {o \in 1 .. captures : Unwritten(p, o)}
    BY <1>10, <2>2
  <2>3. {o \in 1 .. captures : Unwritten(q, o)'} = {o \in 1 .. captures : Unwritten(q, o)} \ {s}
    <3>1. ~Unwritten(q, s)'
      BY <1>7, <1>10
    <3>2. \A o : o # s => (Unwritten(q, o)' <=> Unwritten(q, o))
      BY <1>10
    <3> QED
      BY <3>1, <3>2
  <2> QED
    BY <1>6, <2>1, <2>2, <2>3 DEF Remaining
<1> QED
  BY <1>2, <1>5, <1>6, <1>11, <1>12

(* The other steps of the only worker.                                     *)
LEMMA WorkerRemains ==
  ASSUME IInv, TypeOK', QueueOrder, NEW t, WORKERS = {t}, FAILURES = {},
         \/ QueueStep(GetWork(t)) \/ QueueStep(Wake(t)) \/ QueueStep(WakeUnasked(t))
         \/ WriteLock(t) \/ WriteOpen(t) \/ WriteReturn(t)
  PROVE  /\ QueueOrder' /\ captures' = captures /\ disk' = disk
         /\ Remaining' = Remaining
<1>1. TypeOK /\ LockInv /\ captures' = captures /\ disk' = disk
  BY DEF IInv, QueueStep, WriteLock, WriteOpen, WriteReturn, filevars, savevars
<1>2. /\ thread \in [WORKERS -> {"look", "waiting", "signalled", "busy", "ended"}]
      /\ step \in [WORKERS -> {"lock", "open", "write", "return"}]
  BY <1>1 DEF TypeOK, WQTypeOK
<1>3. ASSUME work' = work, Writing(t)' <=> Writing(t), Writing(t) => current'[t] = current[t]
      PROVE  QueueOrder' /\ Remaining' = Remaining
  <2>1. QueuedSaves' = QueuedSaves
    BY <1>3 DEF QueuedSaves
  <2> QED
    BY <1>1, <1>3, <2>1, QueueOrderFrame
<1>4. CASE QueueStep(GetWork(t))
  <2>1. thread[t] = "look" /\ step' = step
    BY <1>4 DEF QueueStep, GetWork, filevars
  <2>2. ~Writing(t) /\ step[t] = "lock"
    BY <1>1, <2>1 DEF Writing, LockInv
  <2>3. CASE TakeWork(t)
    BY <1>1, <2>1, <2>2, <2>3, TakeWorkRemains
  <2>4. CASE AwaitWork(t)
    <3>1. work' = work /\ ~Writing(t)'
      BY <1>2, <2>4 DEF AwaitWork, Writing
    <3> QED
      BY <1>1, <1>3, <2>2, <3>1
  <2> QED
    BY <1>1, <1>4, <2>3, <2>4 DEF QueueStep, GetWork
<1>5. CASE QueueStep(Wake(t)) \/ QueueStep(WakeUnasked(t))
  <2>1. work' = work /\ thread[t] # "busy" /\ thread'[t] = "look"
    BY <1>2, <1>5 DEF QueueStep, Wake, WakeUnasked
  <2>2. ~Writing(t) /\ ~Writing(t)'
    BY <2>1 DEF Writing
  <2> QED
    BY <1>1, <1>3, <2>1, <2>2
<1>6. CASE WriteLock(t) \/ WriteOpen(t)
  <2>1. /\ UNCHANGED <<work, thread, current>>
        /\ step[t] # "return"
    BY <1>2, <1>6 DEF WriteLock, WriteOpen, Saving, wqvars
  <2>2. step'[t] # "return"
    BY <1>2, <1>6 DEF WriteLock, WriteOpen
  <2>3. Writing(t)' <=> Writing(t)
    BY <2>1, <2>2 DEF Writing
  <2> QED
    BY <1>1, <1>3, <2>1, <2>3
<1>7. CASE WriteReturn(t)
  <2>1. work' = work /\ ~Writing(t) /\ thread'[t] # "busy"
    BY <1>2, <1>7 DEF WriteReturn, Return, Writing
  <2>2. ~Writing(t)'
    BY <2>1 DEF Writing
  <2> QED
    BY <1>1, <1>3, <2>1, <2>2
<1> QED
  BY <1>1, <1>4, <1>5, <1>6, <1>7

(* Every step captures a state, stores one, or leaves both alone.          *)
LEMMA NextStores ==
  ASSUME OneSureWorker, IInv, TypeOK', QueueOrder, [Next]_vars
  PROVE  /\ QueueOrder'
         /\ \/ /\ captures' = captures + 1 /\ disk' = disk
               /\ \E p \in Paths : Remaining' = [Remaining EXCEPT ![p] = @ \cup {captures + 1}]
            \/ /\ captures' = captures
               /\ \E p \in Paths : \E s \in Remaining[p] :
                    /\ \A other \in Remaining[p] : s <= other
                    /\ disk' = [disk EXCEPT ![p] = s]
                    /\ Remaining' = [Remaining EXCEPT ![p] = @ \ {s}]
            \/ captures' = captures /\ disk' = disk /\ Remaining' = Remaining
<1>0. PICK w : WORKERS = {w} /\ FAILURES = {}
  BY DEF OneSureWorker
<1>1. TypeOK
  BY DEF IInv
<1>2. ASSUME captures' = captures, work' = work,
             UNCHANGED <<thread, current, step>>
      PROVE  QueueOrder' /\ Remaining' = Remaining
  <2>1. QueuedSaves' = QueuedSaves /\ \A t \in WORKERS : Writing(t)' <=> Writing(t)
    BY <1>2 DEF QueuedSaves, Writing
  <2> QED
    BY <1>1, <1>2, <2>1, QueueOrderFrame
<1>3. ASSUME NEW j \in {"save", "load"}, NEW name \in FILES \cup {Null}, Request(j, name)
      PROVE  QueueOrder' /\ captures' = captures /\ disk' = disk /\ Remaining' = Remaining
  BY <1>2, <1>3 DEF Request, wqvars, filevars, savevars
<1>4. CASE \/ RequestJob \/ RequestName \/ Stop \/ (\E s \in Slots : SelectSlot(s))
           \/ LoadBegin \/ LoadLock \/ LoadRead \/ ClearJob \/ UNCHANGED vars
  <2>1. UNCHANGED <<work, thread, current, step, disk, captures>>
    BY <1>4 DEF RequestJob, RequestName, Stop, SelectSlot, LoadBegin, LoadLock, LoadRead,
                ClearJob, vars, wqvars, filevars, savevars
  <2> QED
    BY <1>2, <2>1
<1>5. CASE SaveState
  BY <1>1, <1>5, SaveStateCaptures
<1>6. ASSUME NEW t \in WORKERS, Write(t)
      PROVE  /\ QueueOrder' /\ captures' = captures
             /\ \E p \in Paths : \E s \in Remaining[p] :
                  /\ \A other \in Remaining[p] : s <= other
                  /\ disk' = [disk EXCEPT ![p] = s]
                  /\ Remaining' = [Remaining EXCEPT ![p] = @ \ {s}]
  <2>1. WORKERS = {t}
    BY <1>0
  <2> QED
    BY <1>0, <1>1, <1>6, <2>1, WriteStores
<1>7. ASSUME NEW t \in WORKERS,
             \/ QueueStep(GetWork(t)) \/ QueueStep(Wake(t)) \/ QueueStep(WakeUnasked(t))
             \/ WriteLock(t) \/ WriteOpen(t) \/ WriteReturn(t)
      PROVE  QueueOrder' /\ captures' = captures /\ disk' = disk /\ Remaining' = Remaining
  <2>1. WORKERS = {t}
    BY <1>0
  <2> QED
    BY <1>0, <1>7, <2>1, WorkerRemains
<1>8. CASE Shutdown
  <2>1. /\ work' = Append(work, Dismissal) /\ current' = current /\ Signal
        /\ UNCHANGED <<step, disk, captures>>
    BY <1>8 DEF Shutdown, QueueStep, Dismiss, Enqueue, filevars, savevars
  <2>2. /\ work \in Seq(WORK \cup {Dismissal}) /\ Len(work) \in Nat
        /\ DOMAIN work = 1 .. Len(work)
    BY <1>1, LenProperties DEF TypeOK, WQTypeOK
  <2>3. /\ \A i : i \in DOMAIN work' <=> i \in DOMAIN work \/ i = Len(work) + 1
        /\ \A i \in DOMAIN work : work'[i] = work[i]
        /\ work'[Len(work) + 1] = Dismissal
    BY <2>1, <2>2
  <2>4. QueuedSaves' = QueuedSaves /\ \A i \in QueuedSaves : work'[i] = work[i]
    <3>1. \A i : i \in QueuedSaves' <=> i \in DOMAIN work' /\ work'[i].func = "save"
      BY DEF QueuedSaves
    <3>2. \A i : i \in QueuedSaves <=> i \in DOMAIN work /\ work[i].func = "save"
      BY DEF QueuedSaves
    <3>3. \A i : i \in QueuedSaves' <=> i \in QueuedSaves
      BY <2>3, <3>1, <3>2 DEF Dismissal
    <3>4. QueuedSaves' \subseteq QueuedSaves /\ QueuedSaves \subseteq QueuedSaves'
      BY <3>3
    <3>5. QueuedSaves' = QueuedSaves
      BY <3>4 DEF QueuedSaves
    <3> QED
      BY <2>3, <3>2, <3>5
  <2>5. \A t \in WORKERS : Writing(t)' <=> Writing(t)
    BY <1>1, <2>1, SignalBusy DEF TypeOK, Writing
  <2> QED
    BY <1>1, <2>1, <2>4, <2>5, QueueOrderFrame
<1> QED
  BY <1>3, <1>4, <1>5, <1>6, <1>7, <1>8 DEF Next, Emulation, Worker

(* At the start nothing is captured.                                       *)
LEMMA InitOrdered == Init => QueueOrder /\ Order!Init
<1> SUFFICES ASSUME Init PROVE QueueOrder /\ Order!Init
  OBVIOUS
<1>1. /\ work = <<>> /\ \A t \in WORKERS : thread[t] = "look"
      /\ disk = [p \in Paths |-> 0] /\ captures = 0
  BY DEF Init, WQInit
<1>2. QueuedSaves = {} /\ \A t \in WORKERS : ~Writing(t)
  BY <1>1 DEF QueuedSaves, Writing
<1>3. QueueOrder
  BY <1>2 DEF QueueOrder
<1>4. \A p \in Paths : {s \in 1 .. captures : Unwritten(p, s)} = {}
  BY <1>1
<1> QED
  BY <1>1, <1>3, <1>4 DEF Order!Init, Remaining

(* With one worker, as in the program, and while files can be opened and   *)
(* written, the two threads, their queue and lock are no more than         *)
(* SaveOrder: a file holds the captured states one after the other, none   *)
(* is skipped, repeated or overtaken by a later one, however many requests *)
(* the front end makes and wherever it shuts down.                         *)
THEOREM SavesInOrder == OneSureWorker => (Spec => WritesInOrder)
<1> SUFFICES ASSUME OneSureWorker
             PROVE  Spec => WritesInOrder
  OBVIOUS
<1>1. Init => QueueOrder /\ Order!Init
  BY InitOrdered
<1>2. IInv /\ TypeOK' /\ QueueOrder /\ [Next]_vars => QueueOrder' /\ [Order!Next]_(Order!vars)
  <2> SUFFICES ASSUME IInv, TypeOK', QueueOrder, [Next]_vars
               PROVE  QueueOrder' /\ [Order!Next]_(Order!vars)
    OBVIOUS
  <2>1. QueueOrder'
    BY NextStores
  <2>2. CASE /\ captures' = captures + 1 /\ disk' = disk
             /\ \E p \in Paths : Remaining' = [Remaining EXCEPT ![p] = @ \cup {captures + 1}]
    BY <2>1, <2>2 DEF Order!Next, Order!Capture
  <2>3. CASE /\ captures' = captures
             /\ \E p \in Paths : \E s \in Remaining[p] :
                  /\ \A other \in Remaining[p] : s <= other
                  /\ disk' = [disk EXCEPT ![p] = s]
                  /\ Remaining' = [Remaining EXCEPT ![p] = @ \ {s}]
    BY <2>1, <2>3 DEF Order!Next, Order!Store
  <2>4. CASE captures' = captures /\ disk' = disk /\ Remaining' = Remaining
    BY <2>1, <2>4 DEF Order!vars
  <2> QED
    BY <2>1, <2>2, <2>3, <2>4, NextStores
<1>3. IInv => TypeOK
  BY DEF IInv
<1> QED
  BY IInvariance, <1>1, <1>2, <1>3, PTL DEF Spec, WritesInOrder, Order!Spec

=============================================================================
