------------------------------ MODULE WorkQueue ------------------------------
(***************************************************************************)
(* The work queue of the core (main/workqueue.c): work is appended to a    *)
(* list under a lock; a thread without work puts itself on a second list   *)
(* and waits on its own condition variable; whoever queues work takes one  *)
(* thread off that list and signals it. workqueue_shutdown queues one      *)
(* "dismiss" work per thread and joins the threads.                        *)
(*                                                                         *)
(* The critical sections are the actions. The order of the list of waiting *)
(* threads is abstracted: any of them may be its first. SDL_CondWait may   *)
(* return without a signal.                                                *)
(***************************************************************************)
EXTENDS Naturals, Sequences, FiniteSets

CONSTANTS
  WORKERS,   (* the threads; WORKQUEUE_THREADS is 1 in the program         *)
  WORK       (* what the rest of the core may queue, records with a func   *)

ASSUME WorkersAssumption == IsFiniteSet(WORKERS)
ASSUME WorkAssumption == \A w \in WORK : w.func # "dismiss"

VARIABLES
  work,        (* work_queue                                               *)
  idle,        (* thread_queue, as a set                                   *)
  thread,      (* what each thread does: "look", "waiting", "signalled",   *)
               (* "busy" or "ended"                                        *)
  current,     (* the work each thread has taken last                      *)
  dismissals   (* work queued by workqueue_shutdown                        *)

wqvars == <<work, idle, thread, current, dismissals>>

Dismissal == [func |-> "dismiss"]

WQInit ==
  /\ work = <<>>
  /\ idle = {}
  /\ thread = [t \in WORKERS |-> "look"]
  /\ current = [t \in WORKERS |-> Dismissal]
  /\ dismissals = 0

(* queue_work. A thread that left SDL_CondWait by itself may still be on   *)
(* the list: the signal then goes to nobody.                               *)
Signal ==
  IF idle = {} THEN UNCHANGED <<idle, thread>>
  ELSE \E t \in idle :
         /\ idle' = idle \ {t}
         /\ thread' = [thread EXCEPT ![t] = IF @ = "waiting" THEN "signalled" ELSE @]

BadEnqueue(w) == work' = Append(work, w) /\ UNCHANGED <<idle, thread, current>>

Enqueue(w) ==
  /\ work' = Append(work, w)
  /\ Signal
  /\ UNCHANGED current

QueueWork(w) == Enqueue(w) /\ UNCHANGED dismissals

(* workqueue_get_work, one turn of its loop.                               *)
BadTakeWork(t) ==
  /\ work # <<>>
  /\ current' = [current EXCEPT ![t] = work[Len(work)]]
  /\ work' = SubSeq(work, 1, Len(work) - 1)
  /\ idle' = idle \ {t}
  /\ thread' = [thread EXCEPT ![t] = "busy"]

TakeWork(t) ==
  /\ work # <<>>
  /\ current' = [current EXCEPT ![t] = Head(work)]
  /\ work' = Tail(work)
  /\ idle' = idle \ {t}
  /\ thread' = [thread EXCEPT ![t] = "busy"]

AwaitWork(t) ==
  /\ work = <<>>
  /\ idle' = idle \cup {t}
  /\ thread' = [thread EXCEPT ![t] = "waiting"]
  /\ UNCHANGED <<work, current>>

GetWork(t) ==
  /\ thread[t] = "look"
  /\ TakeWork(t) \/ AwaitWork(t)
  /\ UNCHANGED dismissals

Wake(t) ==
  /\ thread[t] = "signalled"
  /\ thread' = [thread EXCEPT ![t] = "look"]
  /\ UNCHANGED <<work, idle, current, dismissals>>

WakeUnasked(t) ==
  /\ thread[t] = "waiting"
  /\ thread' = [thread EXCEPT ![t] = "look"]
  /\ UNCHANGED <<work, idle, current, dismissals>>

(* workqueue_thread_handler after work->func has returned.                 *)
BadReturn(t) ==
  /\ thread[t] = "busy"
  /\ thread' = [thread EXCEPT ![t] = IF work = <<>> THEN "ended" ELSE "look"]
  /\ UNCHANGED <<work, idle, current, dismissals>>

Return(t) ==
  /\ thread[t] = "busy"
  /\ thread' = [thread EXCEPT
       ![t] = IF current[t].func = "dismiss" THEN "ended" ELSE "look"]
  /\ UNCHANGED <<work, idle, current, dismissals>>

(* One turn of the first loop of workqueue_shutdown.                       *)
BadDismiss ==
  /\ dismissals < Cardinality(WORKERS)
  /\ dismissals' = dismissals + 1
  /\ work' = <<Dismissal>> \o work
  /\ Signal
  /\ UNCHANGED current

Dismiss ==
  /\ dismissals < Cardinality(WORKERS)
  /\ dismissals' = dismissals + 1
  /\ Enqueue(Dismissal)

(* SDL_WaitThread has returned for every thread.                           *)
Joined == \A t \in WORKERS : thread[t] = "ended"

WQNext ==
  \/ \E w \in WORK : QueueWork(w)
  \/ \E t \in WORKERS : GetWork(t) \/ Wake(t) \/ WakeUnasked(t) \/ Return(t)
  \/ Dismiss

(* Whoever queues work, and whenever: queue_work does not look whether the *)
(* queue is being shut down.                                               *)
WQSpec == WQInit /\ [][WQNext]_wqvars

-----------------------------------------------------------------------------
WQTypeOK ==
  /\ work \in Seq(WORK \cup {Dismissal})
  /\ idle \subseteq WORKERS
  /\ thread \in [WORKERS -> {"look", "waiting", "signalled", "busy", "ended"}]
  /\ current \in [WORKERS -> WORK \cup {Dismissal}]
  /\ dismissals \in 0 .. Cardinality(WORKERS)

(* Work does not wait for a thread that waits for work: as long as threads *)
(* are on the list, every queued work has a thread of its own on its way   *)
(* to it, whatever signals were sent to threads that had woken up already. *)
OnTheWay == {t \in WORKERS : thread[t] \in {"look", "signalled"}} \ idle
NoLostWakeup == idle # {} => Len(work) <= Cardinality(OnTheWay)

(* The warning of workqueue_shutdown, "Stopped workqueue with work still   *)
(* pending", is never given: when the threads have ended, all is done.     *)
NothingLeftBehind == WORKERS # {} /\ Joined => work = <<>>

=============================================================================
