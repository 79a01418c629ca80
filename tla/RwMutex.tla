------------------------------ MODULE RwMutex ------------------------------
(***************************************************************************)
(* The sleeping readers-writer mutex of OP-TEE core (mutex.c) with its     *)
(* wait queue (wait_queue.c) and its condition variables.  A thread that   *)
(* cannot get the mutex leaves a wait queue element behind and sleeps in   *)
(* the normal world, in an RPC, until another thread's RPC notifies it.    *)
(*                                                                         *)
(* One critical section of a spinlock is one step.  The normal world       *)
(* (the Linux driver's notification table) keeps one pending bit per       *)
(* thread id; it is modelled from notif_wait_timeout and notif_send_sync.  *)
(***************************************************************************)
EXTENDS Integers, Sequences, FiniteSets

CONSTANTS
    Threads,        \* OP-TEE threads, CFG_NUM_THREADS of them
    CondVars,       \* condition variables used with this mutex
    NoCv,           \* the NULL of wqe->cv
    NoThread,       \* handle = -1
    Modes,          \* which locks callers take: TRUE read, FALSE write
    WaitMayReturn,  \* threads whose wait RPC may return unnotified
    SendMayFail     \* the send RPC may fail

ASSUME MutexAssumption ==
    /\ IsFiniteSet(Threads)
    /\ NoCv \notin CondVars /\ NoThread \notin Threads
    /\ Modes \subseteq BOOLEAN
    /\ WaitMayReturn \subseteq Threads /\ SendMayFail \in BOOLEAN

VARIABLES
    state,      \* m->state: -1 write locked, 0 unlocked, > 0 readers
    wq,         \* m->wq: the threads whose elements are queued, in order
    wqe,        \* each thread's wait queue element
    pc,         \* where each thread is
    read,       \* whether the thread wants or holds a read lock
    wake_type,  \* wq_wake_next: wake_type_assigned and wake_read
    handle,     \* wq_wake_next: the element just marked
    after,      \* where wq_wake_next returns to
    notified    \* normal world: a notification is pending

vars == <<state, wq, wqe, pc, read, wake_type, handle, after, notified>>
waking == <<wake_type, handle, after>>

Queued == {wq[i] : i \in 1 .. Len(wq)}
Held(t) == pc[t] = "hold"
Readers == {t \in Threads : Held(t) /\ read[t]}
Writers == {t \in Threads : Held(t) /\ ~read[t]}

Element(r, c) == [done |-> FALSE, wait_read |-> r, cv |-> c]

(* Locals out of scope, the element on the stack included, hold this. *)
NoElement == Element(FALSE, NoCv)

Init ==
    /\ state = 0 /\ wq = << >>
    /\ wqe = [t \in Threads |-> NoElement]
    /\ pc = [t \in Threads |-> "idle"]
    /\ read = [t \in Threads |-> FALSE]
    /\ wake_type = [t \in Threads |-> "none"]
    /\ handle = [t \in Threads |-> NoThread]
    /\ after = [t \in Threads |-> "idle"]
    /\ notified = [t \in Threads |-> FALSE]

(* Mutant: a reader does not look for a writer. *)
CanLockBarge(r) == r \/ state = 0

CanLock(r) == IF r THEN state # -1 ELSE state = 0
Locked(r) == IF r THEN state + 1 ELSE -1

(* mutex_lock and mutex_read_lock are called. *)
LockCall(t, r) ==
    /\ pc[t] = "idle"
    /\ pc' = [pc EXCEPT ![t] = "lock"]
    /\ read' = [read EXCEPT ![t] = r]
    /\ UNCHANGED <<state, wq, wqe, waking, notified>>

(* mutex_trylock and mutex_read_trylock, when they succeed. *)
TryLock(t, r) ==
    /\ pc[t] = "idle" /\ CanLock(r)
    /\ state' = Locked(r)
    /\ pc' = [pc EXCEPT ![t] = "hold"]
    /\ read' = [read EXCEPT ![t] = r]
    /\ UNCHANGED <<wq, wqe, waking, notified>>

(* One turn of the loop of __mutex_lock and __mutex_read_lock. *)
LockTake(t) ==
    /\ pc[t] = "lock" /\ CanLock(read[t])
    /\ state' = Locked(read[t])
    /\ pc' = [pc EXCEPT ![t] = "hold"]
    /\ UNCHANGED <<wq, wqe, read, waking, notified>>

(* Mutant: SLIST_INSERT_HEAD instead of slist_add_tail. *)
LockQueueHead(t) ==
    /\ pc[t] = "lock" /\ ~CanLock(read[t])
    /\ wq' = <<t>> \o wq
    /\ wqe' = [wqe EXCEPT ![t] = Element(read[t], NoCv)]
    /\ pc' = [pc EXCEPT ![t] = "sleep"]
    /\ UNCHANGED <<state, read, waking, notified>>

LockQueue(t) ==
    /\ pc[t] = "lock" /\ ~CanLock(read[t])
    /\ wq' = Append(wq, t)
    /\ wqe' = [wqe EXCEPT ![t] = Element(read[t], NoCv)]
    /\ pc' = [pc EXCEPT ![t] = "sleep"]
    /\ UNCHANGED <<state, read, waking, notified>>

(* wq_wait_final: the wait RPC returns because of a notification ...       *)
Notified(t) ==
    /\ pc[t] = "sleep" /\ notified[t]
    /\ notified' = [notified EXCEPT ![t] = FALSE]
    /\ pc' = [pc EXCEPT ![t] = "remove"]
    /\ UNCHANGED <<state, wq, wqe, read, waking>>

(* ... or without one, its result being ignored. *)
WaitReturns(t) ==
    /\ t \in WaitMayReturn
    /\ pc[t] = "sleep"
    /\ pc' = [pc EXCEPT ![t] = "remove"]
    /\ UNCHANGED <<state, wq, wqe, read, waking, notified>>

(* Mutant: an element marked done is taken for already removed. *)
DequeueTimedOut(t) ==
    /\ pc[t] = "remove"
    /\ IF wqe[t].done THEN UNCHANGED wq
       ELSE \E i \in 1 .. Len(wq) :
              /\ wq[i] = t
              /\ wq' = SubSeq(wq, 1, i - 1) \o SubSeq(wq, i + 1, Len(wq))
    /\ wqe' = [wqe EXCEPT ![t] = NoElement]
    /\ pc' = [pc EXCEPT ![t] = "lock"]
    /\ UNCHANGED <<state, read, waking, notified>>

(* SLIST_REMOVE; the caller takes the mutex in the mode it had asked for. *)
Dequeue(t) ==
    /\ pc[t] = "remove"
    /\ \E i \in 1 .. Len(wq) :
         /\ wq[i] = t
         /\ wq' = SubSeq(wq, 1, i - 1) \o SubSeq(wq, i + 1, Len(wq))
    /\ wqe' = [wqe EXCEPT ![t] = NoElement]
    /\ pc' = [pc EXCEPT ![t] = "lock"]
    /\ UNCHANGED <<state, read, waking, notified>>

(* Enter wq_wake_next when the mutex was unlocked, otherwise carry on. *)
WakeIfFree(t, back) ==
    /\ pc' = [pc EXCEPT ![t] = IF state' = 0 THEN "wake" ELSE back]
    /\ after' = [after EXCEPT ![t] = IF state' = 0 THEN back ELSE "idle"]
    /\ UNCHANGED <<wake_type, handle>>

(* Mutants: write unlock counts down as a read unlock does; a read unlock  *)
(* lets every reader go; a read unlock wakes nobody.                       *)
UnlockCountsDown(t) ==
    /\ Held(t) /\ ~read[t]
    /\ state' = state - 1
    /\ WakeIfFree(t, "idle")
    /\ UNCHANGED <<wq, wqe, read, notified>>

ReadUnlockAll(t) ==
    /\ Held(t) /\ read[t]
    /\ state' = 0
    /\ WakeIfFree(t, "idle")
    /\ read' = [read EXCEPT ![t] = FALSE]
    /\ UNCHANGED <<wq, wqe, notified>>

ReadUnlockSilent(t) ==
    /\ Held(t) /\ read[t]
    /\ state' = state - 1
    /\ pc' = [pc EXCEPT ![t] = "idle"]
    /\ read' = [read EXCEPT ![t] = FALSE]
    /\ UNCHANGED <<wq, wqe, waking, notified>>

Unlock(t) ==
    /\ Held(t) /\ ~read[t]
    /\ state' = 0
    /\ WakeIfFree(t, "idle")
    /\ UNCHANGED <<wq, wqe, read, notified>>

ReadUnlock(t) ==
    /\ Held(t) /\ read[t]
    /\ state' = state - 1
    /\ WakeIfFree(t, "idle")
    /\ read' = [read EXCEPT ![t] = FALSE]
    /\ UNCHANGED <<wq, wqe, notified>>

(* Mutant: waiting on a condvar frees the mutex without wq_wake_next. *)
CondWaitSilent(t, c) ==
    /\ Held(t)
    /\ wq' = Append(wq, t)
    /\ wqe' = [wqe EXCEPT ![t] = Element(state > 0, c)]
    /\ state' = IF state > 1 THEN state - 1 ELSE 0
    /\ pc' = [pc EXCEPT ![t] = "sleep"]
    /\ UNCHANGED <<read, waking, notified>>

(* __condvar_wait_timeout: queue as a condvar waiter and let go. *)
CondWait(t, c) ==
    /\ Held(t)
    /\ wq' = Append(wq, t)
    /\ wqe' = [wqe EXCEPT ![t] = Element(state > 0, c)]
    /\ state' = IF state > 1 THEN state - 1 ELSE 0
    /\ WakeIfFree(t, "sleep")
    /\ UNCHANGED <<read, notified>>

(* wq_wake_next: which elements the loop of waker t considers. *)
Wakes(t, u) ==
    /\ wqe[u].cv = NoCv /\ ~wqe[u].done
    /\ wake_type[t] # "none" => (wqe[u].wait_read <=> wake_type[t] = "read")

WakeMark(t) ==
    /\ pc[t] = "wake"
    /\ \E i \in 1 .. Len(wq) :
         /\ Wakes(t, wq[i])
         /\ \A j \in 1 .. i - 1 : ~Wakes(t, wq[j])
         /\ wqe' = [wqe EXCEPT ![wq[i]].done = TRUE]
         /\ handle' = [handle EXCEPT ![t] = wq[i]]
         /\ wake_type' = [wake_type EXCEPT ![t] =
                            IF wqe[wq[i]].wait_read THEN "read" ELSE "write"]
    /\ pc' = [pc EXCEPT ![t] = "notify"]
    /\ UNCHANGED <<state, wq, read, after, notified>>

(* wq_wake_next returns. *)
WakeReturn(t) ==
    /\ pc' = [pc EXCEPT ![t] = after[t]]
    /\ after' = [after EXCEPT ![t] = "idle"]
    /\ wake_type' = [wake_type EXCEPT ![t] = "none"]

WakeNone(t) ==
    /\ pc[t] = "wake"
    /\ \A u \in Queued : ~Wakes(t, u)
    /\ WakeReturn(t)
    /\ UNCHANGED <<state, wq, wqe, read, handle, notified>>

(* Mutant: the notification is not sent. *)
WakeSendLost(t) ==
    /\ pc[t] = "notify"
    /\ handle' = [handle EXCEPT ![t] = NoThread]
    /\ IF wake_type[t] = "read"
       THEN pc' = [pc EXCEPT ![t] = "wake"] /\ UNCHANGED <<after, wake_type>>
       ELSE WakeReturn(t)
    /\ UNCHANGED <<state, wq, wqe, read, notified>>

(* do_notif; readers are woken until none is left. *)
WakeSend(t) ==
    /\ pc[t] = "notify"
    /\ \/ notified' = [notified EXCEPT ![handle[t]] = TRUE]
       \/ SendMayFail /\ UNCHANGED notified
    /\ handle' = [handle EXCEPT ![t] = NoThread]
    /\ IF wake_type[t] = "read"
       THEN pc' = [pc EXCEPT ![t] = "wake"] /\ UNCHANGED <<after, wake_type>>
       ELSE WakeReturn(t)
    /\ UNCHANGED <<state, wq, wqe, read>>

(* wq_promote_condvar: the elements that become active waiters. *)
Promoted(c, only_one) ==
    {wq[i] : i \in {k \in 1 .. Len(wq) :
                      /\ wqe[wq[k]].cv = c
                      /\ only_one => \A j \in 1 .. k - 1 : wqe[wq[j]].cv # c}}

(* condvar_signal and condvar_broadcast; every caller holds the mutex. *)
CondSignal(t, c, only_one) ==
    /\ Held(t)
    /\ Promoted(c, only_one) # {}
    /\ wqe' = [u \in Threads |->
                 IF u \in Promoted(c, only_one)
                 THEN [wqe[u] EXCEPT !.cv = NoCv] ELSE wqe[u]]
    /\ UNCHANGED <<state, wq, pc, read, waking, notified>>

(* What a thread does once it is inside the mutex code. *)
Step(t) ==
    \/ LockTake(t) \/ LockQueue(t) \/ Notified(t) \/ Dequeue(t)
    \/ WakeMark(t) \/ WakeNone(t) \/ WakeSend(t)

(* What its caller decides. *)
Call(t) ==
    \/ \E r \in Modes : LockCall(t, r) \/ TryLock(t, r)
    \/ Unlock(t) \/ ReadUnlock(t) \/ WaitReturns(t)
    \/ \E c \in CondVars :
         \/ CondWait(t, c)
         \/ \E only_one \in BOOLEAN : CondSignal(t, c, only_one)

Next == \E t \in Threads : Step(t) \/ Call(t)

Spec == Init /\ [][Next]_vars

(* Linux keeps calling threads back and every holder unlocks eventually. *)
FairSpec ==
    Spec /\ \A t \in Threads : WF_vars(Step(t)) /\ WF_vars(Unlock(t) \/ ReadUnlock(t))

----------------------------------------------------------------------------
(* Types of the mutex, its queue and every thread's locals. *)
TypeOK ==
    /\ state \in {-1} \cup Nat
    /\ wq \in Seq(Threads)
    /\ wqe \in [Threads -> [done : BOOLEAN, wait_read : BOOLEAN,
                             cv : CondVars \cup {NoCv}]]
    /\ pc \in [Threads -> {"idle", "lock", "sleep", "remove", "hold", "wake", "notify"}]
    /\ read \in [Threads -> BOOLEAN]
    /\ wake_type \in [Threads -> {"none", "read", "write"}]
    /\ handle \in [Threads -> Threads \cup {NoThread}]
    /\ after \in [Threads -> {"idle", "sleep"}]
    /\ notified \in [Threads -> BOOLEAN]

(* m->state tells exactly who is inside, across condition variable waits,  *)
(* barging lockers and try-locks: one writer, or a count of readers.  The  *)
(* panics of the unlock paths are therefore unreachable.                   *)
StateCountsHolders ==
    \/ /\ state = -1
       /\ Readers = {}
       /\ \E t \in Threads : Writers = {t}
    \/ /\ state = Cardinality(Readers)
       /\ Writers = {}

(* An element is queued once, exactly while its thread is between queueing *)
(* and SLIST_REMOVE: an element on a stack that was left is never in the   *)
(* list.                                                                   *)
InQueue(t) ==
    \/ pc[t] \in {"sleep", "remove"}
    \/ pc[t] \in {"wake", "notify"} /\ after[t] = "sleep"

QueueMatchesStacks ==
    /\ \A i, j \in 1 .. Len(wq) : wq[i] = wq[j] => i = j
    /\ \A t \in Threads : t \in Queued <=> InQueue(t)

(* A waiter that no one has woken yet. *)
Unserved(t) == t \in Queued /\ wqe[t].cv = NoCv /\ ~wqe[t].done

(* Somebody who will take the free mutex, or start a scan of the queue. *)
Responsible(t) ==
    \/ t \in Queued /\ wqe[t].done
    \/ pc[t] \in {"remove", "lock"}
    \/ pc[t] = "wake" /\ wake_type[t] = "none"

(* "to guarantee that we don't miss the wakeup from mutex_unlock()": while *)
(* the mutex is free and a waiter sleeps unwoken, some thread is on its    *)
(* way to the mutex or about to scan the queue.                            *)
NoLostWakeup ==
    state = 0 /\ (\E t \in Threads : Unserved(t)) => \E t \in Threads : Responsible(t)

(* Whoever was marked done has its notification: pending in the normal     *)
(* world or about to be sent; so a done waiter never sleeps on.            *)
DoneIsNotified ==
    \A t \in Threads :
        t \in Queued /\ wqe[t].done /\ pc[t] # "remove"
          => \/ notified[t]
             \/ \E u \in Threads : pc[u] = "notify" /\ handle[u] = t

(* Only an element promoted by a signal is marked: wq_wait_final reports   *)
(* success to a condvar waiter only if the condvar was signalled.          *)
DoneWasSignalled ==
    \A t \in Threads : t \in Queued /\ wqe[t].done => wqe[t].cv = NoCv

(* A free mutex does not stay free while waiters sleep. *)
FreeLockTaken ==
    (state = 0 /\ \E t \in Threads : Unserved(t))
      ~> (state # 0 \/ ~\E t \in Threads : Unserved(t))

(* If readers do not hold the mutex between them forever, every waiter is  *)
(* woken in the end, however the others barge in.                          *)
WaiterWoken ==
    []<>(state = 0) => \A t \in Threads : Unserved(t) ~> ~Unserved(t)

(* The mutex is a readers-writer lock: an unlock, or the wait on a         *)
(* condition variable, lets go at the instant m->state changes.            *)
Abstract == INSTANCE RwLock WITH writers <- Writers, readers <- Readers
RefinesRwLock == Abstract!Spec
=============================================================================
