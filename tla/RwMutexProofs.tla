--------------------------- MODULE RwMutexProofs ---------------------------
(***************************************************************************)
(* Proofs about RwMutex for every number of threads and condvars.          *)
(***************************************************************************)
EXTENDS RwMutex, FiniteSetTheorems, TLAPS

(* A scan of the queue starts without a wake type. *)
FreshScan ==
    \A t \in Threads : pc[t] \notin {"wake", "notify"} => wake_type[t] = "none"

(* The inductive invariant. *)
IInv == TypeOK /\ StateCountsHolders /\ QueueMatchesStacks
          /\ DoneWasSignalled /\ FreshScan /\ NoLostWakeup

----------------------------------------------------------------------------
(* The queue as a set: what appending and removing an element do to it.    *)

(* slist_add_tail adds its element to the queue. *)
LEMMA AppendQueued ==
  ASSUME NEW s \in Seq(Threads), NEW t \in Threads
  PROVE  LET a == Append(s, t) IN
         /\ a \in Seq(Threads)
         /\ {a[i] : i \in 1 .. Len(a)} = {s[i] : i \in 1 .. Len(s)} \cup {t}
         /\ /\ \A i, j \in 1 .. Len(s) : s[i] = s[j] => i = j
            /\ t \notin {s[i] : i \in 1 .. Len(s)}
            => \A i, j \in 1 .. Len(a) : a[i] = a[j] => i = j
<1> DEFINE a == Append(s, t)
<1>1. /\ a \in Seq(Threads) /\ Len(a) = Len(s) + 1
      /\ a[Len(s) + 1] = t /\ \A i \in 1 .. Len(s) : a[i] = s[i]
  OBVIOUS
<1> HIDE DEF a
<1>2. {a[i] : i \in 1 .. Len(a)} \subseteq {s[i] : i \in 1 .. Len(s)} \cup {t}
  BY <1>1
<1>3. \A i \in 1 .. Len(s) : s[i] \in {a[k] : k \in 1 .. Len(a)}
  BY <1>1
<1>4. t \in {a[i] : i \in 1 .. Len(a)}
  BY <1>1
<1>5. ASSUME \A i, j \in 1 .. Len(s) : s[i] = s[j] => i = j,
             t \notin {s[i] : i \in 1 .. Len(s)}
      PROVE  \A i, j \in 1 .. Len(a) : a[i] = a[j] => i = j
  BY <1>1, <1>5
<1> QED BY <1>1, <1>2, <1>3, <1>4, <1>5 DEF a

(* SLIST_REMOVE takes exactly its element out of the queue. *)
LEMMA RemoveQueued ==
  ASSUME NEW s \in Seq(Threads), NEW n \in 1 .. Len(s),
         \A i, j \in 1 .. Len(s) : s[i] = s[j] => i = j
  PROVE  LET r == SubSeq(s, 1, n - 1) \o SubSeq(s, n + 1, Len(s)) IN
         /\ r \in Seq(Threads)
         /\ {r[i] : i \in 1 .. Len(r)} = {s[i] : i \in 1 .. Len(s)} \ {s[n]}
         /\ \A i, j \in 1 .. Len(r) : r[i] = r[j] => i = j
<1> DEFINE p == SubSeq(s, 1, n - 1)
           q == SubSeq(s, n + 1, Len(s))
           r == p \o q
<1>a. /\ p \in Seq(Threads) /\ Len(p) = n - 1
      /\ \A i \in 1 .. n - 1 : p[i] = s[i]
  OBVIOUS
<1>b. /\ q \in Seq(Threads) /\ Len(q) = Len(s) - n
      /\ \A i \in 1 .. Len(s) - n : q[i] = s[i + n]
  OBVIOUS
<1>1. /\ r \in Seq(Threads) /\ Len(r) = Len(s) - 1
      /\ \A i \in 1 .. Len(r) : r[i] = IF i < n THEN s[i] ELSE s[i + 1]
  <2> HIDE DEF p, q
  <2>1. r \in Seq(Threads) /\ Len(r) = Len(s) - 1
    BY <1>a, <1>b
  <2>2. ASSUME NEW i \in 1 .. Len(r)
        PROVE  r[i] = IF i < n THEN s[i] ELSE s[i + 1]
    <3>1. CASE i < n BY <1>a, <1>b, <2>1, <3>1
    <3>2. CASE ~(i < n)
      <4>1. r[i] = q[i - (n - 1)] BY <1>a, <1>b, <2>1, <3>2
      <4>2. i - (n - 1) \in 1 .. Len(s) - n BY <2>1, <3>2
      <4>3. q[i - (n - 1)] = s[(i - (n - 1)) + n] BY <4>2, <1>b
      <4> QED BY <4>1, <4>3, <3>2
    <3> QED BY <3>1, <3>2
  <2> QED BY <2>1, <2>2
<1> HIDE DEF r
<1>2. \A i \in 1 .. Len(r) : r[i] \in {s[k] : k \in 1 .. Len(s)} \ {s[n]}
  <2> SUFFICES ASSUME NEW i \in 1 .. Len(r)
               PROVE  \E k \in 1 .. Len(s) : k # n /\ r[i] = s[k]
    OBVIOUS
  <2>1. CASE i < n BY <1>1, <2>1
  <2>2. CASE ~(i < n)
    <3>1. i + 1 \in 1 .. Len(s) /\ i + 1 # n /\ r[i] = s[i + 1]
      BY <1>1, <2>2
    <3> QED BY <3>1
  <2> QED BY <2>1, <2>2
<1>3. \A k \in 1 .. Len(s) : k # n => s[k] \in {r[i] : i \in 1 .. Len(r)}
  <2> SUFFICES ASSUME NEW k \in 1 .. Len(s), k # n
               PROVE  \E i \in 1 .. Len(r) : r[i] = s[k]
    OBVIOUS
  <2>1. CASE k < n BY <1>1, <2>1
  <2>2. CASE k > n
    <3>1. k - 1 \in 1 .. Len(r) /\ r[k - 1] = s[k]
      BY <1>1, <2>2
    <3> QED BY <3>1
  <2> QED BY <2>1, <2>2
<1>4. \A i, j \in 1 .. Len(r) : r[i] = r[j] => i = j
  BY <1>1
<1>5. {r[i] : i \in 1 .. Len(r)} = {s[i] : i \in 1 .. Len(s)} \ {s[n]}
  <2>1. {r[i] : i \in 1 .. Len(r)} \subseteq {s[i] : i \in 1 .. Len(s)} \ {s[n]}
    BY <1>2
  <2>2. ASSUME NEW k \in 1 .. Len(s), s[k] # s[n]
        PROVE  s[k] \in {r[i] : i \in 1 .. Len(r)}
    BY <1>3, <2>2
  <2>3. {s[i] : i \in 1 .. Len(s)} \ {s[n]} \subseteq {r[i] : i \in 1 .. Len(r)}
    BY <2>2
  <2> QED BY <2>1, <2>3, Zenon
<1> QED BY <1>1, <1>4, <1>5 DEF r

----------------------------------------------------------------------------
(* m->state and the set of holders. *)

(* The readers can be counted.                                              *)
LEMMA ReadersFinite == IsFiniteSet(Readers) /\ Cardinality(Readers) \in Nat
<1>1. Readers \subseteq Threads BY DEF Readers
<1> QED BY <1>1, FS_Subset, FS_CardinalityType, MutexAssumption

(* Whoever holds the mutex is counted, so it is not free. *)
LEMMA HeldNotFree ==
  ASSUME StateCountsHolders, NEW t \in Threads, Held(t)
  PROVE  /\ read[t] => /\ state \in Nat \ {0} /\ Writers = {}
                       /\ state = Cardinality(Readers)
         /\ ~read[t] => state = -1 /\ Readers = {} /\ Writers = {t}
<1>1. CASE read[t]
  <2>1. t \in Readers BY <1>1 DEF Readers
  <2>2. Cardinality(Readers) # 0
    BY <2>1, ReadersFinite, FS_EmptySet
  <2> QED BY <1>1, <2>1, <2>2, ReadersFinite DEF StateCountsHolders
<1>2. CASE ~read[t]
  <2>1. t \in Writers BY <1>2 DEF Writers
  <2> QED BY <1>2, <2>1 DEF StateCountsHolders
<1> QED BY <1>1, <1>2

(* A mutex whose state is 0 has no reader and no writer.                    *)
LEMMA FreeHasNoHolder ==
  ASSUME StateCountsHolders, state = 0
  PROVE  Readers = {} /\ Writers = {}
BY ReadersFinite, FS_EmptySet DEF StateCountsHolders

(* Taking the mutex: the tail of __mutex_lock, __mutex_read_lock and the   *)
(* try-locks.                                                              *)
LEMMA AcquireCounts ==
  ASSUME TypeOK, StateCountsHolders, NEW t \in Threads, NEW r \in BOOLEAN,
         ~Held(t), CanLock(r), state' = Locked(r),
         pc' = [pc EXCEPT ![t] = "hold"], read' = [read EXCEPT ![t] = r]
  PROVE  StateCountsHolders' /\ state' \in {-1} \cup Nat /\ state' # 0
<1>1. t \notin Readers BY DEF Readers
<1>2. CASE r
  <2>1. /\ state = Cardinality(Readers) /\ Writers = {}
        /\ state' = state + 1
    BY <1>2 DEF StateCountsHolders, CanLock, Locked
  <2>2. Readers' = Readers \cup {t} /\ Writers' = Writers
    BY <1>2 DEF Readers, Writers, Held, TypeOK
  <2>3. Cardinality(Readers \cup {t}) = Cardinality(Readers) + 1
    BY <1>1, ReadersFinite, FS_AddElement
  <2>4. state' = Cardinality(Readers') /\ Writers' = {}
    BY <2>1, <2>2, <2>3
  <2> QED BY <2>1, <2>4, ReadersFinite DEF StateCountsHolders
<1>3. CASE ~r
  <2>1. state = 0 /\ state' = -1 BY <1>3 DEF CanLock, Locked
  <2>2. Readers' = Readers /\ Writers' = Writers \cup {t}
    BY <1>3 DEF Readers, Writers, Held, TypeOK
  <2>3. Readers' = {} /\ Writers' = {t}
    BY <2>1, <2>2, FreeHasNoHolder
  <2> QED BY <2>1, <2>3 DEF StateCountsHolders
<1> QED BY <1>2, <1>3

(* Letting go of the mutex: the unlocks and the wait on a condvar. *)
LEMMA ReleaseCounts ==
  ASSUME TypeOK, StateCountsHolders, NEW t \in Threads, Held(t),
         state' = IF read[t] THEN state - 1 ELSE 0,
         NEW p, p # "hold", pc' = [pc EXCEPT ![t] = p],
         \A u \in Threads : u # t => read'[u] = read[u]
  PROVE  StateCountsHolders' /\ state' \in Nat
<1>1. Readers' = Readers \ {t} /\ Writers' = Writers \ {t}
  BY DEF Readers, Writers, Held, TypeOK
<1>2. CASE read[t]
  <2>1. t \in Readers BY <1>2 DEF Readers
  <2>2. Cardinality(Readers \ {t}) = Cardinality(Readers) - 1
    BY <2>1, ReadersFinite, FS_RemoveElement
  <2>3. state' = Cardinality(Readers') /\ Writers' = {}
    BY <1>1, <1>2, <2>2, HeldNotFree
  <2> QED BY <1>2, <2>3, HeldNotFree DEF StateCountsHolders
<1>3. CASE ~read[t]
  <2>1. Readers' = {} /\ Writers' = {} /\ state' = 0
    BY <1>1, <1>3, HeldNotFree
  <2>2. Cardinality(Readers') = 0 BY <2>1, FS_EmptySet
  <2> QED BY <2>1, <2>2 DEF StateCountsHolders
<1> QED BY <1>2, <1>3

(* Steps that move nobody in or out. *)
LEMMA FrameCounts ==
  ASSUME StateCountsHolders, state' = state,
         \A u \in Threads : Held(u)' = Held(u) /\ (Held(u) => read'[u] = read[u])
  PROVE  StateCountsHolders'
<1>1. Readers' = Readers /\ Writers' = Writers BY DEF Readers, Writers
<1>2. Cardinality(Readers') = Cardinality(Readers) BY <1>1
<1> QED BY <1>1, <1>2 DEF StateCountsHolders

----------------------------------------------------------------------------
(* Every step keeps the inductive invariant, conjunct by conjunct. *)

(* The invariant holds before the first lock.                               *)
LEMMA InitInvariant == Init => IInv
<1> SUFFICES ASSUME Init PROVE IInv OBVIOUS
<1>1. TypeOK
  BY MutexAssumption DEF Init, TypeOK, NoElement, Element
<1>2. StateCountsHolders
  <2>1. Readers = {} /\ Writers = {} BY DEF Init, Readers, Writers, Held
  <2> QED BY <2>1, FS_EmptySet DEF Init, StateCountsHolders
<1>3. Queued = {} BY DEF Init, Queued
<1>4. QueueMatchesStacks
  BY <1>3 DEF Init, QueueMatchesStacks, InQueue
<1>5. DoneWasSignalled /\ FreshScan /\ NoLostWakeup
  BY <1>3 DEF Init, DoneWasSignalled, FreshScan, NoLostWakeup, Unserved
<1> QED BY <1>1, <1>2, <1>4, <1>5 DEF IInv

(* The state after __condvar_wait_timeout is that after an unlock. *)
LEMMA CondWaitState ==
  ASSUME TypeOK, StateCountsHolders, NEW t \in Threads, Held(t)
  PROVE  /\ (IF state > 1 THEN state - 1 ELSE 0) = (IF read[t] THEN state - 1 ELSE 0)
         /\ state > 0 <=> read[t]
<1>1. CASE read[t] BY <1>1, HeldNotFree
<1>2. CASE ~read[t] BY <1>2, HeldNotFree
<1> QED BY <1>1, <1>2

(* m->state goes on counting the holders.                                   *)
LEMMA CountStep ==
  ASSUME IInv, NEW t \in Threads, Step(t) \/ Call(t)
  PROVE  StateCountsHolders' /\ state' \in {-1} \cup Nat
<1> USE DEF IInv
<1>0. /\ read \in [Threads -> BOOLEAN]
      /\ after[t] # "hold" /\ state \in {-1} \cup Nat
  BY DEF TypeOK
<1>1. CASE LockTake(t)
  <2>1. read[t] \in BOOLEAN /\ read' = [read EXCEPT ![t] = read[t]] /\ ~Held(t)
    BY <1>0, <1>1 DEF LockTake, Held
  <2> QED BY <1>0, <1>1, <2>1, AcquireCounts DEF LockTake
<1>2. ASSUME NEW r \in Modes, TryLock(t, r)
      PROVE  StateCountsHolders' /\ state' \in {-1} \cup Nat
  <2>1. r \in BOOLEAN /\ ~Held(t) BY <1>2, MutexAssumption DEF TryLock, Held
  <2> QED BY <1>0, <1>2, <2>1, AcquireCounts DEF TryLock
<1>3. CASE Unlock(t)
  <2>1. PICK p \in {"wake", "idle"} : pc' = [pc EXCEPT ![t] = p]
    BY <1>3 DEF Unlock, WakeIfFree
  <2>2. /\ Held(t) /\ state' = IF read[t] THEN state - 1 ELSE 0
        /\ \A u \in Threads : u # t => read'[u] = read[u]
    BY <1>3 DEF Unlock
  <2> QED BY <1>0, <2>1, <2>2, ReleaseCounts
<1>4. CASE ReadUnlock(t)
  <2>1. PICK p \in {"wake", "idle"} : pc' = [pc EXCEPT ![t] = p]
    BY <1>4 DEF ReadUnlock, WakeIfFree
  <2>2. /\ Held(t) /\ state' = IF read[t] THEN state - 1 ELSE 0
        /\ \A u \in Threads : u # t => read'[u] = read[u]
    BY <1>0, <1>4 DEF ReadUnlock
  <2> QED BY <1>0, <2>1, <2>2, ReleaseCounts
<1>5. ASSUME NEW c \in CondVars, CondWait(t, c)
      PROVE  StateCountsHolders' /\ state' \in {-1} \cup Nat
  <2>1. PICK p \in {"wake", "sleep"} : pc' = [pc EXCEPT ![t] = p]
    BY <1>5 DEF CondWait, WakeIfFree
  <2>2. /\ Held(t) /\ state' = IF read[t] THEN state - 1 ELSE 0
        /\ \A u \in Threads : u # t => read'[u] = read[u]
    BY <1>5, CondWaitState DEF CondWait
  <2> QED BY <1>0, <2>1, <2>2, ReleaseCounts
<1>6. ASSUME state' = state, \A u \in Threads : Held(u)' = Held(u),
             \A u \in Threads : Held(u) => read'[u] = read[u]
      PROVE  StateCountsHolders' /\ state' \in {-1} \cup Nat
  BY <1>0, <1>6, FrameCounts
<1>7. CASE \/ LockQueue(t) \/ Notified(t) \/ Dequeue(t) \/ WaitReturns(t)
           \/ \E r \in Modes : LockCall(t, r)
  BY <1>0, <1>6, <1>7
  DEF LockQueue, Notified, Dequeue, WaitReturns, LockCall, Held, TypeOK
<1>8. CASE WakeMark(t) \/ WakeNone(t) \/ WakeSend(t)
  BY <1>0, <1>6, <1>8 DEF WakeMark, WakeNone, WakeSend, WakeReturn, Held, TypeOK
<1>9. CASE \E c \in CondVars, only_one \in BOOLEAN : CondSignal(t, c, only_one)
  BY <1>6, <1>9 DEF CondSignal, Held
<1> QED BY <1>1, <1>2, <1>3, <1>4, <1>5, <1>7, <1>8, <1>9 DEF Step, Call

(* Dequeue on the queue seen as a set. *)
LEMMA DequeueQueued ==
  ASSUME IInv, NEW t \in Threads, Dequeue(t)
  PROVE  /\ wq' \in Seq(Threads) /\ Queued' = Queued \ {t}
         /\ \A i, j \in 1 .. Len(wq') : wq'[i] = wq'[j] => i = j
<1> USE DEF IInv
<1>1. PICK n \in 1 .. Len(wq) :
        wq[n] = t /\ wq' = SubSeq(wq, 1, n - 1) \o SubSeq(wq, n + 1, Len(wq))
  BY DEF Dequeue
<1>2. wq \in Seq(Threads) /\ \A i, j \in 1 .. Len(wq) : wq[i] = wq[j] => i = j
  BY DEF TypeOK, QueueMatchesStacks
<1>3. LET r == SubSeq(wq, 1, n - 1) \o SubSeq(wq, n + 1, Len(wq)) IN
      /\ r \in Seq(Threads)
      /\ {r[i] : i \in 1 .. Len(r)} = {wq[i] : i \in 1 .. Len(wq)} \ {wq[n]}
      /\ \A i, j \in 1 .. Len(r) : r[i] = r[j] => i = j
  BY <1>2, RemoveQueued
<1> QED BY <1>1, <1>3 DEF Queued

(* The types are kept.                                                      *)
LEMMA TypeStep ==
  ASSUME IInv, NEW t \in Threads, Step(t) \/ Call(t)
  PROVE  TypeOK'
<1> USE DEF IInv, waking
<1>0. state' \in {-1} \cup Nat BY CountStep
<1>1. CASE LockTake(t) BY <1>0, <1>1 DEF LockTake, TypeOK
<1>2. CASE LockQueue(t)
  BY <1>0, <1>2, AppendQueued, MutexAssumption DEF LockQueue, TypeOK, Element
<1>3. CASE Notified(t) BY <1>0, <1>3 DEF Notified, TypeOK
<1>4. CASE Dequeue(t)
  <2>1. wq' \in Seq(Threads) BY <1>4, DequeueQueued
  <2> QED BY <1>0, <1>4, <2>1 DEF Dequeue, TypeOK, NoElement, Element
<1>5. CASE WakeMark(t)
  <2>1. PICK i \in 1 .. Len(wq) :
          /\ wqe' = [wqe EXCEPT ![wq[i]].done = TRUE]
          /\ handle' = [handle EXCEPT ![t] = wq[i]]
          /\ wake_type' = [wake_type EXCEPT ![t] =
                             IF wqe[wq[i]].wait_read THEN "read" ELSE "write"]
    BY <1>5 DEF WakeMark
  <2>2. wq[i] \in Threads BY DEF TypeOK
  <2>3. /\ wqe' \in [Threads -> [done : BOOLEAN, wait_read : BOOLEAN,
                                 cv : CondVars \cup {NoCv}]]
        /\ handle' \in [Threads -> Threads \cup {NoThread}]
        /\ wake_type' \in [Threads -> {"none", "read", "write"}]
    BY <2>1, <2>2 DEF TypeOK
  <2> QED BY <1>0, <1>5, <2>3 DEF WakeMark, TypeOK
<1>6. CASE WakeNone(t) BY <1>0, <1>6 DEF WakeNone, WakeReturn, TypeOK
<1>7. CASE WakeSend(t)
  <2>1. notified' \in [Threads -> BOOLEAN] /\ handle' \in [Threads -> Threads \cup {NoThread}]
    BY <1>7 DEF WakeSend, TypeOK
  <2>2. CASE wake_type[t] = "read" BY <1>0, <1>7, <2>1, <2>2 DEF WakeSend, TypeOK
  <2>3. CASE wake_type[t] # "read"
    BY <1>0, <1>7, <2>1, <2>3 DEF WakeSend, WakeReturn, TypeOK
  <2> QED BY <2>2, <2>3
<1>8. ASSUME NEW r \in Modes, LockCall(t, r) PROVE TypeOK'
  BY <1>0, <1>8, MutexAssumption DEF LockCall, TypeOK
<1>9. ASSUME NEW r \in Modes, TryLock(t, r) PROVE TypeOK'
  BY <1>0, <1>9, MutexAssumption DEF TryLock, TypeOK
<1>10. CASE Unlock(t) BY <1>0, <1>10 DEF Unlock, WakeIfFree, TypeOK
<1>11. CASE ReadUnlock(t) BY <1>0, <1>11 DEF ReadUnlock, WakeIfFree, TypeOK
<1>12. CASE WaitReturns(t) BY <1>0, <1>12 DEF WaitReturns, TypeOK
<1>13. ASSUME NEW c \in CondVars, CondWait(t, c) PROVE TypeOK'
  BY <1>0, <1>13, AppendQueued DEF CondWait, WakeIfFree, TypeOK, Element
<1>14. ASSUME NEW c \in CondVars, NEW only_one \in BOOLEAN, CondSignal(t, c, only_one)
       PROVE  TypeOK'
  BY <1>0, <1>14 DEF CondSignal, TypeOK
<1> QED BY <1>1, <1>2, <1>3, <1>4, <1>5, <1>6, <1>7, <1>8, <1>9, <1>10,
           <1>11, <1>12, <1>13, <1>14 DEF Step, Call

(* The wait queue goes on matching the stacks.                              *)
LEMMA QueueStep ==
  ASSUME IInv, NEW t \in Threads, Step(t) \/ Call(t)
  PROVE  QueueMatchesStacks'
<1> USE DEF IInv, waking
<1>1. ASSUME wq' = Append(wq, t), ~InQueue(t),
             \A u \in Threads : u # t => after'[u] = after[u],
             \/ pc' = [pc EXCEPT ![t] = "sleep"]
             \/ pc' = [pc EXCEPT ![t] = "wake"] /\ after'[t] = "sleep"
      PROVE  QueueMatchesStacks'
  <2>1. t \notin Queued BY <1>1 DEF QueueMatchesStacks
  <2>2. Queued' = Queued \cup {t}
    BY <1>1, AppendQueued DEF Queued, TypeOK
  <2>3. \A i, j \in 1 .. Len(wq') : wq'[i] = wq'[j] => i = j
    BY <1>1, <2>1, AppendQueued DEF Queued, QueueMatchesStacks, TypeOK
  <2>4. \A u \in Threads : InQueue(u)' <=> (u = t \/ InQueue(u))
    BY <1>1 DEF InQueue, TypeOK
  <2> QED BY <2>2, <2>3, <2>4 DEF QueueMatchesStacks
<1>2. CASE LockQueue(t)
  <2>1. ~InQueue(t) BY <1>2 DEF LockQueue, InQueue
  <2>2. /\ pc' = [pc EXCEPT ![t] = "sleep"] /\ wq' = Append(wq, t)
        /\ \A u \in Threads : u # t => after'[u] = after[u]
    BY <1>2 DEF LockQueue
  <2> QED BY <1>1, <2>1, <2>2
<1>3. ASSUME NEW c \in CondVars, CondWait(t, c) PROVE QueueMatchesStacks'
  <2>1. ~InQueue(t) BY <1>3 DEF CondWait, InQueue, Held
  <2>2. /\ wq' = Append(wq, t)
        /\ \A u \in Threads : u # t => after'[u] = after[u]
    BY <1>3 DEF CondWait, WakeIfFree, TypeOK
  <2>3. \/ pc' = [pc EXCEPT ![t] = "sleep"]
        \/ pc' = [pc EXCEPT ![t] = "wake"] /\ after'[t] = "sleep"
    BY <1>3 DEF CondWait, WakeIfFree, TypeOK
  <2> QED BY <1>1, <2>1, <2>2, <2>3
<1>4. CASE Dequeue(t)
  <2>2. /\ Queued' = Queued \ {t}
        /\ \A k, j \in 1 .. Len(wq') : wq'[k] = wq'[j] => k = j
    BY <1>4, DequeueQueued
  <2>3. \A u \in Threads : InQueue(u)' <=> (u # t /\ InQueue(u))
    BY <1>4 DEF Dequeue, InQueue, TypeOK
  <2> QED BY <2>2, <2>3 DEF QueueMatchesStacks
<1>5. ASSUME wq' = wq, \A u \in Threads : InQueue(u)' <=> InQueue(u)
      PROVE  QueueMatchesStacks'
  BY <1>5 DEF QueueMatchesStacks, Queued
<1>6. CASE LockTake(t) \/ Notified(t) \/ WaitReturns(t)
  BY <1>5, <1>6 DEF LockTake, Notified, WaitReturns, InQueue, TypeOK
<1>7. ASSUME NEW r \in Modes, LockCall(t, r) \/ TryLock(t, r)
      PROVE  QueueMatchesStacks'
  BY <1>5, <1>7 DEF LockCall, TryLock, InQueue, TypeOK
<1>8. CASE Unlock(t) \/ ReadUnlock(t)
  BY <1>5, <1>8 DEF Unlock, ReadUnlock, WakeIfFree, InQueue, Held, TypeOK
<1>9. CASE WakeMark(t)
  BY <1>5, <1>9 DEF WakeMark, InQueue, TypeOK
<1>10. CASE WakeNone(t) \/ WakeSend(t)
  BY <1>5, <1>10 DEF WakeNone, WakeSend, WakeReturn, InQueue, TypeOK
<1>11. ASSUME NEW c \in CondVars, NEW only_one \in BOOLEAN, CondSignal(t, c, only_one)
       PROVE  QueueMatchesStacks'
  BY <1>5, <1>11 DEF CondSignal, InQueue
<1> QED BY <1>2, <1>3, <1>4, <1>6, <1>7, <1>8, <1>9, <1>10, <1>11 DEF Step, Call

(* What a step does to the queue seen as a set, and to its elements. *)
LEMMA QueuedStep ==
  ASSUME IInv, NEW t \in Threads, Step(t) \/ Call(t), NEW u \in Threads,
         u \in Queued'
  PROVE  \/ u \in Queued
         \/ u = t /\ ~wqe'[t].done /\ (pc[t] = "lock" \/ Held(t))
<1> USE DEF IInv, waking
<1>1. CASE LockQueue(t)
  <2>1. Queued' = Queued \cup {t}
    BY <1>1, AppendQueued DEF LockQueue, Queued, TypeOK
  <2>2. wqe'[t] = Element(read[t], NoCv) BY <1>1 DEF LockQueue, TypeOK
  <2>3. ~wqe'[t].done BY <2>2 DEF Element
  <2> QED BY <1>1, <2>1, <2>3 DEF LockQueue
<1>2. ASSUME NEW c \in CondVars, CondWait(t, c)
      PROVE  u \in Queued \/ (u = t /\ ~wqe'[t].done /\ (pc[t] = "lock" \/ Held(t)))
  <2>1. Queued' = Queued \cup {t}
    BY <1>2, AppendQueued DEF CondWait, Queued, TypeOK
  <2>2. wqe'[t] = Element(state > 0, c) BY <1>2 DEF CondWait, TypeOK
  <2>3. ~wqe'[t].done BY <2>2 DEF Element
  <2> QED BY <1>2, <2>1, <2>3 DEF CondWait
<1>3. CASE Dequeue(t)
  BY <1>3, DequeueQueued
<1>4. CASE wq' = wq BY <1>4 DEF Queued
<1>5. wq' = wq \/ LockQueue(t) \/ Dequeue(t) \/ \E c \in CondVars : CondWait(t, c)
  BY DEF Step, Call, LockTake, Notified, WaitReturns, LockCall, TryLock, Unlock,
         ReadUnlock, WakeMark, WakeNone, WakeSend, CondSignal
<1> QED BY <1>1, <1>2, <1>3, <1>4, <1>5

(* A waiter marked done has no condition variable any more.                 *)
LEMMA SignalStep ==
  ASSUME IInv, NEW t \in Threads, Step(t) \/ Call(t)
  PROVE  DoneWasSignalled'
<1> USE DEF IInv, waking
<1> SUFFICES ASSUME NEW u \in Threads, u \in Queued', wqe'[u].done
             PROVE  wqe'[u].cv = NoCv
  BY DEF DoneWasSignalled
<1>1. u \in Queued BY QueuedStep
<1>2. wqe[u].done => wqe[u].cv = NoCv BY <1>1 DEF DoneWasSignalled
<1>3. CASE wqe' = wqe BY <1>2, <1>3
<1>4. CASE LockQueue(t) BY <1>2, <1>4 DEF LockQueue, Element, TypeOK
<1>5. CASE Dequeue(t) BY <1>2, <1>5 DEF Dequeue, NoElement, Element, TypeOK
<1>6. ASSUME NEW c \in CondVars, CondWait(t, c) PROVE wqe'[u].cv = NoCv
  BY <1>2, <1>6 DEF CondWait, Element, TypeOK
<1>7. CASE WakeMark(t)
  <2>1. PICK i \in 1 .. Len(wq) :
          Wakes(t, wq[i]) /\ wqe' = [wqe EXCEPT ![wq[i]].done = TRUE]
    BY <1>7 DEF WakeMark
  <2>2. wqe'[u].cv = wqe[u].cv BY <2>1 DEF TypeOK
  <2>3. u = wq[i] \/ wqe'[u].done = wqe[u].done BY <2>1 DEF TypeOK
  <2> QED BY <1>2, <2>1, <2>2, <2>3 DEF Wakes
<1>8. ASSUME NEW c \in CondVars, NEW only_one \in BOOLEAN, CondSignal(t, c, only_one)
      PROVE  wqe'[u].cv = NoCv
  <2>1. wqe'[u] = wqe[u] \/ wqe'[u] = [wqe[u] EXCEPT !.cv = NoCv]
    BY <1>8 DEF CondSignal
  <2> QED BY <1>2, <2>1 DEF TypeOK
<1>9. \/ wqe' = wqe \/ LockQueue(t) \/ Dequeue(t) \/ WakeMark(t)
      \/ \E c \in CondVars : \/ CondWait(t, c)
                           \/ \E only_one \in BOOLEAN : CondSignal(t, c, only_one)
  BY DEF Step, Call, LockTake, Notified, WaitReturns, LockCall, TryLock, Unlock,
         ReadUnlock, WakeNone, WakeSend
<1> QED BY <1>3, <1>4, <1>5, <1>6, <1>7, <1>8, <1>9

(* The heart of the matter: a wakeup is never lost.  The mutex is free     *)
(* after a step only if it was free before, or the step freed it and the   *)
(* thread is about to scan the queue from its head.                        *)
LEMMA WakeStep ==
  ASSUME IInv, NEW t \in Threads, Step(t) \/ Call(t)
  PROVE  NoLostWakeup'
<1> USE DEF IInv, waking
<1> SUFFICES ASSUME state' = 0, NEW w \in Threads, Unserved(w)'
             PROVE  \E u \in Threads : Responsible(u)'
  BY DEF NoLostWakeup
<1>1. CASE Responsible(t)' BY <1>1
<1>2. ASSUME state = 0, Unserved(w),
             \A u \in Threads : Responsible(u) => Responsible(u)'
      PROVE  \E u \in Threads : Responsible(u)'
  BY <1>2 DEF NoLostWakeup
<1>3. CASE LockTake(t)
  <2>1. read[t] \in BOOLEAN /\ read' = [read EXCEPT ![t] = read[t]] /\ ~Held(t)
    BY <1>3 DEF LockTake, Held, TypeOK
  <2> QED BY <1>3, <2>1, AcquireCounts DEF LockTake
<1>4. ASSUME NEW r \in Modes, TryLock(t, r) PROVE FALSE
  <2>1. r \in BOOLEAN /\ ~Held(t) BY <1>4, MutexAssumption DEF TryLock, Held
  <2> QED BY <1>4, <2>1, AcquireCounts DEF TryLock
<1>5. CASE LockQueue(t)
  BY <1>5 DEF LockQueue, CanLock
<1>6. CASE Notified(t) \/ WaitReturns(t) \/ Dequeue(t)
  BY <1>1, <1>6 DEF Notified, WaitReturns, Dequeue, Responsible, TypeOK
<1>7. CASE Unlock(t) \/ ReadUnlock(t) \/ \E c \in CondVars : CondWait(t, c)
  <2>1. pc'[t] = "wake" /\ wake_type'[t] = wake_type[t] /\ Held(t)
    BY <1>7 DEF Unlock, ReadUnlock, CondWait, WakeIfFree, TypeOK
  <2> QED BY <1>1, <2>1 DEF Responsible, FreshScan, Held
<1>8. CASE WakeMark(t)
  <2>1. PICK i \in 1 .. Len(wq) : wqe' = [wqe EXCEPT ![wq[i]].done = TRUE]
    BY <1>8 DEF WakeMark
  <2>2. wq[i] \in Threads /\ wq[i] \in Queued' /\ wqe'[wq[i]].done
    BY <1>8, <2>1 DEF WakeMark, Queued, TypeOK
  <2> QED BY <2>2 DEF Responsible
<1>9. CASE WakeNone(t)
  <2>1. state = 0 /\ Unserved(w) /\ Queued' = Queued
    BY <1>9 DEF WakeNone, Unserved, Queued
  <2>2. wake_type[t] # "none"
    BY <1>9, <2>1 DEF WakeNone, Unserved, Wakes
  <2>3. \A u \in Threads : Responsible(u) => Responsible(u)'
    BY <1>9, <2>1, <2>2 DEF WakeNone, WakeReturn, Responsible, TypeOK
  <2> QED BY <1>2, <2>1, <2>3
<1>10. CASE WakeSend(t)
  <2>1. state = 0 /\ Unserved(w) /\ Queued' = Queued
    BY <1>10 DEF WakeSend, Unserved, Queued
  <2>2. \A u \in Threads : Responsible(u) => Responsible(u)'
    BY <1>10, <2>1 DEF WakeSend, WakeReturn, Responsible, TypeOK
  <2> QED BY <1>2, <2>1, <2>2
<1>11. ASSUME NEW r \in Modes, LockCall(t, r) PROVE Responsible(t)'
  BY <1>11 DEF LockCall, Responsible, TypeOK
<1>12. ASSUME NEW c \in CondVars, NEW only_one \in BOOLEAN, CondSignal(t, c, only_one)
       PROVE  FALSE
  BY <1>12, HeldNotFree DEF CondSignal
<1> QED BY <1>1, <1>3, <1>4, <1>5, <1>6, <1>7, <1>8, <1>9, <1>10, <1>11, <1>12
        DEF Step, Call

(* What a scan of the queue has seen stays true while it lasts.             *)
LEMMA ScanStep ==
  ASSUME IInv, NEW t \in Threads, Step(t) \/ Call(t)
  PROVE  FreshScan'
<1> USE DEF IInv, waking
<1>1. CASE LockTake(t) \/ LockQueue(t) \/ Notified(t) \/ Dequeue(t) \/ WaitReturns(t)
  BY <1>1 DEF LockTake, LockQueue, Notified, Dequeue, WaitReturns, FreshScan, TypeOK
<1>2. CASE WakeMark(t) BY <1>2 DEF WakeMark, FreshScan, TypeOK
<1>3. CASE WakeNone(t) \/ WakeSend(t)
  BY <1>3 DEF WakeNone, WakeSend, WakeReturn, FreshScan, TypeOK
<1>4. ASSUME NEW r \in Modes, LockCall(t, r) \/ TryLock(t, r) PROVE FreshScan'
  BY <1>4 DEF LockCall, TryLock, FreshScan, TypeOK
<1>5. CASE Unlock(t) \/ ReadUnlock(t)
  BY <1>5 DEF Unlock, ReadUnlock, WakeIfFree, Held, FreshScan, TypeOK
<1>6. ASSUME NEW c \in CondVars, CondWait(t, c) PROVE FreshScan'
  BY <1>6 DEF CondWait, WakeIfFree, Held, FreshScan, TypeOK
<1>7. ASSUME NEW c \in CondVars, NEW only_one \in BOOLEAN, CondSignal(t, c, only_one)
      PROVE  FreshScan'
  BY <1>7 DEF CondSignal, FreshScan
<1> QED BY <1>1, <1>2, <1>3, <1>4, <1>5, <1>6, <1>7 DEF Step, Call

----------------------------------------------------------------------------
(* The theorems. *)

(* The inductive invariant holds throughout, for every number of threads,  *)
(* whether or not the RPCs to the normal world fail.                       *)
THEOREM Invariance == Spec => []IInv
<1>1. IInv /\ [Next]_vars => IInv'
  <2> SUFFICES ASSUME IInv, [Next]_vars PROVE IInv' OBVIOUS
  <2>1. ASSUME NEW t \in Threads, Step(t) \/ Call(t) PROVE IInv'
    <3>1. TypeOK' BY <2>1, TypeStep
    <3>2. StateCountsHolders' BY <2>1, CountStep
    <3>3. QueueMatchesStacks' BY <2>1, QueueStep
    <3>4. DoneWasSignalled' BY <2>1, SignalStep
    <3>5. FreshScan' BY <2>1, ScanStep
    <3>6. NoLostWakeup' BY <2>1, WakeStep
    <3> QED BY <3>1, <3>2, <3>3, <3>4, <3>5, <3>6 DEF IInv
  <2>2. CASE UNCHANGED vars
    BY <2>2 DEF vars, IInv, TypeOK, StateCountsHolders, QueueMatchesStacks,
                DoneWasSignalled, FreshScan, NoLostWakeup, Readers, Writers, Held,
                Queued, InQueue, Unserved, Responsible
  <2> QED BY <2>1, <2>2 DEF Next
<1> QED BY InitInvariant, <1>1, PTL DEF Spec

(* The variables of the mutex keep their types; m->state never runs below  *)
(* -1, so the unlocks' panics are not reached by an underflow.             *)
THEOREM TypeCorrect == Spec => []TypeOK
<1>1. IInv => TypeOK BY DEF IInv
<1> QED BY Invariance, <1>1, PTL

(* m->state counts the threads inside the mutex. *)
THEOREM CountCorrect == Spec => []StateCountsHolders
<1>1. IInv => StateCountsHolders BY DEF IInv
<1> QED BY Invariance, <1>1, PTL

(* The wait queue holds the elements of live stack frames, once each. *)
THEOREM QueueCorrect == Spec => []QueueMatchesStacks
<1>1. IInv => QueueMatchesStacks BY DEF IInv
<1> QED BY Invariance, <1>1, PTL

(* No wakeup is lost between the unlock of m->spin_lock and the scan of    *)
(* the queue under wq_spin_lock, with any number of threads barging in.    *)
THEOREM WakeupNotLost == Spec => []NoLostWakeup
<1>1. IInv => NoLostWakeup BY DEF IInv
<1> QED BY Invariance, <1>1, PTL

(* Unless a send fails, whoever is marked done has its notification on the *)
(* way.                                                                    *)
THEOREM NotificationSent == ~SendMayFail => (Spec => []DoneIsNotified)
<1> SUFFICES ASSUME ~SendMayFail PROVE Spec => []DoneIsNotified OBVIOUS
<1> USE DEF IInv, waking
<1>1. Init => DoneIsNotified BY DEF Init, DoneIsNotified, Queued
<1>2. ASSUME IInv, DoneIsNotified, NEW t \in Threads, Step(t) \/ Call(t)
      PROVE  DoneIsNotified'
  <2> SUFFICES ASSUME NEW u \in Threads, u \in Queued', wqe'[u].done, pc'[u] # "remove"
               PROVE  \/ notified'[u]
                      \/ \E v \in Threads : pc'[v] = "notify" /\ handle'[v] = u
    BY DEF DoneIsNotified
  <2>1. u \in Queued BY <1>2, QueuedStep
  <2>2. CASE WakeMark(t)
    <3>1. PICK i \in 1 .. Len(wq) :
            wqe' = [wqe EXCEPT ![wq[i]].done = TRUE] /\ handle' = [handle EXCEPT ![t] = wq[i]]
      BY <2>2 DEF WakeMark
    <3>2. CASE u = wq[i] BY <1>2, <2>2, <3>1, <3>2 DEF WakeMark, TypeOK
    <3>3. CASE u # wq[i]
      <4>1. wqe[u].done /\ pc[u] # "remove"
        BY <1>2, <2>2, <3>1, <3>3 DEF WakeMark, TypeOK
      <4>2. \/ notified[u]
            \/ \E v \in Threads : pc[v] = "notify" /\ handle[v] = u
        BY <1>2, <2>1, <4>1 DEF DoneIsNotified
      <4>3. \A v \in Threads : pc[v] = "notify" => pc'[v] = "notify" /\ handle'[v] = handle[v]
        BY <1>2, <2>2, <3>1 DEF WakeMark, TypeOK
      <4> QED BY <2>2, <4>2, <4>3 DEF WakeMark
    <3> QED BY <3>2, <3>3
  <2>3. CASE WakeSend(t)
    <3>1. wqe[u].done /\ pc[u] # "remove"
      BY <1>2, <2>3 DEF WakeSend, WakeReturn, TypeOK
    <3>2. \/ notified[u]
          \/ \E v \in Threads : pc[v] = "notify" /\ handle[v] = u
      BY <1>2, <2>1, <3>1 DEF DoneIsNotified
    <3>3. notified' = [notified EXCEPT ![handle[t]] = TRUE]
      BY <2>3 DEF WakeSend
    <3>4. notified[u] \/ handle[t] = u => notified'[u]
      <4>1. handle[t] = u => notified'[u] = TRUE BY <1>2, <3>3 DEF TypeOK
      <4>2. handle[t] # u => notified'[u] = notified[u] BY <1>2, <3>3 DEF TypeOK
      <4> QED BY <4>1, <4>2
    <3>5. \A v \in Threads : v # t => pc'[v] = pc[v] /\ handle'[v] = handle[v]
      BY <1>2, <2>3 DEF WakeSend, WakeReturn, TypeOK
    <3> QED BY <3>2, <3>4, <3>5
  <2>4. CASE ~WakeMark(t) /\ ~WakeSend(t)
    <3>1. wqe[u].done /\ pc[u] # "remove"
      <4>0. CASE Notified(t) \/ LockTake(t) \/ WaitReturns(t)
        BY <1>2, <4>0 DEF Notified, LockTake, WaitReturns, TypeOK
      <4>1. CASE LockQueue(t) \/ Dequeue(t)
        <5>1. u # t
          <6>1. \/ wqe' = [wqe EXCEPT ![t] = Element(read[t], NoCv)]
                \/ wqe' = [wqe EXCEPT ![t] = NoElement]
            BY <4>1 DEF LockQueue, Dequeue
          <6>2. wqe'[t] = Element(read[t], NoCv) \/ wqe'[t] = NoElement
            BY <1>2, <6>1 DEF TypeOK
          <6>3. wqe'[t].done = FALSE BY <6>2 DEF Element, NoElement
          <6> QED BY <6>3
        <5>2. wqe'[u] = wqe[u] /\ pc'[u] = pc[u]
          BY <1>2, <4>1, <5>1 DEF LockQueue, Dequeue, TypeOK
        <5> QED BY <5>2
      <4>2. CASE WakeNone(t) BY <1>2, <4>2 DEF WakeNone, WakeReturn, TypeOK
      <4>3. CASE Unlock(t) \/ ReadUnlock(t) \/ \E r \in Modes : LockCall(t, r) \/ TryLock(t, r)
        BY <1>2, <4>3 DEF Unlock, ReadUnlock, WakeIfFree, LockCall, TryLock, Held, TypeOK
      <4>4. ASSUME NEW c \in CondVars, CondWait(t, c) PROVE wqe[u].done /\ pc[u] # "remove"
        BY <1>2, <4>4 DEF CondWait, WakeIfFree, Element, Held, TypeOK
      <4>5. ASSUME NEW c \in CondVars, NEW only_one \in BOOLEAN, CondSignal(t, c, only_one)
            PROVE  wqe[u].done /\ pc[u] # "remove"
        BY <1>2, <4>5 DEF CondSignal, TypeOK
      <4> QED BY <1>2, <2>4, <4>0, <4>1, <4>2, <4>3, <4>4, <4>5 DEF Step, Call
    <3>2. \/ notified'[u] = notified[u]
          \/ Notified(t) /\ u = t
      BY <1>2, <2>4 DEF Step, Call, LockQueue, Notified, Dequeue, LockTake, WaitReturns,
           WakeNone, Unlock, ReadUnlock, LockCall, TryLock, CondWait, CondSignal, TypeOK
    <3>3. ~(Notified(t) /\ u = t) BY <1>2 DEF Notified, TypeOK
    <3>4. handle' = handle /\ (pc[t] = "notify" => pc' = pc)
      BY <1>2, <2>4 DEF Step, Call, LockQueue, Notified, Dequeue, LockTake, WaitReturns,
           WakeNone, Unlock, ReadUnlock, LockCall, TryLock, CondWait, CondSignal,
           WakeIfFree, Held
    <3>5. \A v \in Threads : pc[v] = "notify" => pc'[v] = "notify"
      BY <1>2, <2>4, <3>4 DEF Step, Call, LockQueue, Notified, Dequeue, LockTake, WaitReturns,
           WakeNone, WakeReturn, Unlock, ReadUnlock, LockCall, TryLock, CondWait, CondSignal,
           WakeIfFree, TypeOK
    <3> QED BY <1>2, <2>1, <3>1, <3>2, <3>3, <3>4, <3>5 DEF DoneIsNotified
  <2> QED BY <2>2, <2>3, <2>4
<1>3. DoneIsNotified /\ UNCHANGED vars => DoneIsNotified'
  BY DEF DoneIsNotified, vars, Queued
<1>4. IInv /\ DoneIsNotified /\ [Next]_vars => DoneIsNotified'
  BY <1>2, <1>3 DEF Next
<1> QED BY <1>1, <1>4, Invariance, PTL DEF Spec

(* The mutex implements the abstract readers-writer lock: each step takes  *)
(* or releases the lock for one thread or leaves the holders alone.        *)
THEOREM Refinement == Spec => RefinesRwLock
<1> USE DEF IInv, waking
<1>1. Init => Abstract!Init
  BY DEF Init, Abstract!Init, Readers, Writers, Held
<1>2. ASSUME IInv, NEW t \in Threads, Step(t) \/ Call(t)
      PROVE  [Abstract!Next]_(Abstract!vars)
  <2>1. ASSUME NEW r \in BOOLEAN, ~Held(t), CanLock(r),
               pc' = [pc EXCEPT ![t] = "hold"], read' = [read EXCEPT ![t] = r]
        PROVE  [Abstract!Next]_(Abstract!vars)
    <3>1. t \notin Readers /\ Writers = {}
      BY <1>2, <2>1, FreeHasNoHolder DEF Readers, CanLock, StateCountsHolders
    <3>2. CASE r
      <4>1. Readers' = Readers \cup {t} /\ Writers' = Writers
        BY <1>2, <2>1, <3>2 DEF Readers, Writers, Held, TypeOK
      <4> QED BY <3>1, <4>1 DEF Abstract!Next, Abstract!AcquireRead
    <3>3. CASE ~r
      <4>1. Readers = {} BY <1>2, <2>1, <3>3, FreeHasNoHolder DEF CanLock
      <4>2. Readers' = Readers /\ Writers' = Writers \cup {t}
        BY <1>2, <2>1, <3>3 DEF Readers, Writers, Held, TypeOK
      <4> QED BY <3>1, <4>1, <4>2 DEF Abstract!Next, Abstract!AcquireWrite
    <3> QED BY <3>2, <3>3
  <2>2. ASSUME Held(t), ~Held(t)', \A u \in Threads : u # t => read'[u] = read[u] /\ pc'[u] = pc[u]
        PROVE  [Abstract!Next]_(Abstract!vars)
    <3>1. Readers' = Readers \ {t} /\ Writers' = Writers \ {t}
      BY <2>2 DEF Readers, Writers, Held
    <3>2. CASE read[t]
      <4>1. t \in Readers /\ t \notin Writers BY <2>2, <3>2 DEF Readers, Writers
      <4> QED BY <3>1, <4>1 DEF Abstract!Next, Abstract!ReleaseRead
    <3>3. CASE ~read[t]
      <4>1. t \in Writers /\ t \notin Readers BY <2>2, <3>3 DEF Readers, Writers
      <4> QED BY <3>1, <4>1 DEF Abstract!Next, Abstract!ReleaseWrite
    <3> QED BY <3>2, <3>3
  <2>3. ASSUME \A u \in Threads : Held(u)' = Held(u) /\ (Held(u) => read'[u] = read[u])
        PROVE  [Abstract!Next]_(Abstract!vars)
    BY <2>3 DEF Readers, Writers, Abstract!vars
  <2>4. CASE LockTake(t)
    <3>1. read[t] \in BOOLEAN /\ read' = [read EXCEPT ![t] = read[t]] /\ ~Held(t)
      BY <1>2, <2>4 DEF LockTake, Held, TypeOK
    <3> QED BY <2>1, <2>4, <3>1 DEF LockTake
  <2>5. ASSUME NEW r \in Modes, TryLock(t, r) PROVE [Abstract!Next]_(Abstract!vars)
    BY <2>1, <2>5, MutexAssumption DEF TryLock, Held
  <2>6. CASE Unlock(t) \/ ReadUnlock(t) \/ \E c \in CondVars : CondWait(t, c)
    <3>1. Held(t) /\ pc'[t] # "hold"
      BY <1>2, <2>6 DEF Unlock, ReadUnlock, CondWait, WakeIfFree, TypeOK
    <3>2. \A u \in Threads : u # t => read'[u] = read[u] /\ pc'[u] = pc[u]
      BY <1>2, <2>6 DEF Unlock, ReadUnlock, CondWait, WakeIfFree, TypeOK
    <3> QED BY <2>2, <3>1, <3>2 DEF Held
  <2>7. CASE \/ LockQueue(t) \/ Notified(t) \/ Dequeue(t) \/ WaitReturns(t)
             \/ \E r \in Modes : LockCall(t, r)
    BY <1>2, <2>3, <2>7
    DEF LockQueue, Notified, Dequeue, WaitReturns, LockCall, Held, TypeOK
  <2>8. CASE WakeMark(t) \/ WakeNone(t) \/ WakeSend(t)
    BY <1>2, <2>3, <2>8 DEF WakeMark, WakeNone, WakeSend, WakeReturn, Held, TypeOK
  <2>9. CASE \E c \in CondVars, only_one \in BOOLEAN : CondSignal(t, c, only_one)
    BY <2>3, <2>9 DEF CondSignal, Held
  <2> QED BY <1>2, <2>4, <2>5, <2>6, <2>7, <2>8, <2>9 DEF Step, Call
<1>3. UNCHANGED vars => UNCHANGED Abstract!vars
  BY DEF vars, Abstract!vars, Readers, Writers, Held
<1>4. IInv /\ [Next]_vars => [Abstract!Next]_(Abstract!vars)
  BY <1>2, <1>3 DEF Next
<1> QED BY <1>1, <1>4, Invariance, PTL DEF Spec, RefinesRwLock, Abstract!Spec
=============================================================================
