---------------------------- MODULE DynShmProofs ----------------------------
(***************************************************************************)
(* Registered shared memory is not used after it is freed, is mapped while *)
(* it is used and is not released behind a waiter's back, for every number *)
(* of threads, buffers and registrations.                                  *)
(***************************************************************************)
EXTENDS DynShm, FiniteSetTheorems, TLAPS

----------------------------------------------------------------------------
(* Counting the elements of a finite set.                                   *)

(* Two sets that agree except on t differ in size by t's membership.        *)
LEMMA CountMove ==
  ASSUME NEW T, IsFiniteSet(T), NEW A \in SUBSET T, NEW B \in SUBSET T, NEW t,
         A \ {t} = B \ {t}
  PROVE  /\ Cardinality(A) \in Nat /\ Cardinality(B) \in Nat
         /\ t \in A /\ t \in B => Cardinality(B) = Cardinality(A)
         /\ t \notin A /\ t \notin B => Cardinality(B) = Cardinality(A)
         /\ t \in A /\ t \notin B => Cardinality(B) = Cardinality(A) - 1
         /\ t \notin A /\ t \in B => Cardinality(B) = Cardinality(A) + 1
<1>1. IsFiniteSet(A) /\ IsFiniteSet(B) BY FS_Subset
<1>2. Cardinality(A) \in Nat /\ Cardinality(B) \in Nat
  BY <1>1, FS_CardinalityType
<1>3. Cardinality(A \ {t}) = IF t \in A THEN Cardinality(A) - 1 ELSE Cardinality(A)
  BY <1>1, FS_RemoveElement
<1>4. Cardinality(B \ {t}) = IF t \in B THEN Cardinality(B) - 1 ELSE Cardinality(B)
  BY <1>1, FS_RemoveElement
<1>5. Cardinality(A \ {t}) = Cardinality(B \ {t}) OBVIOUS
<1> QED BY <1>2, <1>3, <1>4, <1>5

(* The same in one equation.                                                *)
LEMMA CountDelta ==
  ASSUME NEW T, IsFiniteSet(T), NEW A \in SUBSET T, NEW B \in SUBSET T, NEW t,
         A \ {t} = B \ {t}
  PROVE  /\ Cardinality(A) \in Nat /\ Cardinality(B) \in Nat
         /\ Cardinality(B) = Cardinality(A) + (IF t \in B THEN 1 ELSE 0)
                                            - (IF t \in A THEN 1 ELSE 0)
BY CountMove

(* A set with an element is not counted as empty.                           *)
LEMMA CountPositive ==
  ASSUME NEW T, IsFiniteSet(T), NEW A \in SUBSET T, NEW t \in A
  PROVE  Cardinality(A) \in Nat /\ Cardinality(A) > 0
<1>1. IsFiniteSet(A) BY FS_Subset
<1>2. Cardinality(A) \in Nat /\ Cardinality(A) # 0
  BY <1>1, FS_CardinalityType, FS_EmptySet
<1> QED BY <1>2

(* A set counted as one element holds no two.                               *)
LEMMA CountOne ==
  ASSUME NEW T, IsFiniteSet(T), NEW A \in SUBSET T, Cardinality(A) = 1,
         NEW t \in A, NEW u \in A
  PROVE  t = u
<1>1. IsFiniteSet(A) BY FS_Subset
<1>2. \E x : A = {x} BY <1>1, FS_Singleton
<1> QED BY <1>2

(* The threads that own a reference to k and will drop it.                  *)
Referrers(k) ==
  {t \in Threads : th[t].k = k /\ th[t].pc \in
     {"register", "got", "initmap", "mapped", "unmap", "unmapped", "drop"}}

(* The reference that a registration leaves behind until it is undone.      *)
Registered(k) ==
  IF buf[k].listed /\ ~buf[k].guarded /\ ~buf[k].releasing THEN 1 ELSE 0

RefsExact(k) == buf[k].refc = Cardinality(Referrers(k)) + Registered(k)

Mappers(k) == {t \in Threads : th[t].k = k /\ th[t].pc = "mapped"}

(* A mapping exists as long as it is counted.  The count can exceed its     *)
(* users in a guarded buffer that is about to be freed with its mapping.    *)
MapsCounted(k) ==
  /\ buf[k].mapcount >= Cardinality(Mappers(k))
  /\ buf[k].mapcount > 0 => buf[k].mm

(* A guarded buffer has no reference but that of the call that brought it.  *)
GuardedOnce(k) ==
  /\ \A t \in Threads : th[t].k = k /\ th[t].pc = "register" => buf[k].guarded
  /\ buf[k].guarded => buf[k].refc <= 1

(* One thread at most found the count at zero, and it has not yet passed    *)
(* the buffer on to the thread that unregisters it.                         *)
Finishing == {"free", "lastdrop"}

FinishedOnce(k) ==
  /\ \A t \in Threads : th[t].k = k /\ th[t].pc \in Finishing =>
       buf[k].listed /\ buf[k].refc = 0 /\ ~buf[k].releaseFrees
  /\ \A t, u \in Threads :
       (/\ th[t].k = k /\ th[t].pc \in Finishing
        /\ th[u].k = k /\ th[u].pc \in Finishing) => t = u

(* One thread at most unregisters a buffer, which is there until it is done *)
ReleasedOnce(k) ==
  /\ \A t \in Threads : th[t].k = k /\ th[t].pc \in Releasing =>
       buf[k].listed /\ buf[k].releasing
  /\ \A t, u \in Threads :
       (/\ th[t].k = k /\ th[t].pc \in Releasing
        /\ th[u].k = k /\ th[u].pc \in Releasing) => t = u
  /\ buf[k].releasing => buf[k].listed /\ ~buf[k].guarded
  /\ buf[k].releaseFrees => buf[k].releasing /\ buf[k].refc = 0

(* A buffer that is not listed has no one who could look at it.             *)
Gone(k) == ~buf[k].listed => buf[k] = Unlisted

(* A thread sleeps on a buffer that it could free only while the thread     *)
(* that will wake it is on its way: the last mobj_put is not missed.        *)
WakerComes(k) ==
  \A t \in Threads : th[t].k = k /\ th[t].pc = "wait" /\ buf[k].releaseFrees =>
    \E u \in Threads : th[u].k = k /\ th[u].pc \in {"broadcast", "notify"}

BufInv(k) == RefsExact(k) /\ MapsCounted(k) /\ GuardedOnce(k)
               /\ FinishedOnce(k) /\ ReleasedOnce(k) /\ Gone(k) /\ WakerComes(k)

(* The threads that shm_release_waiters counts.                             *)
Counted == {t \in Threads : th[t].pc \in {"check", "wait", "wake"}}

SleepersCounted ==
  /\ asleep = {t \in Threads : th[t].pc = "wait"}
  /\ waiters = Cardinality(Counted)

IInv == TypeOK /\ SleepersCounted /\ \A k \in Cookies : BufInv(k)

----------------------------------------------------------------------------
(* What a step of one thread t on one buffer k leaves alone.                *)

Buffer == [listed : BOOLEAN, refc : Nat, mapcount : Nat, mm : BOOLEAN,
           guarded : BOOLEAN, releasing : BOOLEAN, releaseFrees : BOOLEAN]

Buffers == [Cookies -> Buffer]

OnlyMoves(t) ==
  /\ th' \in [Threads -> [pc : PCs, k : Cookies]]
  /\ \A u \in Threads : u # t => th'[u] = th[u]

OnlyTouches(k) ==
  /\ buf' \in Buffers
  /\ \A j \in Cookies : j # k => buf'[j] = buf[j]

(* The other buffers keep their invariant.                                  *)
LEMMA OthersKept ==
  ASSUME NEW t \in Threads, NEW j \in Cookies, BufInv(j),
         \A u \in Threads : u # t => th'[u] = th[u], buf'[j] = buf[j],
         th[t].pc = "idle" \/ th[t].k # j, th'[t].pc = "idle" \/ th'[t].k # j
  PROVE  BufInv(j)'
<1>0. \A u \in Threads :
        \/ th'[u] = th[u]
        \/ /\ th[u].pc = "idle" \/ th[u].k # j
           /\ th'[u].pc = "idle" \/ th'[u].k # j
  OBVIOUS
<1>1. Referrers(j)' = Referrers(j) /\ Mappers(j)' = Mappers(j)
  <2>1. \A u : u \in Referrers(j)' <=> u \in Referrers(j) BY <1>0 DEF Referrers
  <2>2. \A u : u \in Mappers(j)' <=> u \in Mappers(j) BY <1>0 DEF Mappers
  <2> QED BY <2>1, <2>2, Zenon
<1>2. RefsExact(j)' BY <1>1 DEF BufInv, RefsExact, Registered
<1>3. MapsCounted(j)' BY <1>1 DEF BufInv, MapsCounted
<1>4. FinishedOnce(j)' BY <1>0 DEF BufInv, FinishedOnce, Finishing
<1>5. ReleasedOnce(j)' BY <1>0 DEF BufInv, ReleasedOnce, Releasing
<1>6. Gone(j)' BY DEF BufInv, Gone, Unlisted
<1>7. WakerComes(j)' BY <1>0 DEF BufInv, WakerComes
<1>8. GuardedOnce(j)' BY <1>0 DEF BufInv, GuardedOnce
<1> QED BY <1>2, <1>3, <1>4, <1>5, <1>6, <1>7, <1>8 DEF BufInv

(* The counts of k follow the one thread that moves.                        *)
LEMMA CountsFollow ==
  ASSUME NEW t \in Threads, NEW k, \A u \in Threads : u # t => th'[u] = th[u]
  PROVE  /\ Cardinality(Referrers(k)) \in Nat /\ Cardinality(Referrers(k)') \in Nat
         /\ Cardinality(Referrers(k)') =
              Cardinality(Referrers(k)) + (IF t \in Referrers(k)' THEN 1 ELSE 0)
                                        - (IF t \in Referrers(k) THEN 1 ELSE 0)
         /\ Cardinality(Mappers(k)) \in Nat /\ Cardinality(Mappers(k)') \in Nat
         /\ Cardinality(Mappers(k)') =
              Cardinality(Mappers(k)) + (IF t \in Mappers(k)' THEN 1 ELSE 0)
                                      - (IF t \in Mappers(k) THEN 1 ELSE 0)
         /\ Cardinality(Counted) \in Nat /\ Cardinality(Counted') \in Nat
         /\ Cardinality(Counted') =
              Cardinality(Counted) + (IF t \in Counted' THEN 1 ELSE 0)
                                   - (IF t \in Counted THEN 1 ELSE 0)
<1>0. IsFiniteSet(Threads) BY DynShmAssumption
<1>1. /\ Referrers(k) \in SUBSET Threads /\ Referrers(k)' \in SUBSET Threads
      /\ Referrers(k) \ {t} = Referrers(k)' \ {t}
  BY DEF Referrers
<1>2. /\ Mappers(k) \in SUBSET Threads /\ Mappers(k)' \in SUBSET Threads
      /\ Mappers(k) \ {t} = Mappers(k)' \ {t}
  BY DEF Mappers
<1>3. /\ Counted \in SUBSET Threads /\ Counted' \in SUBSET Threads
      /\ Counted \ {t} = Counted' \ {t}
  BY DEF Counted
<1>4. /\ Cardinality(Referrers(k)) \in Nat /\ Cardinality(Referrers(k)') \in Nat
      /\ Cardinality(Referrers(k)') =
           Cardinality(Referrers(k)) + (IF t \in Referrers(k)' THEN 1 ELSE 0)
                                     - (IF t \in Referrers(k) THEN 1 ELSE 0)
  BY <1>0, <1>1, CountDelta
<1>5. /\ Cardinality(Mappers(k)) \in Nat /\ Cardinality(Mappers(k)') \in Nat
      /\ Cardinality(Mappers(k)') =
           Cardinality(Mappers(k)) + (IF t \in Mappers(k)' THEN 1 ELSE 0)
                                   - (IF t \in Mappers(k) THEN 1 ELSE 0)
  BY <1>0, <1>2, CountDelta
<1>6. /\ Cardinality(Counted) \in Nat /\ Cardinality(Counted') \in Nat
      /\ Cardinality(Counted') =
           Cardinality(Counted) + (IF t \in Counted' THEN 1 ELSE 0)
                                - (IF t \in Counted THEN 1 ELSE 0)
  BY <1>0, <1>3, CountDelta
<1> QED BY <1>4, <1>5, <1>6

(* A flag of one buffer changes.                                            *)
LEMMA FlagSet ==
  ASSUME NEW r \in Buffer, NEW b \in BOOLEAN
  PROVE  [r EXCEPT !.mm = b] \in Buffer /\ [r EXCEPT !.releaseFrees = b] \in Buffer
<1>1. [r EXCEPT !.mm = b] \in Buffer BY DEF Buffer
<1>2. [r EXCEPT !.releaseFrees = b] \in Buffer BY DEF Buffer
<1> QED BY <1>1, <1>2

(* A step that updates one buffer leaves the others alone.                  *)
LEMMA OneBuffer ==
  ASSUME TypeOK, NEW k \in Cookies, NEW r \in Buffer, buf' = [buf EXCEPT ![k] = r]
  PROVE  OnlyTouches(k) /\ buf'[k] = r
BY DEF TypeOK, OnlyTouches, Buffers, Buffer

(* What Goto does.                                                          *)
LEMMA Went ==
  ASSUME TypeOK, NEW t \in Threads, NEW p \in PCs, Goto(t, p)
  PROVE  OnlyMoves(t) /\ th'[t].k = th[t].k /\ th'[t].pc = p
BY DEF TypeOK, Goto, OnlyMoves

(* Whoever owns a reference, or a mapping, is counted.                      *)
LEMMA OwnersCounted ==
  ASSUME TypeOK, NEW k \in Cookies, BufInv(k), NEW t \in Threads
  PROVE  /\ t \in Referrers(k) => buf[k].refc > 0 /\ buf[k].listed
         /\ t \in Mappers(k) => buf[k].mapcount > 0
<1>0. IsFiniteSet(Threads) BY DynShmAssumption
<1>1. ASSUME t \in Referrers(k) PROVE buf[k].refc > 0 /\ buf[k].listed
  <2>1. Referrers(k) \in SUBSET Threads BY DEF Referrers
  <2>2. Cardinality(Referrers(k)) \in Nat /\ Cardinality(Referrers(k)) > 0
    BY <1>0, <1>1, <2>1, CountPositive
  <2>3. buf[k].refc > 0 BY <2>2 DEF BufInv, RefsExact, Registered
  <2> QED BY <2>3 DEF BufInv, Gone, Unlisted
<1>2. ASSUME t \in Mappers(k) PROVE buf[k].mapcount > 0
  <2>1. Mappers(k) \in SUBSET Threads BY DEF Mappers
  <2>2. Cardinality(Mappers(k)) \in Nat /\ Cardinality(Mappers(k)) > 0
    BY <1>0, <1>2, <2>1, CountPositive
  <2> QED BY <2>2 DEF BufInv, MapsCounted, TypeOK
<1> QED BY <1>1, <1>2

----------------------------------------------------------------------------
(* Every step keeps the invariant.                                          *)

(* A thread that is not in the waiter's loop, and does not enter it, leaves *)
(* the count of waiters alone.                                              *)
LEMMA SleepersKept ==
  ASSUME SleepersCounted, NEW t \in Threads, OnlyMoves(t),
         th[t].pc \notin {"check", "wait", "wake"},
         th'[t].pc \notin {"check", "wait", "wake"},
         waiters' = waiters, asleep' = asleep
  PROVE  SleepersCounted'
<1>1. \A u : u \in Counted' <=> u \in Counted BY DEF Counted, OnlyMoves
<1>2. Counted' = Counted BY <1>1, Zenon
<1>3. \A u : u \in {v \in Threads : th[v].pc = "wait"}' <=>
             u \in {v \in Threads : th[v].pc = "wait"}
  BY DEF OnlyMoves
<1>4. {v \in Threads : th[v].pc = "wait"}' = {v \in Threads : th[v].pc = "wait"}
  BY <1>3, Zenon
<1> QED BY <1>2, <1>4 DEF SleepersCounted

(* What is left to show of a step of thread t on buffer k.                  *)
LEMMA StepInv ==
  ASSUME IInv, NEW t \in Threads, NEW k \in Cookies, OnlyMoves(t), OnlyTouches(k),
         th[t].pc = "idle" \/ th[t].k = k, th'[t].pc = "idle" \/ th'[t].k = k,
         BufInv(k)', SleepersCounted',
         mu' \in Threads \cup {NoOne}, panicked' \in BOOLEAN
  PROVE  IInv'
<1>1. \A j \in Cookies : BufInv(j)'
  <2> SUFFICES ASSUME NEW j \in Cookies, j # k PROVE BufInv(j)' OBVIOUS
  <2> QED BY OthersKept DEF IInv, OnlyMoves, OnlyTouches
<1>2. waiters' \in 0 .. Cardinality(Threads) /\ asleep' \subseteq Threads
  <2>1. Counted' \subseteq Threads BY DEF Counted
  <2>2. /\ Cardinality(Counted') <= Cardinality(Threads)
        /\ Cardinality(Counted') \in Nat /\ Cardinality(Threads) \in Nat
    BY <2>1, FS_Subset, FS_CardinalityType, DynShmAssumption
  <2> QED BY <2>2 DEF SleepersCounted
<1>3. TypeOK' BY <1>2 DEF TypeOK, OnlyMoves, OnlyTouches, Buffers, Buffer
<1> QED BY <1>1, <1>3 DEF IInv

(* A registration starts with its own reference and nothing else.           *)
(* A registration starts with its own reference and nothing else.           *)
(* A registration starts with its own reference and nothing else.           *)
(* A registration starts with its own reference and nothing else.           *)
(* A registration starts with its own reference and nothing else.           *)
(* A registration starts with its own reference and nothing else.           *)
LEMMA AllocInv ==
  ASSUME IInv, NEW t \in Threads, NEW k \in Cookies, Alloc(t, k)
  PROVE  IInv'
<1>1. /\ TypeOK /\ SleepersCounted /\ BufInv(k)
      /\ buf[k].refc \in Nat /\ buf[k].mapcount \in Nat
  BY DEF IInv, TypeOK
<1>2. OnlyMoves(t)
      /\ th[t].pc = "idle" /\ th'[t].pc \in {"register", "got"} /\ th'[t].k = k
  BY <1>1 DEF Alloc, TypeOK, OnlyMoves, PCs, Holding, Releasing
<1>3. /\ t \notin Referrers(k) /\ t \in Referrers(k)'
      /\ t \notin Mappers(k) /\ t \notin Mappers(k)'
  BY <1>1, <1>2 DEF Referrers, Mappers
<1>5. OnlyTouches(k)
  BY <1>1, <1>2 DEF Alloc, TypeOK, OnlyTouches, Buffers, Buffer, Unlisted
<1>6. /\ ~buf[k].listed
      /\ buf'[k].listed /\ buf'[k].refc = 1 /\ buf'[k].mapcount = 0 /\ ~buf'[k].mm
      /\ buf'[k].guarded /\ ~buf'[k].releasing /\ ~buf'[k].releaseFrees
  BY <1>1, <1>2 DEF Alloc, TypeOK, Unlisted
<1>7. BufInv(k)'
  <2>1. RefsExact(k)'
    BY <1>1, <1>2, <1>3, <1>6, CountsFollow
    DEF OnlyMoves, BufInv, RefsExact, Registered, Gone, Unlisted, ReleasedOnce
  <2>2. MapsCounted(k)'
    BY <1>1, <1>2, <1>3, <1>6, CountsFollow
    DEF OnlyMoves, BufInv, MapsCounted, Gone, Unlisted
  <2>3. GuardedOnce(k)'
    BY <1>1, <1>2, <1>3, <1>6 DEF OnlyMoves, BufInv, GuardedOnce, Gone, Unlisted
  <2>4. FinishedOnce(k)'
    BY <1>1, <1>2, <1>3, <1>6 DEF OnlyMoves, BufInv, FinishedOnce, Finishing, ReleasedOnce
  <2>5. ReleasedOnce(k)'
    BY <1>1, <1>2, <1>3, <1>6 DEF OnlyMoves, BufInv, ReleasedOnce, Releasing, Gone, Unlisted
  <2>6. Gone(k)' /\ WakerComes(k)'
    BY <1>1, <1>2, <1>3, <1>6 DEF OnlyMoves, BufInv, Gone, WakerComes
  <2> QED BY <2>1, <2>2, <2>3, <2>4, <2>5, <2>6 DEF BufInv
<1>8. SleepersCounted' BY <1>1, <1>2, SleepersKept DEF Alloc
<1> QED BY <1>1, <1>2, <1>5, <1>7, <1>8, StepInv DEF Alloc, TypeOK

(* The reference of a registration stays when its call is done.             *)
LEMMA UnguardInv ==
  ASSUME IInv, NEW t \in Threads, NEW k \in Cookies, th[t].k = k, Unguard(t)
  PROVE  IInv'
<1>1. /\ TypeOK /\ SleepersCounted /\ BufInv(k)
      /\ buf[k].refc \in Nat /\ buf[k].mapcount \in Nat
  BY DEF IInv, TypeOK
<1>2. OnlyMoves(t) /\ th'[t].k = k
      /\ th[t].pc = "register" /\ th'[t].pc = "idle"
  BY <1>1, Went DEF Unguard, PCs, Holding, Releasing
<1>3. /\ t \in Referrers(k) /\ t \notin Referrers(k)'
      /\ t \notin Mappers(k) /\ t \notin Mappers(k)'
  BY <1>1, <1>2, OwnersCounted DEF Referrers, Mappers
<1>4. buf[k].refc > 0 /\ buf[k].listed
  BY <1>1, <1>3, OwnersCounted
<1>5. OnlyTouches(k)
  BY <1>1, <1>2, <1>4 DEF Unguard, TypeOK, OnlyTouches, Buffers, Buffer, Unlisted
<1>6. /\ buf'[k].listed = buf[k].listed /\ buf'[k].refc = buf[k].refc
      /\ buf'[k].mapcount = buf[k].mapcount /\ buf'[k].mm = buf[k].mm
      /\ buf'[k].releasing = buf[k].releasing /\ buf'[k].releaseFrees = buf[k].releaseFrees
      /\ ~buf'[k].guarded
  BY <1>1, <1>2, <1>4 DEF Unguard, TypeOK, Unlisted
<1>7. BufInv(k)'
  <2>1. RefsExact(k)'
    BY <1>1, <1>2, <1>3, <1>4, <1>6, CountsFollow
    DEF OnlyMoves, BufInv, RefsExact, Registered, Gone, Unlisted, ReleasedOnce, GuardedOnce
  <2>2. MapsCounted(k)'
    BY <1>1, <1>2, <1>3, <1>4, <1>6, CountsFollow
    DEF OnlyMoves, BufInv, MapsCounted, Gone, Unlisted
  <2>3. GuardedOnce(k)'
    <3>1. Referrers(k) \in SUBSET Threads /\ IsFiniteSet(Threads)
      BY DynShmAssumption DEF Referrers
    <3>2. Cardinality(Referrers(k)) = 1
      BY <1>1, <1>2, <1>3, <1>4, CountsFollow
      DEF OnlyMoves, BufInv, RefsExact, Registered, GuardedOnce
    <3>3. \A u \in Threads : u # t => u \notin Referrers(k) BY <1>3, <3>1, <3>2, CountOne
    <3>4. \A u \in Threads : ~(th'[u].k = k /\ th'[u].pc = "register")
      BY <1>2, <3>3 DEF OnlyMoves, Referrers
    <3> QED BY <1>6, <3>4 DEF GuardedOnce
  <2>4. FinishedOnce(k)'
    BY <1>1, <1>2, <1>3, <1>4, <1>6 DEF OnlyMoves, BufInv, FinishedOnce, Finishing, ReleasedOnce
  <2>5. ReleasedOnce(k)'
    BY <1>1, <1>2, <1>3, <1>4, <1>6 DEF OnlyMoves, BufInv, ReleasedOnce, Releasing
  <2>6. Gone(k)' /\ WakerComes(k)'
    BY <1>1, <1>2, <1>3, <1>4, <1>6 DEF OnlyMoves, BufInv, Gone, WakerComes
  <2> QED BY <2>1, <2>2, <2>3, <2>4, <2>5, <2>6 DEF BufInv
<1>8. SleepersCounted' BY <1>1, <1>2, SleepersKept DEF Unguard
<1> QED BY <1>1, <1>2, <1>5, <1>7, <1>8, StepInv DEF Unguard, TypeOK

(* A count above zero has a mapping.                                        *)
LEMMA IncMapInv ==
  ASSUME IInv, NEW t \in Threads, NEW k \in Cookies, th[t].k = k, IncMap(t)
  PROVE  IInv'
<1>1. /\ TypeOK /\ SleepersCounted /\ BufInv(k)
      /\ buf[k].refc \in Nat /\ buf[k].mapcount \in Nat
  BY DEF IInv, TypeOK
<1>0. \/ /\ buf[k].mapcount > 0 /\ Goto(t, "mapped") /\ th[t].pc = "got"
         /\ buf' = [buf EXCEPT ![k].mapcount = buf[k].mapcount + 1]
      \/ /\ ~(buf[k].mapcount > 0) /\ buf' = buf /\ Goto(t, "initmap") /\ th[t].pc = "got"
  BY DEF IncMap
<1>2. OnlyMoves(t) /\ th'[t].k = k
      /\ th[t].pc = "got" /\ th'[t].pc \in {"mapped", "initmap"}
  BY <1>1, <1>0, Went DEF PCs, Holding, Releasing
<1>3. /\ t \in Referrers(k) /\ t \in Referrers(k)' /\ t \notin Mappers(k)
      /\ th'[t].pc = "mapped" => t \in Mappers(k)'
      /\ th'[t].pc # "mapped" => t \notin Mappers(k)'
  BY <1>1, <1>2, OwnersCounted DEF Referrers, Mappers
<1>4. buf[k].refc > 0 /\ buf[k].listed
  BY <1>1, <1>3, OwnersCounted
<1>5. OnlyTouches(k)
  BY <1>1, <1>2, <1>4, <1>0 DEF TypeOK, OnlyTouches, Buffers, Buffer, Unlisted
<1>6. /\ buf'[k].listed = buf[k].listed /\ buf'[k].refc = buf[k].refc
      /\ buf'[k].mm = buf[k].mm /\ buf'[k].guarded = buf[k].guarded
      /\ buf'[k].releasing = buf[k].releasing /\ buf'[k].releaseFrees = buf[k].releaseFrees
      /\ \/ buf[k].mapcount > 0 /\ buf'[k].mapcount = buf[k].mapcount + 1 /\ th'[t].pc = "mapped"
         \/ buf'[k].mapcount = buf[k].mapcount /\ th'[t].pc = "initmap"
  <2>1. CASE buf[k].mapcount > 0
    <3>1. th'[t].pc = "mapped" BY <1>0, <1>1, <2>1, Went DEF PCs, Holding, Releasing
    <3> QED BY <1>0, <1>1, <2>1, <3>1 DEF TypeOK
  <2>2. CASE ~(buf[k].mapcount > 0)
    BY <1>0, <1>1, <2>2, Went DEF PCs, Holding, Releasing
  <2> QED BY <2>1, <2>2
<1>7. BufInv(k)'
  <2>1. RefsExact(k)'
    BY <1>1, <1>2, <1>3, <1>4, <1>6, CountsFollow
    DEF OnlyMoves, BufInv, RefsExact, Registered, Gone, Unlisted, ReleasedOnce
  <2>2. MapsCounted(k)'
    BY <1>1, <1>2, <1>3, <1>4, <1>6, CountsFollow
    DEF OnlyMoves, BufInv, MapsCounted, Gone, Unlisted
  <2>3. GuardedOnce(k)'
    BY <1>1, <1>2, <1>3, <1>4, <1>6 DEF OnlyMoves, BufInv, GuardedOnce
  <2>4. FinishedOnce(k)'
    BY <1>1, <1>2, <1>3, <1>4, <1>6 DEF OnlyMoves, BufInv, FinishedOnce, Finishing, ReleasedOnce
  <2>5. ReleasedOnce(k)'
    BY <1>1, <1>2, <1>3, <1>4, <1>6 DEF OnlyMoves, BufInv, ReleasedOnce, Releasing
  <2>6. Gone(k)' /\ WakerComes(k)'
    BY <1>1, <1>2, <1>3, <1>4, <1>6 DEF OnlyMoves, BufInv, Gone, WakerComes
  <2> QED BY <2>1, <2>2, <2>3, <2>4, <2>5, <2>6 DEF BufInv
<1>8. SleepersCounted' BY <1>1, <1>2, SleepersKept DEF IncMap
<1> QED BY <1>1, <1>2, <1>5, <1>7, <1>8, StepInv DEF IncMap, TypeOK

(* The first mapping is made under the lock.                                *)
LEMMA InitMapInv ==
  ASSUME IInv, NEW t \in Threads, NEW k \in Cookies, th[t].k = k, InitMap(t)
  PROVE  IInv'
<1>1. /\ TypeOK /\ SleepersCounted /\ BufInv(k)
      /\ buf[k].refc \in Nat /\ buf[k].mapcount \in Nat
  BY DEF IInv, TypeOK
<1>0. \/ /\ buf[k].mapcount > 0 /\ Goto(t, "got") /\ th[t].pc = "initmap"
         /\ buf' = buf
      \/ /\ ~(buf[k].mapcount > 0) /\ Goto(t, "mapped")
         /\ buf' = [buf EXCEPT ![k].mapcount = 1, ![k].mm = TRUE] /\ th[t].pc = "initmap"
  BY DEF InitMap
<1>2. OnlyMoves(t) /\ th'[t].k = k
      /\ th[t].pc = "initmap" /\ th'[t].pc \in {"mapped", "got"}
  BY <1>1, <1>0, Went DEF PCs, Holding, Releasing
<1>3. /\ t \in Referrers(k) /\ t \in Referrers(k)' /\ t \notin Mappers(k)
      /\ th'[t].pc = "mapped" => t \in Mappers(k)'
      /\ th'[t].pc # "mapped" => t \notin Mappers(k)'
  BY <1>1, <1>2, OwnersCounted DEF Referrers, Mappers
<1>4. buf[k].refc > 0 /\ buf[k].listed
  BY <1>1, <1>3, OwnersCounted
<1>5. OnlyTouches(k)
  BY <1>1, <1>2, <1>4, <1>0 DEF TypeOK, OnlyTouches, Buffers, Buffer, Unlisted
<1>6. /\ buf'[k].listed = buf[k].listed /\ buf'[k].refc = buf[k].refc
      /\ buf'[k].guarded = buf[k].guarded /\ buf'[k].releasing = buf[k].releasing
      /\ buf'[k].releaseFrees = buf[k].releaseFrees
      /\ \/ /\ buf[k].mapcount = 0 /\ buf'[k].mapcount = 1 /\ buf'[k].mm
            /\ th'[t].pc = "mapped"
         \/ /\ buf'[k].mapcount = buf[k].mapcount /\ buf'[k].mm = buf[k].mm
            /\ th'[t].pc = "got"
  <2>1. CASE buf[k].mapcount > 0
    BY <1>0, <1>1, <2>1, Went DEF PCs, Holding, Releasing
  <2>2. CASE ~(buf[k].mapcount > 0)
    <3>1. th'[t].pc = "mapped" BY <1>0, <1>1, <2>2, Went DEF PCs, Holding, Releasing
    <3> QED BY <1>0, <1>1, <2>2, <3>1 DEF TypeOK
  <2> QED BY <2>1, <2>2
<1>7. BufInv(k)'
  <2>1. RefsExact(k)'
    BY <1>1, <1>2, <1>3, <1>4, <1>6, CountsFollow
    DEF OnlyMoves, BufInv, RefsExact, Registered, Gone, Unlisted, ReleasedOnce
  <2>2. MapsCounted(k)'
    BY <1>1, <1>2, <1>3, <1>4, <1>6, CountsFollow
    DEF OnlyMoves, BufInv, MapsCounted, Gone, Unlisted
  <2>3. GuardedOnce(k)'
    BY <1>1, <1>2, <1>3, <1>4, <1>6 DEF OnlyMoves, BufInv, GuardedOnce
  <2>4. FinishedOnce(k)'
    BY <1>1, <1>2, <1>3, <1>4, <1>6 DEF OnlyMoves, BufInv, FinishedOnce, Finishing, ReleasedOnce
  <2>5. ReleasedOnce(k)'
    BY <1>1, <1>2, <1>3, <1>4, <1>6 DEF OnlyMoves, BufInv, ReleasedOnce, Releasing
  <2>6. Gone(k)' /\ WakerComes(k)'
    BY <1>1, <1>2, <1>3, <1>4, <1>6 DEF OnlyMoves, BufInv, Gone, WakerComes
  <2> QED BY <2>1, <2>2, <2>3, <2>4, <2>5, <2>6 DEF BufInv
<1>8. SleepersCounted' BY <1>1, <1>2, SleepersKept DEF InitMap
<1> QED BY <1>1, <1>2, <1>5, <1>7, <1>8, StepInv DEF InitMap, TypeOK

(* A mapping that fails is not counted.                                     *)
LEMMA MapFailsInv ==
  ASSUME IInv, NEW t \in Threads, NEW k \in Cookies, th[t].k = k, MapFails(t)
  PROVE  IInv'
<1>1. /\ TypeOK /\ SleepersCounted /\ BufInv(k)
      /\ buf[k].refc \in Nat /\ buf[k].mapcount \in Nat
  BY DEF IInv, TypeOK
<1>2. OnlyMoves(t) /\ th'[t].k = k
      /\ th[t].pc = "initmap" /\ th'[t].pc = "unmapped"
  BY <1>1, Went DEF MapFails, PCs, Holding, Releasing
<1>3. /\ t \in Referrers(k) /\ t \in Referrers(k)'
      /\ t \notin Mappers(k) /\ t \notin Mappers(k)'
  BY <1>1, <1>2, OwnersCounted DEF Referrers, Mappers
<1>4. buf[k].refc > 0 /\ buf[k].listed
  BY <1>1, <1>3, OwnersCounted
<1>5. OnlyTouches(k)
  BY <1>1, <1>2, <1>4 DEF MapFails, TypeOK, OnlyTouches, Buffers, Buffer, Unlisted
<1>6. /\ buf'[k].listed = buf[k].listed /\ buf'[k].refc = buf[k].refc
      /\ buf'[k].mapcount = buf[k].mapcount /\ buf'[k].mm = buf[k].mm
      /\ buf'[k].guarded = buf[k].guarded /\ buf'[k].releasing = buf[k].releasing
      /\ buf'[k].releaseFrees = buf[k].releaseFrees
  BY <1>1, <1>2, <1>4 DEF MapFails, TypeOK, Unlisted
<1>7. BufInv(k)'
  <2>1. RefsExact(k)'
    BY <1>1, <1>2, <1>3, <1>4, <1>6, CountsFollow
    DEF OnlyMoves, BufInv, RefsExact, Registered, Gone, Unlisted, ReleasedOnce
  <2>2. MapsCounted(k)'
    BY <1>1, <1>2, <1>3, <1>4, <1>6, CountsFollow
    DEF OnlyMoves, BufInv, MapsCounted, Gone, Unlisted
  <2>3. GuardedOnce(k)'
    BY <1>1, <1>2, <1>3, <1>4, <1>6 DEF OnlyMoves, BufInv, GuardedOnce
  <2>4. FinishedOnce(k)'
    BY <1>1, <1>2, <1>3, <1>4, <1>6 DEF OnlyMoves, BufInv, FinishedOnce, Finishing, ReleasedOnce
  <2>5. ReleasedOnce(k)'
    BY <1>1, <1>2, <1>3, <1>4, <1>6 DEF OnlyMoves, BufInv, ReleasedOnce, Releasing
  <2>6. Gone(k)' /\ WakerComes(k)'
    BY <1>1, <1>2, <1>3, <1>4, <1>6 DEF OnlyMoves, BufInv, Gone, WakerComes
  <2> QED BY <2>1, <2>2, <2>3, <2>4, <2>5, <2>6 DEF BufInv
<1>8. SleepersCounted' BY <1>1, <1>2, SleepersKept DEF MapFails
<1> QED BY <1>1, <1>2, <1>5, <1>7, <1>8, StepInv DEF MapFails, TypeOK

(* The count goes down before the lock is taken.                            *)
LEMMA DecMapInv ==
  ASSUME IInv, NEW t \in Threads, NEW k \in Cookies, th[t].k = k, DecMap(t)
  PROVE  IInv'
<1>1. /\ TypeOK /\ SleepersCounted /\ BufInv(k)
      /\ buf[k].refc \in Nat /\ buf[k].mapcount \in Nat
  BY DEF IInv, TypeOK
<1>2. OnlyMoves(t) /\ th'[t].k = k
      /\ th[t].pc = "mapped" /\ th'[t].pc \in {"unmap", "unmapped"}
  BY <1>1, Went DEF DecMap, PCs, Holding, Releasing
<1>3. /\ t \in Referrers(k) /\ t \in Referrers(k)'
      /\ t \in Mappers(k) /\ t \notin Mappers(k)'
  BY <1>1, <1>2, OwnersCounted DEF Referrers, Mappers
<1>4. buf[k].refc > 0 /\ buf[k].listed /\ buf[k].mapcount > 0
  BY <1>1, <1>3, OwnersCounted
<1>5. OnlyTouches(k)
  BY <1>1, <1>2, <1>4 DEF DecMap, TypeOK, OnlyTouches, Buffers, Buffer, Unlisted
<1>6. /\ buf'[k].listed = buf[k].listed /\ buf'[k].refc = buf[k].refc
      /\ buf'[k].mm = buf[k].mm /\ buf'[k].guarded = buf[k].guarded
      /\ buf'[k].releasing = buf[k].releasing /\ buf'[k].releaseFrees = buf[k].releaseFrees
      /\ buf'[k].mapcount = buf[k].mapcount - 1
  BY <1>1, <1>2, <1>4 DEF DecMap, TypeOK, Unlisted
<1>7. BufInv(k)'
  <2>1. RefsExact(k)'
    BY <1>1, <1>2, <1>3, <1>4, <1>6, CountsFollow
    DEF OnlyMoves, BufInv, RefsExact, Registered, Gone, Unlisted, ReleasedOnce
  <2>2. MapsCounted(k)'
    BY <1>1, <1>2, <1>3, <1>4, <1>6, CountsFollow
    DEF OnlyMoves, BufInv, MapsCounted, Gone, Unlisted
  <2>3. GuardedOnce(k)'
    BY <1>1, <1>2, <1>3, <1>4, <1>6 DEF OnlyMoves, BufInv, GuardedOnce
  <2>4. FinishedOnce(k)'
    BY <1>1, <1>2, <1>3, <1>4, <1>6 DEF OnlyMoves, BufInv, FinishedOnce, Finishing, ReleasedOnce
  <2>5. ReleasedOnce(k)'
    BY <1>1, <1>2, <1>3, <1>4, <1>6 DEF OnlyMoves, BufInv, ReleasedOnce, Releasing
  <2>6. Gone(k)' /\ WakerComes(k)'
    BY <1>1, <1>2, <1>3, <1>4, <1>6 DEF OnlyMoves, BufInv, Gone, WakerComes
  <2> QED BY <2>1, <2>2, <2>3, <2>4, <2>5, <2>6 DEF BufInv
<1>8. SleepersCounted' BY <1>1, <1>2, SleepersKept DEF DecMap
<1> QED BY <1>1, <1>2, <1>5, <1>7, <1>8, StepInv DEF DecMap, TypeOK

(* The mapping goes only when nobody counts on it.                          *)
LEMMA UnmapInv ==
  ASSUME IInv, NEW t \in Threads, NEW k \in Cookies, th[t].k = k, Unmap(t)
  PROVE  IInv'
<1>1. /\ TypeOK /\ SleepersCounted /\ BufInv(k)
      /\ buf[k].refc \in Nat /\ buf[k].mapcount \in Nat
  BY DEF IInv, TypeOK
<1>a. \/ buf' = [buf EXCEPT ![k].mm = TRUE]
      \/ buf' = [buf EXCEPT ![k].mm = FALSE] /\ ~(buf[k].mm /\ buf[k].mapcount > 0)
  <2> DEFINE b == buf[k].mm /\ buf[k].mapcount > 0
  <2>1. CASE b BY <2>1 DEF Unmap
  <2>2. CASE ~b
    <3>1. b = FALSE BY <2>2
    <3>2. buf' = [buf EXCEPT ![k].mm = b] BY DEF Unmap
    <3> QED BY <2>2, <3>1, <3>2
  <2> QED BY <2>1, <2>2
<1>0. Goto(t, "unmapped") /\ th[t].pc = "unmap" BY DEF Unmap
<1>2. OnlyMoves(t) /\ th'[t].k = k
      /\ th[t].pc = "unmap" /\ th'[t].pc = "unmapped"
  BY <1>1, <1>0, Went DEF PCs, Holding, Releasing
<1>3. /\ t \in Referrers(k) /\ t \in Referrers(k)'
      /\ t \notin Mappers(k) /\ t \notin Mappers(k)'
  BY <1>1, <1>2, OwnersCounted DEF Referrers, Mappers
<1>4. buf[k].refc > 0 /\ buf[k].listed
  BY <1>1, <1>3, OwnersCounted
<1>5. OnlyTouches(k)
  <2>1. buf[k] \in Buffer BY <1>1 DEF TypeOK, Buffer
  <2>2. [buf[k] EXCEPT !.mm = TRUE] \in Buffer /\ [buf[k] EXCEPT !.mm = FALSE] \in Buffer
    BY <2>1, FlagSet
  <2> QED BY <1>1, <1>a, <2>2, OneBuffer
<1>6. /\ buf'[k].listed = buf[k].listed /\ buf'[k].refc = buf[k].refc
      /\ buf'[k].mapcount = buf[k].mapcount /\ buf'[k].guarded = buf[k].guarded
      /\ buf'[k].releasing = buf[k].releasing /\ buf'[k].releaseFrees = buf[k].releaseFrees
      /\ buf[k].mm /\ buf[k].mapcount > 0 => buf'[k].mm
  BY <1>1, <1>a DEF TypeOK
<1>7. BufInv(k)'
  <2>1. RefsExact(k)'
    BY <1>1, <1>2, <1>3, <1>4, <1>6, CountsFollow
    DEF OnlyMoves, BufInv, RefsExact, Registered, Gone, Unlisted, ReleasedOnce
  <2>2. MapsCounted(k)'
    BY <1>1, <1>2, <1>3, <1>4, <1>6, CountsFollow
    DEF OnlyMoves, BufInv, MapsCounted, Gone, Unlisted
  <2>3. GuardedOnce(k)'
    BY <1>1, <1>2, <1>3, <1>4, <1>6 DEF OnlyMoves, BufInv, GuardedOnce
  <2>4. FinishedOnce(k)'
    BY <1>1, <1>2, <1>3, <1>4, <1>6 DEF OnlyMoves, BufInv, FinishedOnce, Finishing, ReleasedOnce
  <2>5. ReleasedOnce(k)'
    BY <1>1, <1>2, <1>3, <1>4, <1>6 DEF OnlyMoves, BufInv, ReleasedOnce, Releasing
  <2>6. Gone(k)' /\ WakerComes(k)'
    BY <1>1, <1>2, <1>3, <1>4, <1>6 DEF OnlyMoves, BufInv, Gone, WakerComes
  <2> QED BY <2>1, <2>2, <2>3, <2>4, <2>5, <2>6 DEF BufInv
<1>8. SleepersCounted' BY <1>1, <1>2, SleepersKept DEF Unmap
<1> QED BY <1>1, <1>2, <1>5, <1>7, <1>8, StepInv DEF Unmap, TypeOK

(* The user that drops the last reference is the one that frees.            *)
LEMMA PutInv ==
  ASSUME IInv, NEW t \in Threads, NEW k \in Cookies, th[t].k = k, Put(t)
  PROVE  IInv'
<1>1. /\ TypeOK /\ SleepersCounted /\ BufInv(k)
      /\ buf[k].refc \in Nat /\ buf[k].mapcount \in Nat
  BY DEF IInv, TypeOK
<1>2. OnlyMoves(t) /\ th'[t].k = k
      /\ th[t].pc \in {"got", "unmapped", "mapped"} /\ th'[t].pc \in {"free", "idle"}
  BY <1>1, Went DEF Put, PCs, Holding, Releasing
<1>3. /\ t \in Referrers(k) /\ t \notin Referrers(k)' /\ t \notin Mappers(k)'
  BY <1>1, <1>2, OwnersCounted DEF Referrers, Mappers
<1>4. buf[k].refc > 0 /\ buf[k].listed
  BY <1>1, <1>3, OwnersCounted
<1>5. OnlyTouches(k)
  BY <1>1, <1>2, <1>4 DEF Put, TypeOK, OnlyTouches, Buffers, Buffer, Unlisted
<1>6. /\ buf'[k].listed = buf[k].listed /\ buf'[k].mapcount = buf[k].mapcount
      /\ buf'[k].mm = buf[k].mm /\ buf'[k].guarded = buf[k].guarded
      /\ buf'[k].releasing = buf[k].releasing /\ buf'[k].releaseFrees = buf[k].releaseFrees
      /\ /\ buf'[k].refc = buf[k].refc - 1
         /\ th'[t].pc = "free" <=> buf[k].refc = 1
  BY <1>1, <1>2, <1>4 DEF Put, TypeOK, Goto
<1>7. BufInv(k)'
  <2>1. RefsExact(k)'
    BY <1>1, <1>2, <1>3, <1>4, <1>6, CountsFollow
    DEF OnlyMoves, BufInv, RefsExact, Registered, Gone, Unlisted, ReleasedOnce
  <2>2. MapsCounted(k)'
    BY <1>1, <1>2, <1>3, <1>4, <1>6, CountsFollow
    DEF OnlyMoves, BufInv, MapsCounted, Gone, Unlisted
  <2>3. GuardedOnce(k)'
    BY <1>1, <1>2, <1>3, <1>4, <1>6 DEF OnlyMoves, BufInv, GuardedOnce
  <2>4. FinishedOnce(k)'
    BY <1>1, <1>2, <1>3, <1>4, <1>6 DEF OnlyMoves, BufInv, FinishedOnce, Finishing, ReleasedOnce
  <2>5. ReleasedOnce(k)'
    BY <1>1, <1>2, <1>3, <1>4, <1>6 DEF OnlyMoves, BufInv, ReleasedOnce, Releasing
  <2>6. Gone(k)' /\ WakerComes(k)'
    BY <1>1, <1>2, <1>3, <1>4, <1>6 DEF OnlyMoves, BufInv, Gone, WakerComes
  <2> QED BY <2>1, <2>2, <2>3, <2>4, <2>5, <2>6 DEF BufInv
<1>8. SleepersCounted' BY <1>1, <1>2, SleepersKept DEF Put
<1> QED BY <1>1, <1>2, <1>5, <1>7, <1>8, StepInv DEF Put, TypeOK

(* The reference of the registration is dropped once.                       *)
LEMMA DropInv ==
  ASSUME IInv, NEW t \in Threads, NEW k \in Cookies, th[t].k = k, Drop(t)
  PROVE  IInv'
<1>1. /\ TypeOK /\ SleepersCounted /\ BufInv(k)
      /\ buf[k].refc \in Nat /\ buf[k].mapcount \in Nat
  BY DEF IInv, TypeOK
<1>2. OnlyMoves(t) /\ th'[t].k = k
      /\ th[t].pc = "drop" /\ th'[t].pc \in {"lastdrop", "enter"}
  BY <1>1, Went DEF Drop, PCs, Holding, Releasing
<1>3. /\ t \in Referrers(k) /\ t \notin Referrers(k)'
      /\ t \notin Mappers(k) /\ t \notin Mappers(k)'
  BY <1>1, <1>2, OwnersCounted DEF Referrers, Mappers
<1>4. buf[k].refc > 0 /\ buf[k].listed
  BY <1>1, <1>3, OwnersCounted
<1>5. OnlyTouches(k)
  BY <1>1, <1>2, <1>4 DEF Drop, TypeOK, OnlyTouches, Buffers, Buffer, Unlisted
<1>6. /\ buf'[k].listed = buf[k].listed /\ buf'[k].mapcount = buf[k].mapcount
      /\ buf'[k].mm = buf[k].mm /\ buf'[k].guarded = buf[k].guarded
      /\ buf'[k].releasing = buf[k].releasing /\ buf'[k].releaseFrees = buf[k].releaseFrees
      /\ /\ buf'[k].refc = buf[k].refc - 1
         /\ th'[t].pc = "lastdrop" <=> buf[k].refc = 1
  BY <1>1, <1>2, <1>4 DEF Drop, TypeOK, Goto
<1>7. BufInv(k)'
  <2>1. RefsExact(k)'
    BY <1>1, <1>2, <1>3, <1>4, <1>6, CountsFollow
    DEF OnlyMoves, BufInv, RefsExact, Registered, Gone, Unlisted, ReleasedOnce
  <2>2. MapsCounted(k)'
    BY <1>1, <1>2, <1>3, <1>4, <1>6, CountsFollow
    DEF OnlyMoves, BufInv, MapsCounted, Gone, Unlisted
  <2>3. GuardedOnce(k)'
    BY <1>1, <1>2, <1>3, <1>4, <1>6 DEF OnlyMoves, BufInv, GuardedOnce
  <2>4. FinishedOnce(k)'
    BY <1>1, <1>2, <1>3, <1>4, <1>6 DEF OnlyMoves, BufInv, FinishedOnce, Finishing, ReleasedOnce
  <2>5. ReleasedOnce(k)'
    BY <1>1, <1>2, <1>3, <1>4, <1>6 DEF OnlyMoves, BufInv, ReleasedOnce, Releasing
  <2>6. Gone(k)' /\ WakerComes(k)'
    BY <1>1, <1>2, <1>3, <1>4, <1>6 DEF OnlyMoves, BufInv, Gone, WakerComes
  <2> QED BY <2>1, <2>2, <2>3, <2>4, <2>5, <2>6 DEF BufInv
<1>8. SleepersCounted' BY <1>1, <1>2, SleepersKept DEF Drop
<1> QED BY <1>1, <1>2, <1>5, <1>7, <1>8, StepInv DEF Drop, TypeOK

(* The reference of the registration passes to its releaser.                *)
LEMMA ReleaseInv ==
  ASSUME IInv, NEW t \in Threads, NEW k \in Cookies, Release(t, k)
  PROVE  IInv'
<1>1. /\ TypeOK /\ SleepersCounted /\ BufInv(k)
      /\ buf[k].refc \in Nat /\ buf[k].mapcount \in Nat
  BY DEF IInv, TypeOK
<1>2. OnlyMoves(t)
      /\ th[t].pc = "idle" /\ th'[t].pc = "drop" /\ th'[t].k = k
  BY <1>1 DEF Release, TypeOK, OnlyMoves, PCs, Holding, Releasing
<1>3. /\ t \notin Referrers(k) /\ t \in Referrers(k)'
      /\ t \notin Mappers(k) /\ t \notin Mappers(k)'
  BY <1>1, <1>2 DEF Referrers, Mappers
<1>5. OnlyTouches(k)
  BY <1>1, <1>2 DEF Release, TypeOK, OnlyTouches, Buffers, Buffer, Unlisted
<1>6. /\ buf'[k].listed = buf[k].listed /\ buf'[k].refc = buf[k].refc
      /\ buf'[k].mapcount = buf[k].mapcount /\ buf'[k].mm = buf[k].mm
      /\ buf'[k].guarded = buf[k].guarded /\ buf'[k].releaseFrees = buf[k].releaseFrees
      /\ buf'[k].releasing /\ ~buf[k].releasing /\ ~buf[k].guarded /\ buf[k].listed
  BY <1>1, <1>2 DEF Release, TypeOK, Unlisted
<1>7. BufInv(k)'
  <2>1. RefsExact(k)'
    BY <1>1, <1>2, <1>3, <1>6, CountsFollow
    DEF OnlyMoves, BufInv, RefsExact, Registered, Gone, Unlisted, ReleasedOnce
  <2>2. MapsCounted(k)'
    BY <1>1, <1>2, <1>3, <1>6, CountsFollow
    DEF OnlyMoves, BufInv, MapsCounted, Gone, Unlisted
  <2>3. GuardedOnce(k)'
    BY <1>1, <1>2, <1>3, <1>6 DEF OnlyMoves, BufInv, GuardedOnce, Gone, Unlisted
  <2>4. FinishedOnce(k)'
    BY <1>1, <1>2, <1>3, <1>6 DEF OnlyMoves, BufInv, FinishedOnce, Finishing, ReleasedOnce
  <2>5. ReleasedOnce(k)'
    BY <1>1, <1>2, <1>3, <1>6 DEF OnlyMoves, BufInv, ReleasedOnce, Releasing, Gone, Unlisted
  <2>6. Gone(k)' /\ WakerComes(k)'
    BY <1>1, <1>2, <1>3, <1>6 DEF OnlyMoves, BufInv, Gone, WakerComes
  <2> QED BY <2>1, <2>2, <2>3, <2>4, <2>5, <2>6 DEF BufInv
<1>8. SleepersCounted' BY <1>1, <1>2, SleepersKept DEF Release
<1> QED BY <1>1, <1>2, <1>5, <1>7, <1>8, StepInv DEF Release, TypeOK

(* A lookup finds a buffer that somebody still refers to, or panics.        *)
LEMMA GetByCookieInv ==
  ASSUME IInv, NEW t \in Threads, NEW k \in Cookies, GetByCookie(t, k)
  PROVE  IInv'
<1>1. /\ TypeOK /\ SleepersCounted /\ BufInv(k)
      /\ buf[k].refc \in Nat /\ buf[k].mapcount \in Nat
  BY DEF IInv, TypeOK
<1>2. CASE buf[k].refc = 0
  <2>1. UNCHANGED <<buf, th, mu, waiters, asleep>> /\ panicked' \in BOOLEAN
    BY <1>2 DEF GetByCookie
  <2>2. BufInv(k)' BY <1>1, <2>1 DEF BufInv, RefsExact, Referrers, Registered,
      MapsCounted, Mappers, GuardedOnce, FinishedOnce, ReleasedOnce, Gone, WakerComes
  <2>3. SleepersCounted' BY <1>1, <2>1 DEF SleepersCounted, Counted
  <2>4. OnlyMoves(t) /\ OnlyTouches(k) BY <1>1, <2>1 DEF OnlyMoves, OnlyTouches, TypeOK, Buffers, Buffer
  <2>5. th[t].pc = "idle" /\ th'[t].pc = "idle" BY <2>1 DEF GetByCookie
  <2> QED BY <1>1, <2>1, <2>2, <2>3, <2>4, <2>5, StepInv DEF TypeOK
<1>3. CASE buf[k].refc # 0
  <2>0. /\ th[t].pc = "idle" /\ th' = [th EXCEPT ![t] = [pc |-> "got", k |-> k]]
        /\ buf' = [buf EXCEPT ![k].refc = buf[k].refc + 1]
        /\ buf[k].listed /\ ~buf[k].guarded
    BY <1>3 DEF GetByCookie, Known
  <2>1. /\ OnlyMoves(t)
        /\ th[t].pc = "idle" /\ th'[t].pc = "got" /\ th'[t].k = k
    BY <1>1, <2>0 DEF TypeOK, OnlyMoves, PCs, Holding
  <2>2. OnlyTouches(k) BY <1>1, <2>0 DEF TypeOK, OnlyTouches, Buffers, Buffer
  <2>3. /\ buf'[k].listed = buf[k].listed /\ buf'[k].mapcount = buf[k].mapcount
        /\ buf'[k].mm = buf[k].mm /\ buf'[k].guarded = buf[k].guarded
        /\ buf'[k].releasing = buf[k].releasing /\ buf'[k].releaseFrees = buf[k].releaseFrees
        /\ buf'[k].refc = buf[k].refc + 1 /\ buf[k].listed /\ ~buf[k].guarded
    BY <1>1, <2>0 DEF TypeOK
  <2>4. /\ t \notin Referrers(k) /\ t \in Referrers(k)'
        /\ t \notin Mappers(k) /\ t \notin Mappers(k)'
    BY <2>1 DEF Referrers, Mappers
  <2>5. BufInv(k)'
    <3>1. RefsExact(k)'
      BY <1>1, <2>1, <2>3, <2>4, CountsFollow DEF OnlyMoves, BufInv, RefsExact, Registered
    <3>2. MapsCounted(k)'
      BY <1>1, <2>1, <2>3, <2>4, CountsFollow DEF OnlyMoves, BufInv, MapsCounted
    <3>3. GuardedOnce(k)'
      BY <1>1, <2>1, <2>3 DEF OnlyMoves, BufInv, GuardedOnce
    <3>4. FinishedOnce(k)'
      BY <1>1, <1>3, <2>1, <2>3 DEF OnlyMoves, BufInv, FinishedOnce, Finishing
    <3>5. ReleasedOnce(k)'
      BY <1>1, <1>3, <2>1, <2>3 DEF OnlyMoves, BufInv, ReleasedOnce, Releasing
    <3>6. Gone(k)' /\ WakerComes(k)'
      BY <1>1, <2>1, <2>3 DEF OnlyMoves, BufInv, Gone, WakerComes
    <3> QED BY <3>1, <3>2, <3>3, <3>4, <3>5, <3>6 DEF BufInv
  <2>6. SleepersCounted' BY <1>1, <2>1, SleepersKept DEF GetByCookie
  <2>7. mu' = mu /\ panicked' = panicked BY <1>3 DEF GetByCookie
  <2> QED BY <1>1, <2>1, <2>2, <2>5, <2>6, <2>7, StepInv DEF TypeOK
<1> QED BY <1>2, <1>3

(* The thread that found the count at zero frees a guarded buffer, or tells *)
(* the thread that unregisters it to do so.                                 *)
LEMMA FreeInv ==
  ASSUME IInv, NEW t \in Threads, NEW k \in Cookies, th[t].k = k, Free(t)
  PROVE  IInv'
<1>1. /\ TypeOK /\ SleepersCounted /\ BufInv(k)
      /\ buf[k].refc \in Nat /\ buf[k].mapcount \in Nat
  BY DEF IInv, TypeOK
<1>2. th[t].pc \in Finishing BY DEF Free, Finishing
<1>3. /\ buf[k].listed /\ buf[k].refc = 0 /\ ~buf[k].releaseFrees
      /\ \A u \in Threads : th[u].k = k /\ th[u].pc \in Finishing => u = t
  BY <1>1, <1>2 DEF BufInv, FinishedOnce
<1>4. /\ Referrers(k) = {} /\ Registered(k) = 0
  <2>1. Registered(k) \in {0, 1} /\ \A u \in Threads : u \notin Referrers(k)
    BY <1>1, <1>3, OwnersCounted DEF Registered
  <2>2. Referrers(k) = {} BY <2>1 DEF Referrers
  <2>3. Cardinality(Referrers(k)) = 0 BY <2>2, FS_EmptySet
  <2> QED BY <1>1, <1>3, <2>1, <2>2, <2>3 DEF BufInv, RefsExact
<1>5. CASE buf[k].guarded /\ ~buf[k].releasing
  <2>1. /\ OnlyMoves(t) /\ th'[t].pc = "idle"
    BY <1>1, <1>5, Went DEF Free, PCs
  <2>2. buf' = [buf EXCEPT ![k] = Unlisted]
    BY <1>1, <1>5 DEF Free, Freed, TypeOK
  <2>3. OnlyTouches(k) /\ buf'[k] = Unlisted
    BY <1>1, <2>2 DEF TypeOK, OnlyTouches, Buffers, Buffer, Unlisted
  <2>4. \A u \in Threads : th'[u].k = k => th'[u].pc \notin Releasing \cup Finishing
    BY <1>1, <1>3, <1>5, <2>1 DEF OnlyMoves, BufInv, ReleasedOnce, Finishing, Releasing
  <2>5. Referrers(k)' = {}
    <3>1. \A u \in Threads : u \notin Referrers(k)'
      BY <1>4, <2>1 DEF OnlyMoves, Referrers
    <3> QED BY <3>1 DEF Referrers
  <2>6. Mappers(k)' = {}
    <3>1. \A u \in Threads : u \notin Mappers(k)' BY <2>5 DEF Mappers, Referrers
    <3> QED BY <3>1 DEF Mappers
  <2>7. Cardinality(Referrers(k)') = 0 /\ Cardinality(Mappers(k)') = 0
    BY <2>5, <2>6, FS_EmptySet
  <2>8. RefsExact(k)' /\ MapsCounted(k)'
    BY <2>3, <2>7 DEF RefsExact, Registered, MapsCounted, Unlisted
  <2>9. GuardedOnce(k)' BY <2>3, <2>5 DEF GuardedOnce, Unlisted, Referrers
  <2>10. FinishedOnce(k)' /\ ReleasedOnce(k)' /\ Gone(k)' /\ WakerComes(k)'
    BY <2>3, <2>4 DEF FinishedOnce, ReleasedOnce, Gone, WakerComes, Unlisted
  <2>11. BufInv(k)' BY <2>8, <2>9, <2>10 DEF BufInv
  <2>12. SleepersCounted' BY <1>1, <1>2, <2>1, SleepersKept DEF Free, Finishing
  <2> QED BY <1>1, <2>1, <2>3, <2>11, <2>12, StepInv DEF TypeOK, Free
<1>6. CASE ~(buf[k].guarded /\ ~buf[k].releasing)
  <2>1. /\ OnlyMoves(t) /\ th'[t].k = k
        /\ th'[t].pc \in {"broadcast", "notify"}
        /\ th'[t].pc = "notify" => th[t].pc = "lastdrop"
    BY <1>1, <1>6, Went DEF Free, PCs, Releasing
  <2>2. buf' = [buf EXCEPT ![k] = [buf[k] EXCEPT !.releaseFrees = TRUE]]
    BY <1>6 DEF Free, Freed
  <2>3. OnlyTouches(k)
    <3>1. buf[k] \in Buffer BY <1>1 DEF TypeOK, Buffer
    <3>2. [buf[k] EXCEPT !.releaseFrees = TRUE] \in Buffer BY <3>1, FlagSet
    <3> QED BY <1>1, <2>2, <3>2, OneBuffer
  <2>4. /\ buf'[k].listed = buf[k].listed /\ buf'[k].mapcount = buf[k].mapcount
        /\ buf'[k].mm = buf[k].mm /\ buf'[k].guarded = buf[k].guarded
        /\ buf'[k].releasing = buf[k].releasing /\ buf'[k].releaseFrees
        /\ buf'[k].refc = buf[k].refc
    BY <1>1, <2>2 DEF TypeOK
  <2>5. buf[k].releasing /\ ~buf[k].guarded
    BY <1>1, <1>3, <1>4, <1>6 DEF Registered, BufInv, ReleasedOnce
  <2>6. /\ t \notin Referrers(k) /\ t \notin Referrers(k)'
        /\ t \notin Mappers(k) /\ t \notin Mappers(k)'
    BY <1>2, <2>1 DEF Referrers, Mappers, Finishing
  <2>7. RefsExact(k)' /\ MapsCounted(k)'
    BY <1>1, <2>1, <2>4, <2>6, CountsFollow
    DEF OnlyMoves, BufInv, RefsExact, Registered, MapsCounted
  <2>8. GuardedOnce(k)' BY <1>1, <2>1, <2>4 DEF OnlyMoves, BufInv, GuardedOnce
  <2>9. FinishedOnce(k)' BY <1>3, <2>1 DEF OnlyMoves, FinishedOnce, Finishing
  <2>10. ReleasedOnce(k)'
    BY <1>1, <1>3, <2>1, <2>4, <2>5 DEF OnlyMoves, BufInv, ReleasedOnce, Releasing
  <2>11. Gone(k)' /\ WakerComes(k)' BY <1>3, <2>1, <2>4 DEF Gone, WakerComes
  <2>12. BufInv(k)' BY <2>7, <2>8, <2>9, <2>10, <2>11 DEF BufInv
  <2>13. SleepersCounted' BY <1>1, <1>2, <2>1, SleepersKept DEF Free, Finishing
  <2> QED BY <1>1, <2>1, <2>3, <2>12, <2>13, StepInv DEF TypeOK, Free
<1> QED BY <1>5, <1>6

(* A broadcast wakes every sleeper, which stays on its buffer.              *)
LEMMA NotifyInv ==
  ASSUME IInv, NEW t \in Threads, Notify(t)
  PROVE  IInv'
<1>1. TypeOK /\ SleepersCounted /\ \A k \in Cookies : BufInv(k) BY DEF IInv
<1>2. /\ th[t].pc \in {"broadcast", "notify"}
      /\ buf' = buf /\ mu' = mu /\ waiters' = waiters /\ panicked' = panicked
      /\ asleep' = {}
  <2>1. CASE waiters > 0 BY <2>1 DEF Notify
  <2>2. CASE ~(waiters > 0)
    <3>1. waiters = 0 BY <1>1, <2>2 DEF TypeOK
    <3>2. Counted \in SUBSET Threads /\ IsFiniteSet(Threads)
      BY DynShmAssumption DEF Counted
    <3>3. ASSUME NEW u \in Counted PROVE FALSE
      <4>1. Cardinality(Counted) > 0 BY <3>2, CountPositive
      <4> QED BY <1>1, <3>1, <4>1 DEF SleepersCounted
    <3>4. \A u : u \notin asleep BY <1>1, <3>3 DEF SleepersCounted, Counted
    <3>5. asleep = {} BY <3>4
    <3> QED BY <2>2, <3>5 DEF Notify
  <2> QED BY <2>1, <2>2
<1>3. \A u \in Threads :
        /\ th'[u].k = th[u].k
        /\ u # t => \/ th'[u] = th[u] /\ th[u].pc # "wait"
                    \/ th[u].pc = "wait" /\ th'[u].pc = "wake"
  <2> TAKE u \in Threads
  <2>1. th[u].pc = "wait" <=> u \in asleep BY <1>1 DEF SleepersCounted
  <2>2. u \in asleep => waiters > 0
    <3>1. Counted \in SUBSET Threads /\ IsFiniteSet(Threads)
      BY DynShmAssumption DEF Counted
    <3>2. u \in asleep => u \in Counted BY <2>1 DEF Counted
    <3> QED BY <1>1, <3>1, <3>2, CountPositive DEF SleepersCounted
  <2> QED BY <1>1, <2>1, <2>2 DEF Notify, TypeOK
<1>4. \/ th[t].pc = "broadcast" /\ th'[t].pc = "idle"
      \/ th[t].pc = "notify" /\ th'[t].pc = "enter"
  BY <1>1, <1>2 DEF Notify, TypeOK
<1>5. th' \in [Threads -> [pc : PCs, k : Cookies]]
  BY <1>1 DEF Notify, TypeOK, PCs, Releasing
<1>6. ASSUME NEW k \in Cookies PROVE BufInv(k)'
  <2>1. BufInv(k) BY <1>1
  <2>2. Referrers(k)' = Referrers(k) /\ Mappers(k)' = Mappers(k)
    <3>1. \A u : u \in Referrers(k)' <=> u \in Referrers(k) BY <1>3, <1>4 DEF Referrers
    <3>2. \A u : u \in Mappers(k)' <=> u \in Mappers(k) BY <1>3, <1>4 DEF Mappers
    <3> QED BY <3>1, <3>2, Zenon
  <2>3. RefsExact(k)' BY <1>2, <2>1, <2>2 DEF BufInv, RefsExact, Registered
  <2>4. MapsCounted(k)' BY <1>2, <2>1, <2>2 DEF BufInv, MapsCounted
  <2>5. GuardedOnce(k)' BY <1>2, <1>3, <1>4, <2>1 DEF BufInv, GuardedOnce
  <2>6. FinishedOnce(k)' BY <1>2, <1>3, <1>4, <2>1 DEF BufInv, FinishedOnce, Finishing
  <2>7. ReleasedOnce(k)' BY <1>2, <1>3, <1>4, <2>1 DEF BufInv, ReleasedOnce, Releasing
  <2>8. Gone(k)' BY <1>2, <2>1 DEF BufInv, Gone
  <2>9. WakerComes(k)' BY <1>3, <1>4 DEF WakerComes
  <2> QED BY <2>3, <2>4, <2>5, <2>6, <2>7, <2>8, <2>9 DEF BufInv
<1>7. SleepersCounted'
  <2>1. \A u : u \in Counted' <=> u \in Counted BY <1>3, <1>4 DEF Counted
  <2>2. Counted' = Counted BY <2>1, Zenon
  <2>3. \A u \in Threads : th'[u].pc # "wait" BY <1>3, <1>4
  <2>4. {u \in Threads : th'[u].pc = "wait"} = {} BY <2>3
  <2> QED BY <1>1, <1>2, <2>2, <2>4 DEF SleepersCounted
<1>8. TypeOK' BY <1>1, <1>2, <1>5 DEF TypeOK
<1> QED BY <1>6, <1>7, <1>8 DEF IInv

(* A thread that enters the waiter's loop is counted before it looks.       *)
LEMMA EnterInv ==
  ASSUME IInv, NEW t \in Threads, NEW k \in Cookies, th[t].k = k, Enter(t)
  PROVE  IInv'
<1>1. TypeOK /\ SleepersCounted /\ BufInv(k) BY DEF IInv
<1>2. /\ OnlyMoves(t) /\ th'[t].k = k
      /\ th[t].pc \in {"enter", "wake"} /\ th'[t].pc = "check"
  BY <1>1, Went DEF Enter, PCs, Releasing
<1>3. buf' = buf /\ OnlyTouches(k) BY <1>1 DEF Enter, OnlyTouches, TypeOK, Buffers, Buffer
<1>4. BufInv(k)'
  <2>1. /\ t \notin Referrers(k) /\ t \notin Referrers(k)'
        /\ t \notin Mappers(k) /\ t \notin Mappers(k)'
    BY <1>2 DEF Referrers, Mappers
  <2>2. RefsExact(k)' /\ MapsCounted(k)'
    BY <1>1, <1>2, <1>3, <2>1, CountsFollow
    DEF OnlyMoves, BufInv, RefsExact, Registered, MapsCounted
  <2>3. GuardedOnce(k)' BY <1>1, <1>2, <1>3 DEF OnlyMoves, BufInv, GuardedOnce
  <2>4. FinishedOnce(k)' BY <1>1, <1>2, <1>3 DEF OnlyMoves, BufInv, FinishedOnce, Finishing
  <2>5. ReleasedOnce(k)' BY <1>1, <1>2, <1>3 DEF OnlyMoves, BufInv, ReleasedOnce, Releasing
  <2>6. Gone(k)' /\ WakerComes(k)'
    BY <1>1, <1>2, <1>3 DEF OnlyMoves, BufInv, Gone, WakerComes
  <2> QED BY <2>2, <2>3, <2>4, <2>5, <2>6 DEF BufInv
<1>5. SleepersCounted'
  <2>1. t \in Counted' /\ (t \in Counted <=> th[t].pc = "wake") BY <1>2 DEF Counted
  <2>2. waiters' = Cardinality(Counted')
    BY <1>1, <1>2, <2>1, CountsFollow DEF OnlyMoves, SleepersCounted, Enter
  <2>3. \A u : u \in {v \in Threads : th[v].pc = "wait"}' <=>
               u \in {v \in Threads : th[v].pc = "wait"}
    BY <1>2 DEF OnlyMoves
  <2>4. {v \in Threads : th[v].pc = "wait"}' = {v \in Threads : th[v].pc = "wait"}
    BY <2>3, Zenon
  <2> QED BY <1>1, <2>2, <2>4 DEF SleepersCounted, Enter
<1> QED BY <1>1, <1>2, <1>3, <1>4, <1>5, StepInv DEF TypeOK, Enter

(* The waiter frees the buffer when nobody uses it, or sleeps.              *)
LEMMA CheckInv ==
  ASSUME IInv, NEW t \in Threads, NEW k \in Cookies, th[t].k = k, Check(t)
  PROVE  IInv'
<1>1. TypeOK /\ SleepersCounted /\ BufInv(k) BY DEF IInv
<1>2. th[t].pc = "check" /\ mu' = NoOne /\ panicked' = panicked BY DEF Check
<1>3. t \in Counted BY <1>2 DEF Counted
<1>4. CASE buf[k].releaseFrees
  <2>1. OnlyMoves(t) /\ th'[t].pc = "idle" BY <1>1, <1>4, Went DEF Check, PCs
  <2>2. buf' = [buf EXCEPT ![k] = Unlisted] /\ waiters' = waiters - 1 /\ asleep' = asleep
    BY <1>4 DEF Check
  <2>3. OnlyTouches(k) /\ buf'[k] = Unlisted
    BY <1>1, <2>2 DEF TypeOK, OnlyTouches, Buffers, Buffer, Unlisted
  <2>4. buf[k].refc = 0 BY <1>1, <1>4 DEF BufInv, ReleasedOnce
  <2>5. \A u \in Threads : u \notin Referrers(k) BY <1>1, <2>4, OwnersCounted
  <2>6. \A u \in Threads : th'[u].k = k => th'[u].pc \notin Releasing \cup Finishing
    BY <1>1, <1>2, <1>4, <2>1
    DEF OnlyMoves, BufInv, ReleasedOnce, FinishedOnce, Finishing, Releasing
  <2>7. Referrers(k)' = {}
    <3>1. \A u \in Threads : u \notin Referrers(k)'
      BY <2>5, <2>1 DEF OnlyMoves, Referrers
    <3> QED BY <3>1 DEF Referrers
  <2>8. Mappers(k)' = {}
    <3>1. \A u \in Threads : u \notin Mappers(k)' BY <2>7 DEF Mappers, Referrers
    <3> QED BY <3>1 DEF Mappers
  <2>9. Cardinality(Referrers(k)') = 0 /\ Cardinality(Mappers(k)') = 0
    BY <2>7, <2>8, FS_EmptySet
  <2>10. RefsExact(k)' /\ MapsCounted(k)'
    BY <2>3, <2>9 DEF RefsExact, Registered, MapsCounted, Unlisted
  <2>11. GuardedOnce(k)' BY <2>3, <2>7 DEF GuardedOnce, Unlisted, Referrers
  <2>12. FinishedOnce(k)' /\ ReleasedOnce(k)' /\ Gone(k)' /\ WakerComes(k)'
    BY <2>3, <2>6 DEF FinishedOnce, ReleasedOnce, Gone, WakerComes, Unlisted
  <2>13. BufInv(k)' BY <2>10, <2>11, <2>12 DEF BufInv
  <2>14. SleepersCounted'
    <3>1. waiters' = Cardinality(Counted')
      <4>1. t \notin Counted' BY <2>1 DEF Counted
      <4> QED BY <1>1, <1>3, <2>1, <2>2, <4>1, CountsFollow DEF OnlyMoves, SleepersCounted
    <3>2. \A u : u \in {v \in Threads : th[v].pc = "wait"}' <=>
                 u \in {v \in Threads : th[v].pc = "wait"}
      BY <1>2, <2>1 DEF OnlyMoves
    <3>3. {v \in Threads : th[v].pc = "wait"}' = {v \in Threads : th[v].pc = "wait"}
      BY <3>2, Zenon
    <3> QED BY <1>1, <2>2, <3>1, <3>3 DEF SleepersCounted
  <2> QED BY <1>1, <1>2, <2>1, <2>3, <2>13, <2>14, StepInv DEF TypeOK
<1>5. CASE ~buf[k].releaseFrees
  <2>1. OnlyMoves(t) /\ th'[t].pc = "wait" /\ th'[t].k = k
    BY <1>1, <1>5, Went DEF Check, PCs, Releasing
  <2>2. buf' = buf /\ waiters' = waiters /\ asleep' = asleep \cup {t} BY <1>5 DEF Check
  <2>3. OnlyTouches(k) BY <1>1, <2>2 DEF TypeOK, OnlyTouches, Buffers, Buffer
  <2>4. /\ t \notin Referrers(k) /\ t \notin Referrers(k)'
        /\ t \notin Mappers(k) /\ t \notin Mappers(k)'
    BY <1>2, <2>1 DEF Referrers, Mappers
  <2>5. RefsExact(k)' /\ MapsCounted(k)'
    BY <1>1, <2>1, <2>2, <2>4, CountsFollow
    DEF OnlyMoves, BufInv, RefsExact, Registered, MapsCounted
  <2>6. GuardedOnce(k)' BY <1>1, <2>1, <2>2 DEF OnlyMoves, BufInv, GuardedOnce
  <2>7. FinishedOnce(k)' BY <1>1, <2>1, <2>2 DEF OnlyMoves, BufInv, FinishedOnce, Finishing
  <2>8. ReleasedOnce(k)'
    BY <1>1, <1>2, <2>1, <2>2 DEF OnlyMoves, BufInv, ReleasedOnce, Releasing
  <2>9. Gone(k)' /\ WakerComes(k)' BY <1>1, <1>5, <2>2 DEF BufInv, Gone, WakerComes
  <2>10. BufInv(k)' BY <2>5, <2>6, <2>7, <2>8, <2>9 DEF BufInv
  <2>11. SleepersCounted'
    <3>1. waiters' = Cardinality(Counted')
      <4>1. t \in Counted' BY <2>1 DEF Counted
      <4> QED BY <1>1, <1>3, <2>1, <2>2, <4>1, CountsFollow DEF OnlyMoves, SleepersCounted
    <3>2. \A u : u \in {v \in Threads : th[v].pc = "wait"}' <=>
                 u \in {v \in Threads : th[v].pc = "wait"} \cup {t}
      BY <1>2, <2>1 DEF OnlyMoves
    <3>3. {v \in Threads : th[v].pc = "wait"}' = {v \in Threads : th[v].pc = "wait"} \cup {t}
      BY <3>2, Zenon
    <3> QED BY <1>1, <2>2, <3>1, <3>3 DEF SleepersCounted
  <2> QED BY <1>1, <1>2, <2>1, <2>3, <2>10, <2>11, StepInv DEF TypeOK
<1> QED BY <1>4, <1>5

----------------------------------------------------------------------------
(* The invariant holds before anything is registered.                       *)
LEMMA InitIInv == Init => IInv
<1> SUFFICES ASSUME Init PROVE IInv OBVIOUS
<1>1. PICK c \in Cookies : \A t \in Threads : th[t].pc = "idle" /\ th[t].k = c
  BY DynShmAssumption DEF Init
<1>2. TypeOK
  <2>1. th \in [Threads -> [pc : PCs, k : Cookies]]
    BY DynShmAssumption DEF Init, PCs
  <2>2. buf \in Buffers BY DEF Init, Unlisted, Buffers, Buffer
  <2>3. Cardinality(Threads) \in Nat BY DynShmAssumption, FS_CardinalityType
  <2>4. waiters \in 0 .. Cardinality(Threads) BY <2>3 DEF Init
  <2>5. mu \in Threads \cup {NoOne} /\ asleep \subseteq Threads BY DEF Init
  <2>6. panicked \in BOOLEAN BY DEF Init
  <2> QED BY <2>1, <2>2, <2>4, <2>5, <2>6 DEF TypeOK, Buffers, Buffer
<1>3. SleepersCounted
  <2>1. \A t \in Threads : t \notin Counted BY <1>1 DEF Counted
  <2>2. Counted = {} BY <2>1 DEF Counted
  <2>3. Cardinality(Counted) = 0 BY <2>2, FS_EmptySet
  <2>4. {t \in Threads : th[t].pc = "wait"} = {} BY <1>1
  <2> QED BY <2>3, <2>4 DEF SleepersCounted, Init
<1>4. ASSUME NEW k \in Cookies PROVE BufInv(k)
  <2>1. \A t \in Threads : t \notin Referrers(k) /\ t \notin Mappers(k)
    BY <1>1 DEF Referrers, Mappers
  <2>2. Referrers(k) = {} /\ Mappers(k) = {} BY <2>1 DEF Referrers, Mappers
  <2>3. Cardinality(Referrers(k)) = 0 /\ Cardinality(Mappers(k)) = 0
    BY <2>2, FS_EmptySet
  <2>4. buf[k] = Unlisted BY DEF Init
  <2>5. RefsExact(k) /\ MapsCounted(k)
    BY <2>3, <2>4 DEF RefsExact, Registered, MapsCounted, Unlisted
  <2>6. GuardedOnce(k) /\ FinishedOnce(k)
    BY <1>1, <2>4 DEF GuardedOnce, FinishedOnce, Finishing, Unlisted
  <2>7. ReleasedOnce(k) BY <1>1, <2>4 DEF ReleasedOnce, Releasing, Unlisted
  <2>8. Gone(k) /\ WakerComes(k) BY <2>4 DEF Gone, WakerComes, Unlisted
  <2> QED BY <2>5, <2>6, <2>7, <2>8 DEF BufInv
<1> QED BY <1>2, <1>3, <1>4 DEF IInv

(* A step that changes nothing of the state keeps the invariant.            *)
LEMMA StutterInv ==
  ASSUME IInv, UNCHANGED vars
  PROVE  IInv'
<1>1. TypeOK' BY DEF IInv, TypeOK, vars
<1>2. SleepersCounted' BY DEF IInv, SleepersCounted, Counted, vars
<1>3. ASSUME NEW k \in Cookies PROVE BufInv(k)'
  <2>1. BufInv(k) /\ buf' = buf /\ th' = th BY DEF IInv, vars
  <2>2. Referrers(k)' = Referrers(k) /\ Mappers(k)' = Mappers(k)
    BY <2>1 DEF Referrers, Mappers
  <2>3. RefsExact(k)' /\ MapsCounted(k)'
    BY <2>1, <2>2 DEF BufInv, RefsExact, Registered, MapsCounted
  <2>4. GuardedOnce(k)' /\ Gone(k)' BY <2>1 DEF BufInv, GuardedOnce, Gone
  <2>5. FinishedOnce(k)' BY <2>1 DEF BufInv, FinishedOnce
  <2>6. ReleasedOnce(k)' BY <2>1 DEF BufInv, ReleasedOnce
  <2>7. WakerComes(k)' BY <2>1 DEF BufInv, WakerComes
  <2> QED BY <2>3, <2>4, <2>5, <2>6, <2>7 DEF BufInv
<1> QED BY <1>1, <1>2, <1>3 DEF IInv

(* Every step of every thread keeps the invariant.                          *)
LEMMA NextIInv == IInv /\ [Next]_vars => IInv'
<1> SUFFICES ASSUME IInv, [Next]_vars PROVE IInv' OBVIOUS
<1>1. CASE UNCHANGED vars BY <1>1, StutterInv
<1>2. ASSUME NEW t \in Threads, NEW k \in Cookies,
             Alloc(t, k) \/ GetByCookie(t, k) \/ Release(t, k)
      PROVE  IInv'
  BY <1>2, AllocInv, GetByCookieInv, ReleaseInv
<1>3. ASSUME NEW t \in Threads, MapFails(t) \/ Step(t) PROVE IInv'
  <2>1. th[t].k \in Cookies BY DEF IInv, TypeOK
  <2> QED BY <1>3, <2>1, MapFailsInv, UnguardInv, IncMapInv, InitMapInv, DecMapInv,
             UnmapInv, PutInv, FreeInv, NotifyInv, DropInv, EnterInv, CheckInv DEF Step
<1>4. CASE Over BY <1>4, StutterInv DEF Over
<1> QED BY <1>1, <1>2, <1>3, <1>4 DEF Next

----------------------------------------------------------------------------
(* A buffer that a call has mapped is mapped, although mobj_reg_shm_dec_map *)
(* counts down without the lock.                                            *)
THEOREM MappedCorrect == Spec => []MappedWhileUsed
<1>1. IInv => MappedWhileUsed
  <2> SUFFICES ASSUME IInv, NEW t \in Threads, th[t].pc = "mapped"
               PROVE  buf[th[t].k].mm /\ buf[th[t].k].mapcount > 0
    BY DEF MappedWhileUsed
  <2>1. th[t].k \in Cookies /\ TypeOK /\ BufInv(th[t].k) BY DEF IInv, TypeOK
  <2>2. t \in Mappers(th[t].k) BY DEF Mappers
  <2>3. buf[th[t].k].mapcount > 0 BY <2>1, <2>2, OwnersCounted
  <2> QED BY <2>1, <2>3 DEF BufInv, MapsCounted
<1> QED BY InitIInv, NextIInv, <1>1, PTL DEF Spec

(* No buffer is freed while a thread holds it, registers it or unregisters  *)
(* it: mobj_reg_shm_free and mobj_reg_shm_release_by_cookie free it once    *)
(* between them.                                                            *)
THEOREM NotFreedInUse == Spec => []NoUseAfterFree
<1>1. IInv => NoUseAfterFree
  <2> SUFFICES ASSUME IInv, NEW t \in Threads,
                      th[t].pc \in Holding \cup (Releasing \ {"notify"}) \cup {"register"}
               PROVE  buf[th[t].k].listed
    BY DEF NoUseAfterFree
  <2>1. th[t].k \in Cookies /\ TypeOK /\ BufInv(th[t].k) BY DEF IInv, TypeOK
  <2>2. CASE th[t].pc \in Releasing BY <2>1, <2>2 DEF BufInv, ReleasedOnce
  <2>3. CASE th[t].pc = "free" BY <2>1, <2>3 DEF BufInv, FinishedOnce, Finishing
  <2>4. CASE th[t].pc \in (Holding \ {"free"}) \cup {"register"}
    <3>1. t \in Referrers(th[t].k) BY <2>4 DEF Referrers, Holding
    <3> QED BY <2>1, <3>1, OwnersCounted
  <2> QED BY <2>2, <2>3, <2>4
<1> QED BY InitIInv, NextIInv, <1>1, PTL DEF Spec

(* A normal world that passes no buffer it unregisters never makes mobj_get *)
(* panic: a registered buffer keeps the reference of its registration.      *)
THEOREM NeverPanics == ASSUME ~LateLookup PROVE Spec => []NoPanic
<1>1. Init => NoPanic BY DEF Init, NoPanic
<1>2. IInv /\ NoPanic /\ [Next]_vars => NoPanic'
  <2> SUFFICES ASSUME IInv, NoPanic, [Next]_vars PROVE NoPanic' OBVIOUS
  <2>1. ASSUME NEW t \in Threads, NEW k \in Cookies, GetByCookie(t, k) PROVE NoPanic'
    <3>1. buf[k].listed /\ ~buf[k].guarded /\ ~buf[k].releasing
      BY <2>1 DEF GetByCookie, Known
    <3>2. BufInv(k) /\ Registered(k) = 1 BY <3>1 DEF IInv, Registered
    <3>3. Cardinality(Referrers(k)) \in Nat
      BY DynShmAssumption, FS_Subset, FS_CardinalityType DEF Referrers
    <3>4. buf[k].refc # 0 BY <3>2, <3>3 DEF BufInv, RefsExact
    <3> QED BY <2>1, <3>4 DEF GetByCookie, NoPanic
  <2>2. CASE UNCHANGED vars BY <2>2 DEF vars, NoPanic
  <2>3. CASE Over BY <2>3 DEF Over, vars, NoPanic
  <2>4. ASSUME NEW t \in Threads, NEW k \in Cookies, Alloc(t, k) \/ Release(t, k)
        PROVE  NoPanic'
    BY <2>4 DEF Alloc, Release, NoPanic
  <2>5. ASSUME NEW t \in Threads, MapFails(t) \/ Step(t) PROVE NoPanic'
    BY <2>5 DEF MapFails, Step, Unguard, IncMap, InitMap, DecMap, Unmap, Put, Free,
                Notify, Drop, Enter, Check, NoPanic
  <2> QED BY <2>1, <2>2, <2>3, <2>4, <2>5 DEF Next
<1> QED BY InitIInv, NextIInv, <1>1, <1>2, PTL DEF Spec

(* A thread that unregisters a buffer does not sleep through the moment it  *)
(* could free it: whoever set release_frees still has its broadcast to do.  *)
THEOREM ReleaseNotMissed == Spec => [](\A k \in Cookies : WakerComes(k))
<1>1. IInv => \A k \in Cookies : WakerComes(k) BY DEF IInv, BufInv
<1> QED BY InitIInv, NextIInv, <1>1, PTL DEF Spec
=============================================================================
