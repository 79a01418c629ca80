---------------------------- MODULE SwLogProofs ----------------------------
(***************************************************************************)
(* The log ring keeps whole lines apart and loses no byte, for every       *)
(* number of cores and every size of the ring and of a line, whatever      *)
(* order the stores of sw_log_putc become visible in.                      *)
(***************************************************************************)
EXTENDS SwLog, FiniteSetTheorems, TLAPS

(* Who may be inside the two critical sections, of a byte and of a line.    *)
LockOwners ==
  /\ \A c \in Contexts : sw_log_lock = c <=> pc[c] = "store"
  /\ mask_interrupts => \A c \in Contexts :
       /\ puts_lock = c <=> pc[c] \in {"puts", "store"}
       /\ pc[c] # "defer"
  /\ ~mask_interrupts =>
       /\ \A c \in Contexts :
            pc[c] \in {"defer", "puts", "store"} => trace_busy[Mode(c)]
       /\ \A c, d \in Contexts :
            /\ Mode(c) = Mode(d)
            /\ pc[c] \in {"defer", "puts", "store"}
            /\ pc[d] \in {"defer", "puts", "store"}
            => c = d

(* The slot k bytes before the last one stored, when p is the next.         *)
Back(p, k) == IF p - 1 - k >= 0 THEN p - 1 - k ELSE p - 1 - k + DataSize

(* The n slots before p hold the bytes up to t.                             *)
TailBefore(p, t, n) == \A k \in 0 .. n - 1 : k < t => data[Back(p, k)] = t - k

(* No byte is being stored: the ring is complete.                           *)
AtRest ==
  sw_log_lock = NoCtx =>
    /\ TailBefore(write_pos, total, DataSize)
    /\ generation * DataSize + write_pos - total \in RetainedPos

(* How far a context is with its byte: each of the three stores is done or  *)
(* still pending, and the slot being written is the only one in doubt.      *)
Storing ==
  \A c \in Contexts : pc[c] = "store" =>
    /\ total > 0 /\ left[c] > 0
    /\ write_pos = IF "write_pos" \in pending[c] THEN pos[c] ELSE Wrap(pos[c] + 1)
    /\ generation = IF "generation" \in pending[c] THEN gen[c]
                    ELSE WrapGen(pos[c] + 1, gen[c])
    /\ gen[c] * DataSize + pos[c] - (total - 1) \in RetainedPos
    /\ "data" \notin pending[c] => data[pos[c]] = total
    /\ TailBefore(pos[c], total - 1, DataSize - 1)

(* Only a byte being stored has stores pending.                             *)
PendingInStore == \A c \in Contexts : pc[c] # "store" => pending[c] = {}

IInv == TypeOK /\ LockOwners /\ AtRest /\ Storing /\ PendingInStore

----------------------------------------------------------------------------
(* Arithmetic of the ring.                                                  *)

(* The ring has at least one slot.                                          *)
LEMMA SizeType == DataSize \in Nat /\ DataSize > 0 /\ 0 \in Slots
BY SwLogAssumption DEF Slots

(* The marker of no context is not a context.                               *)
LEMMA NoCtxIsNone == NoCtx \notin Contexts
BY SwLogAssumption DEF NoCtx

(* The position after a slot is a slot, and counts one byte more.           *)
LEMMA WrapType ==
  ASSUME NEW p \in Slots, NEW g \in Nat
  PROVE  /\ Wrap(p) = p /\ WrapGen(p, g) = g
         /\ Wrap(p + 1) \in Slots /\ WrapGen(p + 1, g) \in Nat
         /\ WrapGen(p + 1, g) * DataSize + Wrap(p + 1) = g * DataSize + p + 1
<1>1. p \in Nat /\ p < DataSize BY SizeType DEF Slots
<1>2. CASE p + 1 = DataSize
  <2>1. Wrap(p + 1) = 0 /\ WrapGen(p + 1, g) = g + 1
    BY <1>2, SizeType DEF Wrap, WrapGen
  <2>2. (g + 1) * DataSize + 0 = g * DataSize + p + 1 BY <1>1, <1>2, SizeType
  <2>3. Wrap(p) = p /\ WrapGen(p, g) = g BY <1>1, SizeType DEF Wrap, WrapGen
  <2> QED BY <2>1, <2>2, <2>3, SizeType
<1>3. CASE p + 1 < DataSize
  BY <1>1, <1>3, SizeType DEF Wrap, WrapGen, Slots
<1> QED BY <1>1, <1>2, <1>3, SizeType

(* Counting back over the start of the ring is the code's modulus.          *)
LEMMA BackIsMod ==
  ASSUME NEW p \in Slots, NEW k \in Slots
  PROVE  Back(p, k) = (p - 1 - k) % DataSize /\ Back(p, k) \in Slots
<1>1. p \in 0 .. DataSize - 1 /\ k \in 0 .. DataSize - 1 /\ DataSize \in Nat \ {0}
  BY SizeType DEF Slots
<1>2. CASE p - 1 - k >= 0
  <2>1. p - 1 - k \in 0 .. DataSize - 1 BY <1>1, <1>2
  <2>2. (p - 1 - k) % DataSize = p - 1 - k BY <1>1, <2>1
  <2> QED BY <1>2, <2>1, <2>2 DEF Back, Slots
<1>3. CASE p - 1 - k < 0
  <2> DEFINE a == p - 1 - k
  <2>1. a \in -DataSize .. -1 /\ a + DataSize \in 0 .. DataSize - 1 BY <1>1, <1>3
  <2>2. a % DataSize = a + DataSize
    <3> HIDE DEF a
    <3> QED BY <1>1, <2>1
  <2> QED BY <1>1, <1>3, <2>1, <2>2 DEF Back, Slots
<1> QED BY <1>1, <1>2, <1>3

(* The slots before the next position are the one just written and the      *)
(* slots before it, and the slot about to be written is none of those.      *)
LEMMA BackSteps ==
  ASSUME NEW p \in Slots
  PROVE  /\ Back(Wrap(p + 1), 0) = p
         /\ \A k \in 1 .. DataSize - 1 : Back(Wrap(p + 1), k) = Back(p, k - 1)
         /\ \A k \in 0 .. DataSize - 2 : Back(p, k) # p
BY SizeType DEF Back, Wrap, Slots

----------------------------------------------------------------------------
(* A step that touches neither the ring nor a byte being stored.            *)
LEMMA RingKept ==
  ASSUME IInv, UNCHANGED <<ring, sw_log_lock, pos, gen, pending, total>>,
         \A c \in Contexts :
           /\ pc'[c] = "store" <=> pc[c] = "store"
           /\ pc[c] = "store" => left'[c] = left[c]
  PROVE  AtRest' /\ Storing' /\ PendingInStore'
<1>1. AtRest' BY DEF IInv, AtRest, ring, TailBefore, Back
<1>2. Storing' BY DEF IInv, Storing, ring, TailBefore, Back, Wrap, WrapGen
<1>3. PendingInStore' BY DEF IInv, PendingInStore
<1> QED BY <1>1, <1>2, <1>3

(* The invariant holds for the empty ring.                                  *)
LEMMA InitIInv == Init => IInv
<1> SUFFICES ASSUME Init PROVE IInv OBVIOUS
<1>1. TypeOK
  <2>1. mask_interrupts \in Builds /\ data \in [Slots -> Nat] /\ write_pos \in Slots
    BY SwLogAssumption DEF Init, Slots
  <2>2. /\ generation \in Nat /\ total \in Nat /\ last \in Nat
        /\ sw_log_lock \in Contexts \cup {NoCtx} /\ puts_lock \in Contexts \cup {NoCtx}
        /\ rpc \in {"map_pos", "map_gen", "top", "gen", "emit"}
    BY DEF Init
  <2>3. trace_busy \in [{"thread", "irq"} -> BOOLEAN] BY DEF Init
  <2>4. pc \in [Contexts -> {"idle", "contend", "defer", "puts", "store"}]
    BY DEF Init
  <2>5. left \in [Contexts -> 0 .. LineLen] BY SwLogAssumption DEF Init
  <2>6. pos \in [Contexts -> Slots] /\ gen \in [Contexts -> Nat] BY SizeType DEF Init
  <2>7. pending \in [Contexts -> SUBSET {"data", "generation", "write_pos"}]
    BY DEF Init
  <2>8. read_pos \in Slots /\ read_gen \in Nat /\ wp \in Slots /\ rg \in Nat
    BY SizeType DEF Init
  <2> QED BY <2>1, <2>2, <2>3, <2>4, <2>5, <2>6, <2>7, <2>8 DEF TypeOK
<1>2. \A c \in Contexts : pc[c] = "idle" BY DEF Init
<1>3. LockOwners BY <1>2, NoCtxIsNone DEF Init, LockOwners
<1>4. AtRest
  <2>1. write_pos \in RetainedPos /\ write_pos \in Nat
    BY SwLogAssumption DEF Init
  <2>2. generation * DataSize + write_pos - total = write_pos BY <2>1, SizeType DEF Init
  <2>3. TailBefore(write_pos, total, DataSize) BY SizeType DEF Init, TailBefore
  <2> QED BY <2>1, <2>2, <2>3 DEF AtRest
<1>5. Storing BY <1>2 DEF Storing
<1>6. PendingInStore BY DEF Init, PendingInStore
<1> QED BY <1>1, <1>3, <1>4, <1>5, <1>6 DEF IInv

(* The writers, up to the first byte of a line.                             *)
LEMMA TraceInv ==
  ASSUME IInv, NEW c \in Contexts,
         TraceBegin(c) \/ TraceAcquire(c) \/ TraceDefer(c) \/ TraceRelease(c)
  PROVE  IInv'
<1>0. Mode(c) \in {"thread", "irq"} BY SwLogAssumption DEF Mode
<1> USE DEF IInv
<1>1. CASE TraceBegin(c)
  <2>1. TypeOK' BY <1>1, SwLogAssumption DEF TypeOK, TraceBegin, ring, locks, reader
  <2>2. /\ \A d \in Contexts : d # c => pc'[d] = pc[d] /\ left'[d] = left[d]
        /\ pc[c] = "idle" /\ pc'[c] = "contend"
    BY <1>1 DEF TypeOK, TraceBegin
  <2>3. LockOwners' BY <1>1, <2>2 DEF LockOwners, TraceBegin, locks
  <2>4. AtRest' /\ Storing' /\ PendingInStore'
    BY <1>1, <2>2, RingKept DEF TraceBegin, locks
  <2> QED BY <2>1, <2>3, <2>4
<1>2. CASE TraceAcquire(c)
  <2>1. /\ \A d \in Contexts : d # c => pc'[d] = pc[d]
        /\ pc[c] = "contend" /\ pc'[c] \in {"defer", "puts"}
    BY <1>2 DEF TypeOK, TraceAcquire
  <2>2. LockOwners'
    <3>1. CASE mask_interrupts
      <4>1. /\ puts_lock = NoCtx /\ puts_lock' = c /\ pc'[c] = "puts"
            /\ mask_interrupts' = mask_interrupts /\ sw_log_lock' = sw_log_lock
        BY <1>2, <3>1 DEF TraceAcquire, TypeOK
      <4> QED BY <2>1, <3>1, <4>1, NoCtxIsNone DEF LockOwners
    <3>2. CASE ~mask_interrupts
      <4>1. /\ ~trace_busy[Mode(c)]
            /\ trace_busy' = [trace_busy EXCEPT ![Mode(c)] = TRUE]
            /\ mask_interrupts' = mask_interrupts /\ sw_log_lock' = sw_log_lock
        BY <1>2, <3>2 DEF TraceAcquire
      <4>2. \A d \in Contexts : trace_busy[Mode(d)] => trace_busy'[Mode(d)]
        BY <4>1, SwLogAssumption DEF TypeOK, Mode
      <4>3. trace_busy'[Mode(c)] BY <1>0, <4>1 DEF TypeOK
      <4> QED BY <2>1, <3>2, <4>1, <4>2, <4>3 DEF LockOwners
    <3> QED BY <3>1, <3>2
  <2>3. TypeOK'
    <3>1. pc' \in [Contexts -> {"idle", "contend", "defer", "puts", "store"}]
      BY <1>2 DEF TraceAcquire, TypeOK
    <3>2. trace_busy' \in [{"thread", "irq"} -> BOOLEAN]
      BY <1>0, <1>2 DEF TraceAcquire, TypeOK
    <3>3. puts_lock' \in Contexts \cup {NoCtx} BY <1>2 DEF TraceAcquire, TypeOK
    <3> QED BY <1>2, <3>1, <3>2, <3>3 DEF TraceAcquire, TypeOK, ring, reader
  <2>4. AtRest' /\ Storing' /\ PendingInStore'
    BY <1>2, <2>1, RingKept DEF TraceAcquire
  <2> QED BY <2>2, <2>3, <2>4
<1>3. CASE TraceDefer(c)
  <2>1. /\ \A d \in Contexts : d # c => pc'[d] = pc[d]
        /\ pc[c] = "defer" /\ pc'[c] = "puts"
    BY <1>3 DEF TypeOK, TraceDefer
  <2>2. LockOwners' BY <1>3, <2>1 DEF LockOwners, TraceDefer, locks
  <2>3. TypeOK' BY <1>3 DEF TypeOK, TraceDefer, ring, locks, reader
  <2>4. AtRest' /\ Storing' /\ PendingInStore'
    BY <1>3, <2>1, RingKept DEF TraceDefer, locks
  <2> QED BY <2>2, <2>3, <2>4
<1>4. CASE TraceRelease(c)
  <2>1. /\ \A d \in Contexts : d # c => pc'[d] = pc[d]
        /\ pc[c] = "puts" /\ pc'[c] = "idle"
        /\ mask_interrupts' = mask_interrupts /\ sw_log_lock' = sw_log_lock
    BY <1>4 DEF TypeOK, TraceRelease
  <2>2. LockOwners'
    <3>1. CASE mask_interrupts
      <4>1. puts_lock' = NoCtx BY <1>4, <3>1 DEF TraceRelease
      <4> QED BY <2>1, <3>1, <4>1, NoCtxIsNone DEF LockOwners
    <3>2. CASE ~mask_interrupts
      <4>1. trace_busy' = [trace_busy EXCEPT ![Mode(c)] = FALSE]
        BY <1>4, <3>2 DEF TraceRelease
      <4>2. \A d \in Contexts : Mode(d) # Mode(c) /\ trace_busy[Mode(d)] => trace_busy'[Mode(d)]
        BY <4>1, SwLogAssumption DEF TypeOK, Mode
      <4> QED BY <2>1, <3>2, <4>2 DEF LockOwners
    <3> QED BY <3>1, <3>2
  <2>3. TypeOK'
    <3>1. pc' \in [Contexts -> {"idle", "contend", "defer", "puts", "store"}]
      BY <1>4 DEF TraceRelease, TypeOK
    <3>2. trace_busy' \in [{"thread", "irq"} -> BOOLEAN]
      BY <1>0, <1>4 DEF TraceRelease, TypeOK
    <3>3. puts_lock' \in Contexts \cup {NoCtx} BY <1>4 DEF TraceRelease, TypeOK
    <3> QED BY <1>4, <3>1, <3>2, <3>3 DEF TraceRelease, TypeOK, ring, reader
  <2>4. AtRest' /\ Storing' /\ PendingInStore'
    BY <1>4, <2>1, RingKept DEF TraceRelease
  <2> QED BY <2>2, <2>3, <2>4
<1> QED BY <1>1, <1>2, <1>3, <1>4

(* sw_log_putc takes the position that the last byte left.                  *)
LEMMA PutcLockInv ==
  ASSUME IInv, NEW c \in Contexts, PutcLock(c)
  PROVE  IInv'
<1> USE DEF IInv
<1>1. /\ \A d \in Contexts : d # c => /\ pc'[d] = pc[d] /\ pending'[d] = pending[d]
                                      /\ pos'[d] = pos[d] /\ gen'[d] = gen[d]
      /\ pc[c] = "puts" /\ pc'[c] = "store"
      /\ pending'[c] = {"data", "generation", "write_pos"}
      /\ pos'[c] = Wrap(write_pos) /\ gen'[c] = WrapGen(write_pos, generation)
  BY DEF TypeOK, PutcLock
<1>2. pos'[c] = write_pos /\ gen'[c] = generation
  <2>1. write_pos \in Slots /\ generation \in Nat BY DEF TypeOK
  <2>2. Wrap(write_pos) = write_pos /\ WrapGen(write_pos, generation) = generation
    BY <2>1, WrapType
  <2> QED BY <1>1, <2>2
<1>3. /\ sw_log_lock = NoCtx /\ sw_log_lock' = c /\ total' = total + 1
      /\ data' = data /\ write_pos' = write_pos /\ generation' = generation
      /\ left' = left /\ left[c] > 0
      /\ mask_interrupts' = mask_interrupts /\ puts_lock' = puts_lock
      /\ trace_busy' = trace_busy
  BY DEF PutcLock, ring
<1>4. \A d \in Contexts : pc[d] # "store" BY <1>3, NoCtxIsNone DEF LockOwners
<1>5. LockOwners' BY <1>1, <1>3, <1>4 DEF LockOwners
<1>6. AtRest' BY <1>3, NoCtxIsNone DEF AtRest
<1>7. PendingInStore' BY <1>1 DEF PendingInStore
<1>8. Storing'
  <2>1. TailBefore(write_pos, total, DataSize)
        /\ generation * DataSize + write_pos - total \in RetainedPos
    BY <1>3 DEF AtRest
  <2>2. TailBefore(pos[c], total - 1, DataSize - 1)'
    BY <2>1, <1>2, <1>3, SizeType DEF TailBefore, Back, TypeOK
  <2>3. (gen[c] * DataSize + pos[c] - (total - 1))' \in RetainedPos
    BY <2>1, <1>2, <1>3, SizeType DEF TypeOK
  <2>4. \A d \in Contexts : pc'[d] = "store" => d = c BY <1>1, <1>4
  <2> QED BY <1>1, <1>2, <1>3, <2>2, <2>3, <2>4 DEF Storing, TypeOK
<1>9. TypeOK'
  <2>1. pc' \in [Contexts -> {"idle", "contend", "defer", "puts", "store"}]
    BY DEF PutcLock, TypeOK
  <2>2. Wrap(write_pos) \in Slots /\ WrapGen(write_pos, generation) \in Nat
    BY WrapType DEF TypeOK
  <2>3. pos' \in [Contexts -> Slots] /\ gen' \in [Contexts -> Nat]
    BY <2>2 DEF PutcLock, TypeOK
  <2>4. pending' \in [Contexts -> SUBSET {"data", "generation", "write_pos"}]
    BY DEF PutcLock, TypeOK
  <2> QED BY <1>3, <2>1, <2>3, <2>4 DEF PutcLock, TypeOK, ring, reader
<1> QED BY <1>5, <1>6, <1>7, <1>8, <1>9

(* The three stores, in whichever order.                                    *)
LEMMA PutcStoreInv ==
  ASSUME IInv, NEW c \in Contexts, NEW s \in {"data", "generation", "write_pos"},
         PutcStore(c, s)
  PROVE  IInv'
<1> USE DEF IInv
<1>1. /\ \A d \in Contexts : d # c => pending'[d] = pending[d]
      /\ pending'[c] = pending[c] \ {s} /\ s \in pending[c]
      /\ pc[c] = "store" /\ pc' = pc /\ pos' = pos /\ gen' = gen /\ total' = total
      /\ left' = left /\ sw_log_lock' = sw_log_lock /\ puts_lock' = puts_lock
      /\ trace_busy' = trace_busy /\ mask_interrupts' = mask_interrupts
  BY DEF PutcStore, TypeOK, locks
<1>2. /\ pos[c] \in Slots /\ gen[c] \in Nat /\ total \in Nat
      /\ Wrap(pos[c] + 1) \in Slots /\ WrapGen(pos[c] + 1, gen[c]) \in Nat
  BY WrapType DEF TypeOK
<1>3. sw_log_lock = c /\ \A d \in Contexts : pc[d] = "store" => d = c
  BY <1>1 DEF LockOwners
<1>4. LockOwners' BY <1>1 DEF LockOwners
<1>5. AtRest' BY <1>1, <1>3, NoCtxIsNone DEF AtRest
<1>6. PendingInStore' BY <1>1, <1>3 DEF PendingInStore
<1>7. Storing'
  <2>1. /\ total > 0 /\ left[c] > 0
        /\ write_pos = IF "write_pos" \in pending[c] THEN pos[c] ELSE Wrap(pos[c] + 1)
        /\ generation = IF "generation" \in pending[c] THEN gen[c]
                        ELSE WrapGen(pos[c] + 1, gen[c])
        /\ gen[c] * DataSize + pos[c] - (total - 1) \in RetainedPos
        /\ "data" \notin pending[c] => data[pos[c]] = total
        /\ TailBefore(pos[c], total - 1, DataSize - 1)
    BY <1>1 DEF Storing
  <2>2. write_pos' = IF "write_pos" \in pending'[c] THEN pos[c] ELSE Wrap(pos[c] + 1)
    BY <1>1, <2>1 DEF PutcStore
  <2>3. generation' = IF "generation" \in pending'[c] THEN gen[c]
                      ELSE WrapGen(pos[c] + 1, gen[c])
    BY <1>1, <2>1 DEF PutcStore
  <2>4. "data" \notin pending'[c] => data'[pos[c]] = total
    BY <1>1, <1>2, <2>1 DEF PutcStore, TypeOK
  <2>5. \A q \in Slots : q # pos[c] => data'[q] = data[q]
    BY <1>2 DEF PutcStore, TypeOK
  <2>6. TailBefore(pos[c], total - 1, DataSize - 1)'
    <3> SUFFICES ASSUME NEW k \in 0 .. DataSize - 2, k < total - 1
                 PROVE  data'[Back(pos[c], k)] = total - 1 - k
      BY <1>1, SizeType DEF TailBefore, Back
    <3>1. k \in Slots BY SizeType DEF Slots
    <3>2. Back(pos[c], k) \in Slots /\ Back(pos[c], k) # pos[c]
      BY <1>2, <3>1, BackIsMod, BackSteps
    <3>3. data[Back(pos[c], k)] = total - 1 - k BY <2>1, SizeType DEF TailBefore
    <3> QED BY <2>5, <3>2, <3>3
  <2>7. (gen[c] * DataSize + pos[c] - (total - 1))' \in RetainedPos BY <1>1, <2>1
  <2> QED BY <1>1, <1>3, <2>1, <2>2, <2>3, <2>4, <2>6, <2>7 DEF Storing, Wrap, WrapGen
<1>8. TypeOK'
  <2>1. pending' \in [Contexts -> SUBSET {"data", "generation", "write_pos"}]
    BY DEF PutcStore, TypeOK
  <2>2. data' \in [Slots -> Nat] BY <1>2 DEF PutcStore, TypeOK
  <2>3. generation' \in Nat /\ write_pos' \in Slots BY <1>2 DEF PutcStore, TypeOK
  <2> QED BY <1>1, <2>1, <2>2, <2>3 DEF PutcStore, TypeOK, reader
<1> QED BY <1>4, <1>5, <1>6, <1>7, <1>8

(* The lock is given up with the ring complete.                             *)
LEMMA PutcUnlockInv ==
  ASSUME IInv, NEW c \in Contexts, PutcUnlock(c)
  PROVE  IInv'
<1> USE DEF IInv
<1>1. /\ \A d \in Contexts : d # c => pc'[d] = pc[d] /\ left'[d] = left[d]
      /\ pc[c] = "store" /\ pc'[c] = "puts" /\ pending[c] = {}
      /\ data' = data /\ write_pos' = write_pos /\ generation' = generation
      /\ pos' = pos /\ gen' = gen /\ pending' = pending /\ total' = total
      /\ sw_log_lock' = NoCtx /\ puts_lock' = puts_lock
      /\ trace_busy' = trace_busy /\ mask_interrupts' = mask_interrupts
  BY DEF PutcUnlock, TypeOK, ring
<1>2. sw_log_lock = c /\ \A d \in Contexts : pc[d] = "store" => d = c
  BY <1>1 DEF LockOwners
<1>3. LockOwners' BY <1>1, <1>2, NoCtxIsNone DEF LockOwners
<1>4. /\ total > 0 /\ left[c] > 0
      /\ write_pos = Wrap(pos[c] + 1) /\ generation = WrapGen(pos[c] + 1, gen[c])
      /\ gen[c] * DataSize + pos[c] - (total - 1) \in RetainedPos
      /\ data[pos[c]] = total
      /\ TailBefore(pos[c], total - 1, DataSize - 1)
  BY <1>1 DEF Storing
<1>5. AtRest'
  <2>1. pos[c] \in Slots /\ gen[c] \in Nat /\ total \in Nat BY DEF TypeOK
  <2>2. generation * DataSize + write_pos - total \in RetainedPos
    <3>1. generation * DataSize + write_pos = gen[c] * DataSize + pos[c] + 1
      BY <1>4, <2>1, WrapType
    <3>2. /\ gen[c] * DataSize \in Nat /\ pos[c] \in Nat
          /\ generation * DataSize \in Nat /\ write_pos \in Nat
      BY <2>1, SizeType DEF Slots, TypeOK
    <3>3. generation * DataSize + write_pos - total = gen[c] * DataSize + pos[c] - (total - 1)
      <4> DEFINE x == generation * DataSize  y == gen[c] * DataSize
      <4>1. x \in Nat /\ y \in Nat /\ x + write_pos = y + pos[c] + 1 BY <3>1, <3>2
      <4> HIDE DEF x, y
      <4>2. x + write_pos - total = y + pos[c] - (total - 1) BY <2>1, <3>2, <4>1
      <4> QED BY <4>2 DEF x, y
    <3> QED BY <1>4, <3>3
  <2>3. TailBefore(write_pos, total, DataSize)
    <3> SUFFICES ASSUME NEW k \in 0 .. DataSize - 1, k < total
                 PROVE  data[Back(write_pos, k)] = total - k
      BY DEF TailBefore
    <3>1. CASE k = 0 BY <1>4, <2>1, <3>1, BackSteps
    <3>2. CASE k > 0
      <4>1. Back(write_pos, k) = Back(pos[c], k - 1)
        BY <1>4, <2>1, <3>2, SizeType, BackSteps
      <4>2. k - 1 \in 0 .. DataSize - 2 /\ k - 1 < total - 1
        BY <2>1, <3>2, SizeType
      <4>3. data[Back(pos[c], k - 1)] = (total - 1) - (k - 1)
        BY <1>4, <4>2, SizeType DEF TailBefore
      <4> QED BY <2>1, <3>2, <4>1, <4>3
    <3> QED BY <3>1, <3>2
  <2> QED BY <1>1, <2>2, <2>3 DEF AtRest, TailBefore, Back
<1>6. Storing' BY <1>1, <1>2 DEF Storing
<1>7. PendingInStore' BY <1>1 DEF PendingInStore
<1>8. TypeOK'
  <2>1. pc' \in [Contexts -> {"idle", "contend", "defer", "puts", "store"}]
    BY DEF PutcUnlock, TypeOK
  <2>2. left' \in [Contexts -> 0 .. LineLen]
    BY <1>4, SwLogAssumption DEF PutcUnlock, TypeOK
  <2> QED BY <1>1, <2>1, <2>2 DEF PutcUnlock, TypeOK, reader
<1> QED BY <1>3, <1>5, <1>6, <1>7, <1>8

(* The reader stores nothing.                                               *)
LEMMA ReaderInv ==
  ASSUME IInv, Reader
  PROVE  IInv'
<1> USE DEF IInv
<1>1. UNCHANGED <<mask_interrupts, ring, locks, writers, total>>
  BY DEF Reader, MapPos, MapGen, DrainPos, DrainGen, DrainEmit
<1>2. LockOwners' BY <1>1 DEF LockOwners, locks, writers
<1>3. AtRest' /\ Storing' /\ PendingInStore' BY <1>1, RingKept DEF locks, writers
<1>4. Visible \in Nat
  <2> DEFINE P == {c \in Contexts : "write_pos" \in pending[c]}
  <2>1. IsFiniteSet(P) /\ Cardinality(P) \in Nat
    BY SwLogAssumption, FS_Subset, FS_CardinalityType
  <2>2. ASSUME NEW c \in P, NEW d \in P PROVE c = d
    <3>1. c \in Contexts /\ d \in Contexts /\ pc[c] = "store" /\ pc[d] = "store"
      BY DEF PendingInStore
    <3>2. sw_log_lock = c /\ sw_log_lock = d BY <3>1 DEF LockOwners
    <3> QED BY <3>2
  <2>3. CASE P = {}
    <3>1. Cardinality(P) = 0 BY <2>3, FS_EmptySet
    <3> QED BY <3>1 DEF Visible, TypeOK
  <2>4. ASSUME NEW c \in P PROVE Visible \in Nat
    <3>1. P = {c} BY <2>2
    <3>2. Cardinality(P) = 1 BY <3>1, FS_Singleton
    <3>3. total > 0 BY DEF PendingInStore, Storing
    <3> QED BY <3>2, <3>3 DEF Visible, TypeOK
  <2> QED BY <2>3, <2>4
<1>5. TypeOK'
  <2>1. CASE MapPos BY <1>4, <2>1 DEF MapPos, TypeOK, ring, locks, writers
  <2>2. CASE MapGen BY <2>2 DEF MapGen, TypeOK, ring, locks, writers
  <2>3. CASE DrainPos BY <2>3 DEF DrainPos, TypeOK, ring, locks, writers
  <2>4. CASE DrainGen BY <2>4 DEF DrainGen, TypeOK, ring, locks, writers
  <2>5. CASE DrainEmit
    <3>1. Wrap(read_pos + 1) \in Slots BY WrapType DEF TypeOK
    <3>2. last' \in Nat /\ read_gen' \in Nat BY <2>5 DEF DrainEmit, TypeOK
    <3> QED BY <2>5, <3>1, <3>2 DEF DrainEmit, TypeOK, ring, locks, writers
  <2> QED BY <2>1, <2>2, <2>3, <2>4, <2>5 DEF Reader
<1> QED BY <1>2, <1>3, <1>5

(* Every step keeps the invariant.                                          *)
LEMMA NextIInv == IInv /\ [Next]_vars => IInv'
<1> SUFFICES ASSUME IInv, [Next]_vars PROVE IInv' OBVIOUS
<1>1. CASE UNCHANGED vars
  <2>1. TypeOK' BY <1>1 DEF IInv, TypeOK, vars, ring, locks, writers, reader
  <2>2. LockOwners' BY <1>1 DEF IInv, LockOwners, vars, locks, writers
  <2>3. AtRest' /\ Storing' /\ PendingInStore' BY <1>1, RingKept DEF vars, locks, writers
  <2> QED BY <2>1, <2>2, <2>3 DEF IInv
<1>2. CASE Reader BY <1>2, ReaderInv
<1>3. ASSUME NEW c \in Contexts, TraceBegin(c) \/ Finish(c) PROVE IInv'
  BY <1>3, TraceInv, PutcLockInv, PutcStoreInv, PutcUnlockInv DEF Finish
<1> QED BY <1>1, <1>2, <1>3 DEF Next

----------------------------------------------------------------------------
(* Lines do not mix in the ring: puts_lock, or the two busy flags, keep     *)
(* each other's lines out (wait_if_trace_contended).                        *)
THEOREM LinesKeptApart == Spec => []LinesNotMixed
<1>1. IInv => LinesNotMixed
  <2> SUFFICES ASSUME IInv, NEW c \in Contexts, NEW d \in Contexts, c # d,
                      {pc[c], pc[d]} \subseteq {"puts", "store"}
               PROVE  ~mask_interrupts /\ Mode(c) # Mode(d)
    BY DEF LinesNotMixed
  <2>1. pc[c] \in {"puts", "store"} /\ pc[d] \in {"puts", "store"} OBVIOUS
  <2> QED BY <2>1 DEF IInv, LockOwners
<1> QED BY InitIInv, NextIInv, <1>1, PTL DEF Spec

(* No byte is lost and none overwrites another: when no byte is being       *)
(* stored, the slots before write_pos hold the last ones in order and the   *)
(* header counts them all, although the stores of sw_log_putc are seen in   *)
(* any order.                                                               *)
THEOREM NoByteLost == Spec => []TailIntact
<1>1. IInv => TailIntact
  <2> SUFFICES ASSUME IInv, sw_log_lock = NoCtx
               PROVE  /\ \A k \in 0 .. DataSize - 1 :
                           k < total => data[(write_pos - 1 - k) % DataSize] = total - k
                      /\ generation * DataSize + write_pos - total \in RetainedPos
    BY DEF TailIntact
  <2>1. write_pos \in Slots BY DEF IInv, TypeOK
  <2>2. \A k \in 0 .. DataSize - 1 : Back(write_pos, k) = (write_pos - 1 - k) % DataSize
    BY <2>1, BackIsMod DEF Slots
  <2> QED BY <2>2 DEF IInv, AtRest, TailBefore
<1> QED BY InitIInv, NextIInv, <1>1, PTL DEF Spec
=============================================================================
