-------------------------- MODULE SupplicantProofs --------------------------
(***************************************************************************)
(* The count of waiting threads in tee-supplicant is right for every       *)
(* number of threads and requests.                                         *)
(***************************************************************************)
EXTENDS Supplicant, FiniteSetTheorems, TLAPS

----------------------------------------------------------------------------
(* Counting the elements of a finite set.                                   *)

(* Two sets that agree except on t differ in size by t's membership.        *)
LEMMA CountMove ==
  ASSUME NEW T, IsFiniteSet(T), NEW A \in SUBSET T, NEW B \in SUBSET T, NEW t,
         A \ {t} = B \ {t}
  PROVE  /\ Cardinality(A) \in Nat /\ Cardinality(B) \in Nat
         /\ t \in A /\ t \in B => Cardinality(B) = Cardinality(A)
         /\ t \notin A /\ t \notin B => Cardinality(B) = Cardinality(A)
         /\ t \in A /\ t \notin B => Cardinality(B) = Cardinality(A) - 1
         /\ t \notin A /\ t \in B => Cardinality(B) = Cardinality(A) + 1
<1>1. IsFiniteSet(A) /\ IsFiniteSet(B) BY FS_Subset
<1>2. Cardinality(A) \in Nat /\ Cardinality(B) \in Nat
  BY <1>1, FS_CardinalityType
<1>3. Cardinality(A \ {t}) = IF t \in A THEN Cardinality(A) - 1 ELSE Cardinality(A)
  BY <1>1, FS_RemoveElement
<1>4. Cardinality(B \ {t}) = IF t \in B THEN Cardinality(B) - 1 ELSE Cardinality(B)
  BY <1>1, FS_RemoveElement
<1>5. Cardinality(A \ {t}) = Cardinality(B \ {t}) OBVIOUS
<1> QED BY <1>2, <1>3, <1>4, <1>5

IInv == TypeOK /\ WaitersExact

(* Some thread met an error, or has told the others.                        *)
Failing == abort \/ \E t \in Threads : pc[t] = "failed"

(* A step of one thread t that counts by t's membership keeps the count.    *)
LEMMA OneMoves ==
  ASSUME IInv, pc' \in [Threads -> PCs], NEW t \in Threads,
         \A u \in Threads \ {t} : pc'[u] = pc[u],
         Failing => Failing',
         \/ t \in Waiters /\ t \notin Waiters' /\ numWaiters' = numWaiters - 1
         \/ t \notin Waiters /\ t \in Waiters' /\ numWaiters' = numWaiters + 1
         \/ (t \in Waiters <=> t \in Waiters') /\ numWaiters' = numWaiters
         \/ t \in Waiters /\ t \notin Waiters' /\ numWaiters' = numWaiters /\ Failing'
  PROVE  numWaiters' \in Nat /\ WaitersExact'
<1>1. Waiters \subseteq Threads /\ Waiters' \subseteq Threads BY DEF Waiters
<1>2. Waiters \ {t} = Waiters' \ {t} BY DEF Waiters
<1>3. IsFiniteSet(Threads) BY SupplicantAssumption
<1>4. /\ Cardinality(Waiters) \in Nat /\ Cardinality(Waiters') \in Nat
      /\ t \in Waiters /\ t \in Waiters' => Cardinality(Waiters') = Cardinality(Waiters)
      /\ t \notin Waiters /\ t \notin Waiters' => Cardinality(Waiters') = Cardinality(Waiters)
      /\ t \in Waiters /\ t \notin Waiters' => Cardinality(Waiters') = Cardinality(Waiters) - 1
      /\ t \notin Waiters /\ t \in Waiters' => Cardinality(Waiters') = Cardinality(Waiters) + 1
  BY <1>1, <1>2, <1>3, CountMove
<1>5. /\ numWaiters \in Nat /\ numWaiters >= Cardinality(Waiters)
      /\ ~Failing => numWaiters = Cardinality(Waiters)
  BY DEF IInv, TypeOK, WaitersExact, Failing
<1>6. /\ numWaiters' \in Nat /\ numWaiters' >= Cardinality(Waiters')
      /\ ~Failing' => numWaiters' = Cardinality(Waiters')
  <2>1. CASE t \in Waiters /\ t \notin Waiters' BY <1>4, <1>5, <2>1
  <2>2. CASE t \notin Waiters /\ t \in Waiters' BY <1>4, <1>5, <2>2
  <2>3. CASE t \in Waiters <=> t \in Waiters' BY <1>4, <1>5, <2>3
  <2> QED BY <2>1, <2>2, <2>3
<1> QED BY <1>6 DEF WaitersExact, Failing

(* A step that moves nobody in front of the driver keeps the count.         *)
LEMMA NobodyMoves ==
  ASSUME IInv, Waiters' = Waiters, numWaiters' = numWaiters, Failing => Failing'
  PROVE  WaitersExact'
BY DEF IInv, WaitersExact, Failing

(* The invariant holds when the supplicant starts.                          *)
LEMMA InitIInv == Init => IInv
<1> SUFFICES ASSUME Init PROVE IInv OBVIOUS
<1>1. TypeOK
  <2>1. pending \in Seq(Requests) /\ numWaiters \in Nat BY DEF Init
  <2>2. pc \in [Threads -> PCs] BY DEF Init, PCs
  <2>3. req \in [Threads -> Requests \cup {Nothing}] BY DEF Init
  <2>4. abort \in BOOLEAN BY DEF Init
  <2> QED BY <2>1, <2>2, <2>3, <2>4 DEF TypeOK
<1>2. Waiters = {}
  <2>1. \A t \in Threads : t \notin Waiters BY DEF Init, Waiters
  <2> QED BY <2>1 DEF Waiters
<1>3. Cardinality(Waiters) = 0 BY <1>2, FS_EmptySet
<1> QED BY <1>1, <1>3 DEF IInv, WaitersExact, Init

(* Every step of a thread keeps the count.                                  *)
LEMMA NextIInv == IInv /\ [Next]_vars => IInv'
<1> SUFFICES ASSUME IInv, [Next]_vars PROVE IInv' OBVIOUS
<1> USE DEF IInv
<1>1. CASE UNCHANGED vars
  BY <1>1 DEF vars, TypeOK, WaitersExact, Waiters
<1>2. ASSUME NEW r \in Requests, Request(r) PROVE IInv'
  <2>1. Waiters' = Waiters /\ (Failing => Failing') BY <1>2 DEF Request, Waiters, Failing
  <2>2. TypeOK' BY <1>2 DEF Request, TypeOK
  <2> QED BY <2>1, <2>2, <1>2, NobodyMoves DEF Request
<1>3. ASSUME NEW t \in Threads, Start(t) PROVE IInv'
  <2>1. /\ pc' \in [Threads -> PCs] /\ \A u \in Threads \ {t} : pc'[u] = pc[u]
        /\ pc[t] = "start" /\ pc'[t] = "loop"
    BY <1>3 DEF Start, Goto, TypeOK, PCs
  <2>2. t \in Waiters /\ t \notin Waiters' /\ (Failing => Failing')
    BY <2>1, <1>3 DEF Waiters, Failing, Start
  <2>3. numWaiters' \in Nat /\ WaitersExact' BY <2>1, <2>2, <1>3, OneMoves DEF Start
  <2> QED BY <2>1, <2>3, <1>3 DEF Start, TypeOK
<1>4. ASSUME NEW t \in Threads, Loop(t) PROVE IInv'
  <2>1. /\ pc' \in [Threads -> PCs] /\ \A u \in Threads \ {t} : pc'[u] = pc[u]
        /\ pc[t] = "loop" /\ pc'[t] = "read"
    BY <1>4 DEF Loop, Goto, TypeOK, PCs
  <2>2. t \notin Waiters /\ t \in Waiters' /\ (Failing => Failing')
    BY <2>1, <1>4 DEF Waiters, Failing, Loop
  <2>3. numWaiters' \in Nat /\ WaitersExact' BY <2>1, <2>2, <1>4, OneMoves DEF Loop
  <2> QED BY <2>1, <2>3, <1>4 DEF Loop, TypeOK
<1>5. ASSUME NEW t \in Threads, End(t) PROVE IInv'
  <2>1. pc' \in [Threads -> PCs] BY <1>5 DEF End, TypeOK, PCs
  <2>2. CASE t = Main
    <3>1. Waiters' = {} BY <2>2, <1>5 DEF End, Waiters
    <3>2. Cardinality(Waiters') = 0 BY <3>1, FS_EmptySet
    <3> QED BY <2>1, <3>2, <1>5 DEF End, TypeOK, WaitersExact
  <2>3. CASE t # Main
    <3>1. Waiters' \subseteq Waiters /\ Waiters \subseteq Waiters'
      BY <2>1, <2>3, <1>5 DEF End, Waiters
    <3>2. Waiters' = Waiters BY <3>1, Zenon
    <3>3. WaitersExact' BY <3>2, <1>5, NobodyMoves DEF End, Failing
    <3> QED BY <2>1, <3>3, <1>5 DEF End, TypeOK
  <2> QED BY <2>2, <2>3
<1>6. ASSUME NEW t \in Threads, Receive(t) PROVE IInv'
  <2>1. /\ pc' \in [Threads -> PCs] /\ \A u \in Threads \ {t} : pc'[u] = pc[u]
        /\ pc[t] = "read" /\ pc'[t] = "got"
    BY <1>6 DEF Receive, Goto, TypeOK, PCs
  <2>2. t \in Waiters /\ t \in Waiters' /\ (Failing => Failing')
    BY <2>1, <1>6 DEF Waiters, Failing, Receive
  <2>3. numWaiters' \in Nat /\ WaitersExact' BY <2>1, <2>2, <1>6, OneMoves DEF Receive
  <2>4. pending \in Seq(Requests) /\ pending # <<>> BY <1>6 DEF Receive, TypeOK
  <2>5. Head(pending) \in Requests /\ Tail(pending) \in Seq(Requests) BY <2>4
  <2> QED BY <2>1, <2>3, <2>5, <1>6 DEF Receive, TypeOK
<1>7. ASSUME NEW t \in Threads, CountDown(t) PROVE IInv'
  <2>1. /\ pc' \in [Threads -> PCs] /\ \A u \in Threads \ {t} : pc'[u] = pc[u]
        /\ pc[t] = "got" /\ pc'[t] \in {"spawn", "serve"}
    BY <1>7 DEF CountDown, Goto, TypeOK, PCs
  <2>2. t \in Waiters /\ t \notin Waiters' /\ (Failing => Failing')
    BY <2>1, <1>7 DEF Waiters, Failing, CountDown
  <2>3. numWaiters' \in Nat /\ WaitersExact' BY <2>1, <2>2, <1>7, OneMoves DEF CountDown
  <2> QED BY <2>1, <2>3, <1>7 DEF CountDown, TypeOK
<1>8. ASSUME NEW t \in Threads, Spawn(t) PROVE IInv'
  <2>1. /\ pc' \in [Threads -> PCs] /\ \A u \in Threads \ {t} : pc'[u] = pc[u]
        /\ pc[t] = "spawn" /\ pc'[t] = "create"
    BY <1>8 DEF Spawn, Goto, TypeOK, PCs
  <2>2. t \notin Waiters /\ t \in Waiters' /\ (Failing => Failing')
    BY <2>1, <1>8 DEF Waiters, Failing, Spawn
  <2>3. numWaiters' \in Nat /\ WaitersExact' BY <2>1, <2>2, <1>8, OneMoves DEF Spawn
  <2> QED BY <2>1, <2>3, <1>8 DEF Spawn, TypeOK
<1>9. ASSUME NEW t \in Threads, Create(t) PROVE IInv'
  <2> DEFINE new == CHOOSE u \in Threads : pc[u] = "none"
  <2>1. new \in Threads /\ pc[new] = "none" BY <1>9 DEF Create
  <2>2. pc' = [pc EXCEPT ![t] = "serve", ![new] = "start"] /\ pc[t] = "create"
    BY <1>9 DEF Create
  <2> HIDE DEF new
  <2>3. pc' \in [Threads -> PCs] BY <2>1, <2>2 DEF TypeOK, PCs
  <2>4. /\ t \in Waiters /\ t \notin Waiters' /\ new \notin Waiters /\ new \in Waiters'
        /\ t # new
    BY <2>1, <2>2 DEF Waiters, TypeOK
  <2>5. Waiters' = (Waiters \ {t}) \cup {new}
    <3>1. \A u \in Threads : u # t /\ u # new => pc'[u] = pc[u]
      BY <2>1, <2>2 DEF TypeOK
    <3>2. \A u : u \in Waiters' <=> u \in (Waiters \ {t}) \cup {new}
      BY <3>1, <2>1, <2>4 DEF Waiters
    <3> QED BY <3>2, Zenon
  <2>6. Cardinality(Waiters') = Cardinality(Waiters)
    <3> DEFINE A == Waiters  B == Waiters \ {t}  C == Waiters'
    <3>1. IsFiniteSet(A) BY SupplicantAssumption, FS_Subset DEF Waiters
    <3>2. t \in A /\ new \notin B /\ C = B \cup {new} /\ B = A \ {t} BY <2>4, <2>5
    <3> SUFFICES Cardinality(C) = Cardinality(A) OBVIOUS
    <3> HIDE DEF A, B, C
    <3>3. Cardinality(B) = Cardinality(A) - 1 /\ IsFiniteSet(B) BY <3>1, <3>2, FS_RemoveElement
    <3>4. Cardinality(C) = Cardinality(B) + 1 BY <3>2, <3>3, FS_AddElement
    <3> QED BY <3>1, <3>3, <3>4, FS_CardinalityType
  <2>7. Failing => Failing' BY <2>1, <2>2, <1>9 DEF Failing, Create, TypeOK
  <2>8. WaitersExact' BY <2>6, <2>7, <1>9 DEF Create, WaitersExact, Failing
  <2> QED BY <2>3, <2>8, <1>9 DEF Create, TypeOK
<1>10. ASSUME NEW t \in Threads, CreateFails(t) PROVE IInv'
  <2>1. /\ pc' \in [Threads -> PCs] /\ \A u \in Threads \ {t} : pc'[u] = pc[u]
        /\ pc[t] = "create" /\ pc'[t] = "failed"
    BY <1>10 DEF CreateFails, Goto, TypeOK, PCs
  <2>2. t \in Waiters /\ t \notin Waiters' /\ (Failing => Failing')
    BY <2>1, <1>10 DEF Waiters, Failing, CreateFails
  <2>3. numWaiters' \in Nat /\ WaitersExact' BY <2>1, <2>2, <1>10, OneMoves DEF CreateFails
  <2> QED BY <2>1, <2>3, <1>10 DEF CreateFails, TypeOK
<1>11. ASSUME NEW t \in Threads, Answer(t) PROVE IInv'
  <2>1. /\ pc' \in [Threads -> PCs] /\ \A u \in Threads \ {t} : pc'[u] = pc[u]
        /\ pc[t] = "serve" /\ pc'[t] = "loop"
    BY <1>11 DEF Answer, Goto, TypeOK, PCs
  <2>2. t \notin Waiters /\ t \notin Waiters' /\ (Failing => Failing')
    BY <2>1, <1>11 DEF Waiters, Failing, Answer
  <2>3. numWaiters' \in Nat /\ WaitersExact' BY <2>1, <2>2, <1>11, OneMoves DEF Answer
  <2> QED BY <2>1, <2>3, <1>11 DEF Answer, TypeOK
<1>12. ASSUME NEW t \in Threads, Fails(t) PROVE IInv'
  <2>1. /\ pc' \in [Threads -> PCs] /\ \A u \in Threads \ {t} : pc'[u] = pc[u]
        /\ pc[t] \in {"read", "got", "serve"} /\ pc'[t] = "failed"
    BY <1>12 DEF Fails, Goto, TypeOK, PCs
  <2>2. t \notin Waiters' /\ Failing' BY <2>1 DEF Waiters, Failing
  <2>3. numWaiters' \in Nat /\ WaitersExact' BY <2>1, <2>2, <1>12, OneMoves DEF Fails
  <2> QED BY <2>1, <2>3, <1>12 DEF Fails, TypeOK
<1>13. ASSUME NEW t \in Threads, Abort(t) PROVE IInv'
  <2>1. /\ pc' \in [Threads -> PCs] /\ \A u \in Threads \ {t} : pc'[u] = pc[u]
        /\ pc[t] = "failed" /\ pc'[t] = "loop"
    BY <1>13 DEF Abort, Goto, TypeOK, PCs
  <2>2. t \notin Waiters /\ t \notin Waiters' /\ Failing'
    BY <2>1, <1>13 DEF Waiters, Failing, Abort
  <2>3. numWaiters' \in Nat /\ WaitersExact' BY <2>1, <2>2, <1>13, OneMoves DEF Abort
  <2> QED BY <2>1, <2>3, <1>13 DEF Abort, TypeOK
<1> QED BY <1>1, <1>2, <1>3, <1>4, <1>5, <1>6, <1>7, <1>8, <1>9, <1>10, <1>11,
           <1>12, <1>13 DEF Next

(* num_waiters is never less than the threads in front of the driver, so    *)
(* the assertion of num_waiters_dec holds, and it is their number until an  *)
(* error stops the loops.                                                   *)
THEOREM WaitersCorrect == Spec => [](TypeOK /\ WaitersExact)
<1>1. IInv => TypeOK /\ WaitersExact BY DEF IInv
<1> QED BY InitIInv, NextIInv, <1>1, PTL DEF Spec
=============================================================================
