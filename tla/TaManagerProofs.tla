-------------------------- MODULE TaManagerProofs --------------------------
(***************************************************************************)
(* The TA manager counts the references to its sessions and contexts       *)
(* exactly, uses neither after it is freed, and runs one call at a time in *)
(* an instance; no wakeup is lost, no threads wait for each other and,     *)
(* unless a single-instance TA reaches itself, the core does not panic:    *)
(* for every number of threads, TAs, sessions and contexts, and for calls  *)
(* nested to any depth.                                                    *)
(***************************************************************************)
EXTENDS TaManager, FiniteSetTheorems, TLAPS, WellFoundedInduction

----------------------------------------------------------------------------
(* Counting the elements of a finite set.                                   *)

(* Two sets that agree except on t differ in size by t's membership.        *)
LEMMA CountMove ==
  ASSUME NEW T, IsFiniteSet(T), NEW A \in SUBSET T, NEW B \in SUBSET T, NEW t,
         A \ {t} = B \ {t}
  PROVE  /\ Cardinality(A) \in Nat /\ Cardinality(B) \in Nat
         /\ t \in A /\ t \in B => Cardinality(B) = Cardinality(A)
         /\ t \notin A /\ t \notin B => Cardinality(B) = Cardinality(A)
         /\ t \in A /\ t \notin B => Cardinality(B) = Cardinality(A) - 1
         /\ t \notin A /\ t \in B => Cardinality(B) = Cardinality(A) + 1
<1>1. IsFiniteSet(A) /\ IsFiniteSet(B) BY FS_Subset
<1>2. Cardinality(A) \in Nat /\ Cardinality(B) \in Nat
  BY <1>1, FS_CardinalityType
<1>3. Cardinality(A \ {t}) = IF t \in A THEN Cardinality(A) - 1 ELSE Cardinality(A)
  BY <1>1, FS_RemoveElement
<1>4. Cardinality(B \ {t}) = IF t \in B THEN Cardinality(B) - 1 ELSE Cardinality(B)
  BY <1>1, FS_RemoveElement
<1>5. Cardinality(A \ {t}) = Cardinality(B \ {t}) OBVIOUS
<1> QED BY <1>2, <1>3, <1>4, <1>5

(* A set with an element is not counted as empty.                           *)
LEMMA CountPositive ==
  ASSUME NEW T, IsFiniteSet(T), NEW A \in SUBSET T, NEW t \in A
  PROVE  Cardinality(A) \in Nat /\ Cardinality(A) > 0
<1>1. IsFiniteSet(A) BY FS_Subset
<1>2. Cardinality(A) \in Nat /\ Cardinality(A) # 0
  BY <1>1, FS_CardinalityType, FS_EmptySet
<1> QED BY <1>2

(* A set counted as one element holds no two.                               *)
LEMMA CountOne ==
  ASSUME NEW T, IsFiniteSet(T), NEW A \in SUBSET T, Cardinality(A) = 1,
         NEW t \in A, NEW u \in A
  PROVE  t = u
<1>1. IsFiniteSet(A) BY FS_Subset
<1>2. \E x : A = {x} BY <1>1, FS_Singleton
<1> QED BY <1>2

Ops == {"open", "invoke", "close", "cancel"}

FrameSet ==
  [op : Ops, ta : Tas \cup {NoTa}, key : Lists \X (Ids \cup {0}), x : 0 .. MaxCtx, pc : Pcs,
   held : BOOLEAN]

SessSet ==
  [ctx : 0 .. MaxCtx, ref_count : Nat, lock_thread : Threads \cup {NoThread}, unlink : BOOLEAN]

CtxSet ==
  [ta : Tas \cup {NoTa}, ref_count : Nat, busy : BOOLEAN, is_initializing : BOOLEAN,
   is_releasing : BOOLEAN, panicked : BOOLEAN]

(* An element is on a list once. *)
NoRepeats(q) == \A i, j \in 1 .. Len(q) : q[i] = q[j] => i = j

Types ==
  /\ open_sessions \in [Lists -> Seq(Ids)]
  /\ sess \in [Keys -> SessSet]
  /\ ctx \in [Ctxs -> CtxSet]
  /\ tee_ctxes \in Seq(Ctxs)
  /\ si_thread \in Threads \cup {NoThread}
  /\ si_count \in Nat
  /\ stack \in [Threads -> Seq(FrameSet)]
  /\ IsFiniteSet(Frames)
  /\ \A l \in Lists : NoRepeats(open_sessions[l])
  /\ NoRepeats(tee_ctxes)

----------------------------------------------------------------------------
(* What a frame has at each of its steps. *)
Running == {"ta", "release", "release_state", "clear"}
Ending == {"close", "unlink", "unlinking", "drop", "destroy"}
InContext == Running \cup Ending \cup {"load", "busy"}

Shape(f) ==
  /\ f.pc \in {"init", "find", "load", "init_fail"} => f.op = "open" /\ f.ta \in Tas
  /\ f.pc \in Ending => f.op = "close"
  /\ f.pc \in {"get", "lock"} => f.op # "open"
  /\ f.pc = "put" => f.op # "close"
  /\ f.op = "cancel" => f.pc \in {"get", "put"}
  /\ f.pc \in {"init", "drop", "destroy"} => f.key[2] = 0
  /\ f.key[2] = 0 => f.pc \in {"init", "clear", "drop", "destroy"}
  /\ f.key[2] = 0 /\ f.pc = "clear" => f.op = "close"
  /\ f.x # 0 <=> f.pc \in InContext \/ (f.pc = "put" /\ f.op # "cancel")
  /\ f.pc \in Running => f.held
  /\ f.held => f.pc \in Running \cup {"unlink", "unlinking"}

(* A frame calls the one above it, for a session on the list of its context. *)
Calling == {"ta", "release_state", "destroy"}

Chain(p) ==
  IF p[2] = 1 THEN F(p).key[1] = 0
  ELSE LET g == F(<<p[1], p[2] - 1>>) IN g.pc \in Calling /\ g.x = F(p).key[1]

StackInv == \A p \in Frames : Shape(F(p)) /\ Chain(p)

----------------------------------------------------------------------------
(* A session: who has a reference to it, and who has it locked. *)
On(k) == {p \in Frames : F(p).key = k}
Users(k) == {p \in Frames : F(p).key = k /\ F(p).pc # "get"}
Locks(f) == f.pc \notin {"get", "lock"} /\ f.op # "cancel"

SessInv(k) ==
  /\ On(k) # {} => Exists(k)
  /\ \A p \in On(k) : Locks(F(p)) => sess[k].lock_thread = p[1] /\ sess[k].ctx = F(p).x
  /\ \A p, q \in On(k) : Locks(F(p)) /\ Locks(F(q)) => p = q
  /\ sess[k].lock_thread # NoThread =>
       \E p \in On(k) : Locks(F(p)) /\ p[1] = sess[k].lock_thread
  /\ sess[k].ref_count = Cardinality(Users(k))
  /\ \A p, q \in On(k) : p # q /\ F(p).op \in {"open", "close"} =>
       F(p).op = "close" /\ F(q).op \notin {"open", "close"} /\ F(q).pc # "get"
  /\ k[1] = 0 /\ k[2] \in known =>
       Exists(k) /\ \A p \in On(k) : F(p).op \notin {"open", "close"}
  /\ Exists(k) /\ sess[k].ctx = 0 => \E p \in On(k) : F(p).pc \in {"find", "init_fail"}
  /\ sess[k].unlink => \E p \in On(k) : F(p).pc = "unlinking"

----------------------------------------------------------------------------
(* A context: what refers to it, and who runs in it. *)
SessOf(x) == {k \in Keys : Exists(k) /\ sess[k].ctx = x}
Going(x) == {p \in Frames : F(p).x = x /\ F(p).key[2] = 0 /\ F(p).pc \in {"clear", "drop"}}
In(x) == {p \in Frames : F(p).x = x}
Listed(x) == x \in Elements(tee_ctxes)

CtxInv(x) ==
  /\ Listed(x) <=> ctx[x].ta # NoTa /\ ~ctx[x].is_releasing
  /\ ctx[x].ta = NoTa => ctx[x] = NoCtx /\ open_sessions[x] = << >>
  /\ ctx[x].ref_count = Cardinality(SessOf(x)) + Cardinality(Going(x))
  /\ ctx[x].ta # NoTa /\ ctx[x].ref_count = 0 =>
       KeepAlive(x) \/ \E p \in In(x) : F(p).pc = "destroy"
  /\ \A p \in In(x) : F(p).pc = "destroy" =>
       /\ ctx[x].ref_count = 0 /\ ctx[x].ta # NoTa /\ ctx[x].is_releasing
       /\ KeepAlive(x) => ctx[x].panicked /\ ~KeepCrashed(x)
       /\ \A q \in In(x) : F(q).pc = "destroy" => q = p
  /\ \A p \in In(x) : F(p).pc = "load" =>
       /\ ctx[x].is_initializing /\ ~ctx[x].is_releasing /\ ctx[x].ref_count = 1
       /\ open_sessions[x] = << >>

BusyInv(x) ==
  /\ \A p, q \in In(x) : F(p).held /\ F(q).held => p = q
  /\ ctx[x].busy <=> \E p \in In(x) : F(p).held

(* The registered instances of a single-instance TA. *)
OneListed ==
  \A x, y \in Ctxs : /\ Listed(x) /\ Listed(y) /\ ctx[x].ta = ctx[y].ta
                     /\ "SINGLE_INSTANCE" \in Flags[ctx[x].ta]
                     => x = y

(* The single-instance lock. *)
Single == {p \in Frames : F(p).held /\ Has(F(p).x, "SINGLE_INSTANCE")}

SingleInv ==
  /\ \A p \in Single : p[1] = si_thread
  /\ si_count = Cardinality(Single)
  /\ si_thread = NoThread <=> si_count = 0

IInv ==
  /\ Types /\ StackInv
  /\ \A k \in Keys : SessInv(k)
  /\ \A x \in Ctxs : CtxInv(x) /\ BusyInv(x)
  /\ OneListed /\ SingleInv

----------------------------------------------------------------------------
(* Operators on sequences and sets of numbers. *)

(* A set of natural numbers has a least element. *)
LEMMA LeastExists ==
  ASSUME NEW S \in SUBSET Nat, S # {}
  PROVE  \E x \in S : \A y \in S : x <= y
<1> DEFINE R == {p \in Nat \X Nat : p[1] < p[2]}
<1>1. IsWellFoundedOn(R, Nat)
  BY NatLessThanWellFounded, Zenon DEF OpToRel
<1>2. PICK x \in S : \A y \in S : ~(<<y, x>> \in R)
  <2> HIDE DEF R
  <2> QED BY <1>1, WFMin
<1>3. \A y \in S : ~(y < x)
  BY <1>2
<1> QED BY <1>3

(* TAILQ_REMOVE takes the element off the list and leaves the others on it  *)
(* once.                                                                    *)
LEMMA WithoutEffect ==
  ASSUME NEW S, NEW q \in Seq(S), NoRepeats(q), NEW e
  PROVE  /\ Without(q, e) \in Seq(S) /\ NoRepeats(Without(q, e))
         /\ \A d : d \in Elements(Without(q, e)) <=> d \in Elements(q) /\ d # e
<1>1. CASE e \notin Elements(q)
  <2>1. Without(q, e) = q
    BY <1>1 DEF Without
  <2> QED BY <2>1, <1>1
<1>2. CASE e \in Elements(q)
  <2>1. \E i \in 1 .. Len(q) : q[i] = e
    BY <1>2 DEF Elements
  <2>2. PICK i \in 1 .. Len(q) : /\ q[i] = e
                                 /\ Without(q, e) = SubSeq(q, 1, i - 1) \o SubSeq(q, i + 1, Len(q))
    BY <1>2, <2>1 DEF Without
  <2>3. PICK r : r = SubSeq(q, 1, i - 1) \o SubSeq(q, i + 1, Len(q))
    OBVIOUS
  <2>4. /\ r \in Seq(S) /\ Len(r) = Len(q) - 1
        /\ \A j \in 1 .. Len(r) : r[j] = IF j < i THEN q[j] ELSE q[j + 1]
    <3>1. PICK a, b : a = SubSeq(q, 1, i - 1) /\ b = SubSeq(q, i + 1, Len(q))
      OBVIOUS
    <3>2. a \in Seq(S) /\ Len(a) = i - 1 /\ \A j \in 1 .. i - 1 : a[j] = q[j]
      BY <3>1
    <3>3. b \in Seq(S) /\ Len(b) = Len(q) - i /\ \A j \in 1 .. Len(q) - i : b[j] = q[i + j]
      BY <3>1
    <3>6. r = a \o b
      BY <2>3, <3>1
    <3>4. r \in Seq(S) /\ Len(r) = Len(q) - 1
      BY <3>2, <3>3, <3>6
    <3>5. ASSUME NEW j \in 1 .. Len(r) PROVE r[j] = IF j < i THEN q[j] ELSE q[j + 1]
      <4>1. r[j] = IF j <= Len(a) THEN a[j] ELSE b[j - Len(a)]
        BY <3>2, <3>3, <3>4, <3>6
      <4> QED BY <4>1, <3>2, <3>3, <3>4
    <3> QED BY <3>4, <3>5
  <2>5. NoRepeats(r)
    <3> SUFFICES ASSUME NEW j \in 1 .. Len(r), NEW k \in 1 .. Len(r), r[j] = r[k]
                 PROVE  j = k
      BY DEF NoRepeats
    <3> DEFINE J == IF j < i THEN j ELSE j + 1
               K == IF k < i THEN k ELSE k + 1
    <3>1. J \in 1 .. Len(q) /\ K \in 1 .. Len(q) /\ q[J] = q[K]
      BY <2>4
    <3>2. J = K
      <4> HIDE DEF J, K
      <4> QED BY <3>1 DEF NoRepeats
    <3> QED BY <3>2
  <2>6. ASSUME NEW d PROVE d \in Elements(r) <=> d \in Elements(q) /\ d # e
    <3>1. ASSUME d \in Elements(r) PROVE d \in Elements(q) /\ d # e
      <4>1. PICK j \in 1 .. Len(r) : d = r[j]
        BY <3>1 DEF Elements
      <4>2. PICK J \in 1 .. Len(q) : d = q[J] /\ J # i
        BY <4>1, <2>4
      <4> QED BY <4>2, <2>2 DEF Elements, NoRepeats
    <3>2. ASSUME d \in Elements(q), d # e PROVE d \in Elements(r)
      <4>1. PICK J \in 1 .. Len(q) : d = q[J]
        BY <3>2 DEF Elements
      <4>2. J # i
        BY <4>1, <3>2, <2>2
      <4>3. CASE J < i
        <5>1. J \in 1 .. Len(r) /\ r[J] = d
          BY <4>1, <4>3, <2>4
        <5> QED BY <5>1 DEF Elements
      <4>4. CASE J > i
        <5>1. J - 1 \in 1 .. Len(r) /\ r[J - 1] = d
          BY <4>1, <4>4, <2>4
        <5> QED BY <5>1 DEF Elements
      <4> QED BY <4>2, <4>3, <4>4
    <3> QED BY <3>1, <3>2
  <2> QED BY <2>2, <2>3, <2>4, <2>5, <2>6
<1> QED BY <1>1, <1>2

(* TAILQ_INSERT_TAIL of an element that is not on the list. *)
LEMMA AppendEffect ==
  ASSUME NEW S, NEW q \in Seq(S), NoRepeats(q), NEW e \in S, e \notin Elements(q)
  PROVE  /\ Append(q, e) \in Seq(S) /\ NoRepeats(Append(q, e))
         /\ \A d : d \in Elements(Append(q, e)) <=> d \in Elements(q) \/ d = e
<1>1. PICK r : r = Append(q, e)
  OBVIOUS
<1>2. /\ r \in Seq(S) /\ Len(r) = Len(q) + 1 /\ r[Len(q) + 1] = e
      /\ \A j \in 1 .. Len(q) : r[j] = q[j]
  BY <1>1
<1>3. \A j \in 1 .. Len(q) : q[j] # e
  BY DEF Elements
<1>4. NoRepeats(r)
  <2> SUFFICES ASSUME NEW j \in 1 .. Len(r), NEW k \in 1 .. Len(r), r[j] = r[k]
               PROVE  j = k
    BY DEF NoRepeats
  <2> QED BY <1>2, <1>3 DEF NoRepeats
<1>5. ASSUME NEW d PROVE d \in Elements(r) <=> d \in Elements(q) \/ d = e
  <2>1. d \in Elements(r) <=> \E j \in 1 .. Len(r) : d = r[j]
    BY DEF Elements
  <2>2. d \in Elements(q) <=> \E j \in 1 .. Len(q) : d = q[j]
    BY DEF Elements
  <2> QED BY <2>1, <2>2, <1>2
<1> QED BY <1>1, <1>2, <1>4, <1>5

----------------------------------------------------------------------------
(* The stacks.  A step changes the frame at one position p, adds one there  *)
(* or takes it away.                                                        *)
Moves(p) ==
  /\ \A q : q # p => (q \in Frames' <=> q \in Frames)
  /\ \A q \in Frames : q # p => F(q)' = F(q)

(* The positions. *)
LEMMA FrameIs ==
  ASSUME NEW p
  PROVE  p \in Frames <=> \E t \in Threads : \E i \in 1 .. Len(stack[t]) : p = <<t, i>>
BY DEF Frames

(* The top of a stack is replaced. *)
LEMMA BecomeEffect ==
  ASSUME Types, NEW t \in Threads, stack[t] # << >>, NEW g \in FrameSet, Become(t, g),
         NEW p, p = <<t, Len(stack[t])>>
  PROVE  /\ p \in Frames /\ F(p) = Top(t) /\ F(p) \in FrameSet
         /\ p \in Frames' /\ F(p)' = g /\ Moves(p) /\ p[1] = t
         /\ stack' \in [Threads -> Seq(FrameSet)] /\ IsFiniteSet(Frames')
<1>1. /\ stack \in [Threads -> Seq(FrameSet)] /\ Len(stack[t]) \in 1 .. Len(stack[t])
      /\ IsFiniteSet(Frames)
  BY DEF Types
<1>2. stack' = [stack EXCEPT ![t] = [stack[t] EXCEPT ![Len(stack[t])] = g]]
  BY DEF Become
<1>3. /\ stack' \in [Threads -> Seq(FrameSet)]
      /\ \A u \in Threads : Len(stack'[u]) = Len(stack[u])
      /\ stack'[t][Len(stack[t])] = g
      /\ \A u \in Threads : \A i \in 1 .. Len(stack[u]) :
           <<u, i>> # p => stack'[u][i] = stack[u][i]
  <2>1. PICK r : r = [stack[t] EXCEPT ![Len(stack[t])] = g]
    OBVIOUS
  <2>2. /\ r \in Seq(FrameSet) /\ Len(r) = Len(stack[t]) /\ r[Len(stack[t])] = g
        /\ \A i \in 1 .. Len(stack[t]) : i # Len(stack[t]) => r[i] = stack[t][i]
    BY <1>1, <2>1
  <2> QED BY <1>1, <1>2, <2>1, <2>2
<1>4. Frames' = Frames
  BY <1>3 DEF Frames
<1>5. p \in Frames
  BY <1>1, FrameIs
<1>6. \A q \in Frames : q # p => F(q)' = F(q)
  BY <1>3, FrameIs DEF F
<1>7. F(p) = Top(t) /\ F(p)' = g /\ F(p) \in FrameSet
  BY <1>1, <1>3 DEF F, Top
<1> QED BY <1>1, <1>3, <1>4, <1>5, <1>6, <1>7 DEF Moves

(* A call is added on top. *)
LEMMA PushEffect ==
  ASSUME Types, NEW t \in Threads, NEW g \in FrameSet, Push(t, g),
         NEW p, p = <<t, Len(stack[t]) + 1>>
  PROVE  /\ p \notin Frames /\ p \in Frames' /\ F(p)' = g /\ Moves(p) /\ p[1] = t
         /\ stack' \in [Threads -> Seq(FrameSet)] /\ IsFiniteSet(Frames')
<1>1. stack \in [Threads -> Seq(FrameSet)] /\ IsFiniteSet(Frames)
  BY DEF Types
<1>2. stack' = [stack EXCEPT ![t] = Append(stack[t], g)]
  BY DEF Push
<1>3. /\ stack' \in [Threads -> Seq(FrameSet)]
      /\ \A u \in Threads : u # t => stack'[u] = stack[u]
      /\ Len(stack'[t]) = Len(stack[t]) + 1 /\ stack'[t][Len(stack[t]) + 1] = g
      /\ \A i \in 1 .. Len(stack[t]) : stack'[t][i] = stack[t][i]
  BY <1>1, <1>2
<1>4. p \notin Frames
  BY <1>1, FrameIs
<1>5. ASSUME NEW q PROVE q \in Frames' <=> q \in Frames \/ q = p
  <2>1. q \in Frames' <=> \E u \in Threads : \E i \in 1 .. Len(stack'[u]) : q = <<u, i>>
    BY DEF Frames
  <2>2. \A i : i \in 1 .. Len(stack'[t]) <=> i \in 1 .. Len(stack[t]) \/ i = Len(stack[t]) + 1
    BY <1>1, <1>3
  <2> QED BY <1>3, <2>1, <2>2, FrameIs
<1>6. Frames' = Frames \cup {p}
  BY <1>5
<1>7. IsFiniteSet(Frames')
  BY <1>1, <1>6, FS_AddElement
<1>8. \A q \in Frames : F(q)' = F(q)
  BY <1>3, FrameIs DEF F
<1>9. F(p)' = g
  BY <1>3 DEF F
<1> QED BY <1>3, <1>4, <1>6, <1>7, <1>8, <1>9 DEF Moves

(* The top call returns. *)
LEMMA ReturnEffect ==
  ASSUME Types, NEW t \in Threads, stack[t] # << >>, Return(t),
         NEW p, p = <<t, Len(stack[t])>>
  PROVE  /\ p \in Frames /\ F(p) = Top(t) /\ F(p) \in FrameSet
         /\ p \notin Frames' /\ Moves(p) /\ p[1] = t
         /\ stack' \in [Threads -> Seq(FrameSet)] /\ IsFiniteSet(Frames')
         /\ \A u \in Threads : u # t => stack'[u] = stack[u]
         /\ Len(stack'[t]) = Len(stack[t]) - 1
         /\ \A i \in 1 .. Len(stack[t]) - 1 : stack'[t][i] = stack[t][i]
<1>1. /\ stack \in [Threads -> Seq(FrameSet)] /\ Len(stack[t]) \in 1 .. Len(stack[t])
      /\ IsFiniteSet(Frames)
  BY DEF Types
<1>2. stack' = [stack EXCEPT ![t] = SubSeq(stack[t], 1, Len(stack[t]) - 1)]
  BY DEF Return
<1>3. /\ stack' \in [Threads -> Seq(FrameSet)]
      /\ \A u \in Threads : u # t => stack'[u] = stack[u]
      /\ Len(stack'[t]) = Len(stack[t]) - 1
      /\ \A i \in 1 .. Len(stack[t]) - 1 : stack'[t][i] = stack[t][i]
  BY <1>1, <1>2
<1>4. p \in Frames
  BY <1>1, FrameIs
<1>5. ASSUME NEW q PROVE q \in Frames' <=> q \in Frames /\ q # p
  <2>1. q \in Frames' <=> \E u \in Threads : \E i \in 1 .. Len(stack'[u]) : q = <<u, i>>
    BY DEF Frames
  <2>2. \A i : i \in 1 .. Len(stack'[t]) <=> i \in 1 .. Len(stack[t]) /\ i # Len(stack[t])
    BY <1>1, <1>3
  <2>3. (\E i \in 1 .. Len(stack'[t]) : q = <<t, i>>)
           <=> (\E i \in 1 .. Len(stack[t]) : q = <<t, i>>) /\ q # p
    BY <2>2
  <2>4. \A u \in Threads : u # t =>
          /\ 1 .. Len(stack'[u]) = 1 .. Len(stack[u])
          /\ \A i : <<u, i>> # p
    BY <1>3
  <2> QED BY <2>1, <2>3, <2>4, FrameIs
<1>6. IsFiniteSet(Frames')
  BY <1>1, <1>5, FS_Subset
<1>7. \A q \in Frames : q # p => F(q)' = F(q)
  <2> SUFFICES ASSUME NEW q \in Frames, q # p PROVE F(q)' = F(q)
    OBVIOUS
  <2>1. PICK u \in Threads : \E i \in 1 .. Len(stack[u]) : q = <<u, i>>
    BY FrameIs
  <2>3. PICK i \in 1 .. Len(stack[u]) : q = <<u, i>>
    BY <2>1
  <2>2. u = t => i \in 1 .. Len(stack[t]) - 1
    BY <1>1, <2>3
  <2> QED BY <1>3, <2>2, <2>3 DEF F
<1>8. F(p) = Top(t) /\ F(p) \in FrameSet
  BY <1>1 DEF F, Top
<1> QED BY <1>3, <1>4, <1>5, <1>6, <1>7, <1>8 DEF Moves

----------------------------------------------------------------------------
(* What the invariant says of two frames. *)

(* A frame is well-formed; its session, if any, is one of the table.        *)
LEMMA FrameFacts ==
  ASSUME Types, StackInv, NEW p \in Frames
  PROVE  /\ F(p) \in FrameSet /\ Shape(F(p)) /\ Chain(p)
         /\ F(p).key \in Lists \X (Ids \cup {0}) /\ F(p).x \in 0 .. MaxCtx
         /\ F(p).key[2] # 0 => F(p).key \in Keys
         /\ F(p).x # 0 => F(p).x \in Ctxs
         /\ p[1] \in Threads
<1>1. F(p) \in FrameSet /\ p[1] \in Threads
  <2>1. PICK t \in Threads : \E i \in 1 .. Len(stack[t]) : p = <<t, i>>
    BY FrameIs
  <2> QED BY <2>1 DEF Types, F
<1>2. F(p).key \in Lists \X (Ids \cup {0}) /\ F(p).x \in 0 .. MaxCtx
  BY <1>1 DEF FrameSet
<1>3. F(p).x # 0 => F(p).x \in Ctxs
  BY <1>2, ManagerAssumption DEF Ctxs
<1>4. F(p).key[2] # 0 => F(p).key \in Keys
  BY <1>2 DEF Keys
<1> QED BY <1>1, <1>2, <1>3, <1>4 DEF StackInv

(* Sessions and frames are finitely many. *)
LEMMA FiniteTable ==
  IsFiniteSet(Keys)
<1>1. IsFiniteSet(Lists) /\ IsFiniteSet(Ids)
  BY ManagerAssumption, FS_Interval DEF Lists, Ids
<1> QED BY <1>1, FS_Product DEF Keys

(* Who is in a context keeps it: it has a reference unless it destroys it.  *)
LEMMA InUse ==
  ASSUME IInv, NEW x \in Ctxs, NEW p \in Frames, F(p).x = x
  PROVE  /\ ctx[x].ta # NoTa
         /\ F(p).pc # "destroy" => ctx[x].ref_count \in Nat /\ ctx[x].ref_count > 0
         /\ F(p).key[2] # 0 =>
              /\ Locks(F(p)) /\ F(p).key \in SessOf(x) /\ p \in On(F(p).key)
              /\ F(p).key \in Keys
         /\ F(p).key[2] = 0 => F(p).pc = "destroy" \/ p \in Going(x)
<1>1. /\ Types /\ StackInv /\ CtxInv(x) /\ IsFiniteSet(Frames) /\ ctx[x] \in CtxSet
      /\ x # 0
  BY ManagerAssumption DEF IInv, Types, Ctxs
<1>2. /\ F(p) \in FrameSet /\ Shape(F(p))
      /\ F(p).key[2] # 0 => F(p).key \in Keys
  BY <1>1, FrameFacts
<1>3. Going(x) \in SUBSET Frames /\ SessOf(x) \in SUBSET Keys
  BY DEF Going, SessOf
<1>4. /\ Cardinality(Going(x)) \in Nat /\ Cardinality(SessOf(x)) \in Nat
      /\ Going(x) # {} => Cardinality(Going(x)) > 0
      /\ SessOf(x) # {} => Cardinality(SessOf(x)) > 0
  <2>1. IsFiniteSet(Going(x)) /\ IsFiniteSet(SessOf(x))
    BY <1>1, <1>3, FiniteTable, FS_Subset
  <2>2. Cardinality(Going(x)) \in Nat /\ Cardinality(SessOf(x)) \in Nat
    BY <2>1, FS_CardinalityType
  <2>3. Going(x) # {} => Cardinality(Going(x)) # 0
    BY <2>1, FS_EmptySet
  <2>4. SessOf(x) # {} => Cardinality(SessOf(x)) # 0
    BY <2>1, FS_EmptySet
  <2> QED BY <2>2, <2>3, <2>4
<1>5. ctx[x].ref_count = Cardinality(SessOf(x)) + Cardinality(Going(x))
  BY <1>1 DEF CtxInv
<1>6. ctx[x].ta = NoTa => ctx[x].ref_count = 0
  BY <1>1 DEF CtxInv, NoCtx
<1>7. ASSUME F(p).key[2] # 0
      PROVE  /\ Locks(F(p)) /\ F(p).key \in SessOf(x) /\ p \in On(F(p).key)
             /\ F(p).pc # "destroy"
  <2>1. Locks(F(p)) /\ F(p).pc # "destroy"
    BY <1>1, <1>2, <1>7 DEF Locks, Shape, InContext, Running, Ending
  <2>2. p \in On(F(p).key) /\ SessInv(F(p).key)
    BY <1>2, <1>7 DEF On, IInv
  <2>3. Exists(F(p).key) /\ sess[F(p).key].ctx = F(p).x
    BY <2>1, <2>2 DEF SessInv
  <2> QED BY <1>2, <1>7, <2>1, <2>2, <2>3 DEF SessOf
<1>8. ASSUME F(p).key[2] = 0 PROVE F(p).pc = "destroy" \/ p \in Going(x)
  BY <1>1, <1>2, <1>8 DEF Shape, Going, InContext, Running, Ending
<1>9. F(p).pc = "destroy" => ctx[x].ta # NoTa
  BY <1>1 DEF CtxInv, In
<1> QED BY <1>2, <1>4, <1>5, <1>6, <1>7, <1>8, <1>9

(* Who destroys a context is alone in it, and no session is left.           *)
LEMMA DestroyAlone ==
  ASSUME IInv, NEW x \in Ctxs, NEW p \in Frames, F(p).x = x, F(p).pc = "destroy"
  PROVE  /\ \A q \in Frames : F(q).x = x => q = p
         /\ ctx[x].ref_count = 0 /\ ctx[x].ta # NoTa /\ ctx[x].is_releasing
<1>1. /\ ctx[x].ref_count = 0 /\ ctx[x].ta # NoTa /\ ctx[x].is_releasing
      /\ \A q \in Frames : F(q).x = x /\ F(q).pc = "destroy" => q = p
  BY DEF IInv, CtxInv, In
<1>2. ASSUME NEW q \in Frames, F(q).x = x PROVE F(q).pc = "destroy"
  BY <1>1, <1>2, InUse
<1> QED BY <1>1, <1>2

(* Who loads a context is alone in it.                                      *)
LEMMA LoadAlone ==
  ASSUME IInv, NEW x \in Ctxs, NEW p \in Frames, F(p).x = x, F(p).pc = "load"
  PROVE  /\ \A q \in Frames : F(q).x = x => q = p
         /\ ctx[x].is_initializing /\ ~ctx[x].is_releasing /\ ctx[x].ref_count = 1
         /\ open_sessions[x] = << >> /\ SessOf(x) = {F(p).key} /\ Going(x) = {}
<1>1. /\ ctx[x].is_initializing /\ ~ctx[x].is_releasing /\ ctx[x].ref_count = 1
      /\ open_sessions[x] = << >> /\ IsFiniteSet(Frames) /\ Types /\ StackInv
      /\ ctx[x].ref_count = Cardinality(SessOf(x)) + Cardinality(Going(x))
  BY DEF IInv, CtxInv, In, Types
<1>2. F(p).key[2] # 0
  BY <1>1, FrameFacts DEF Shape
<1>3. F(p).key \in SessOf(x) /\ p \in On(F(p).key) /\ F(p).key \in Keys /\ Locks(F(p))
  BY <1>2, InUse
<1>4. Going(x) \in SUBSET Frames /\ SessOf(x) \in SUBSET Keys
  BY DEF Going, SessOf
<1>5. Cardinality(SessOf(x)) = 1 /\ Cardinality(Going(x)) = 0
  <2>1. Cardinality(SessOf(x)) \in Nat /\ Cardinality(SessOf(x)) > 0
    BY <1>3, <1>4, FiniteTable, CountPositive
  <2>2. Cardinality(Going(x)) \in Nat
    BY <1>1, <1>4, FS_Subset, FS_CardinalityType
  <2> QED BY <1>1, <2>1, <2>2
<1>6. Going(x) = {}
  BY <1>1, <1>4, <1>5, FS_Subset, FS_EmptySet
<1>7. \A k \in SessOf(x) : k = F(p).key
  BY <1>3, <1>4, <1>5, FiniteTable, CountOne
<1>8. ASSUME NEW q \in Frames, F(q).x = x PROVE q = p
  <2>1. F(q).pc # "destroy"
    BY <1>1, <1>8, DestroyAlone
  <2>2. F(q).key[2] # 0
    BY <1>6, <1>8, <2>1, InUse
  <2>3. F(q).key \in SessOf(x) /\ q \in On(F(q).key) /\ Locks(F(q))
    BY <1>8, <2>2, InUse
  <2>4. F(q).key = F(p).key
    BY <1>7, <2>3
  <2> QED BY <1>3, <2>3, <2>4 DEF IInv, SessInv
<1> QED BY <1>1, <1>3, <1>6, <1>7, <1>8

(* One frame at most calls from inside a context.                           *)
LEMMA OneCaller ==
  ASSUME IInv, NEW p \in Frames, NEW q \in Frames, F(p).x = F(q).x,
         F(p).pc \in Calling, F(q).pc \in Calling
  PROVE  p = q
<1>1. /\ Types /\ StackInv /\ Shape(F(p)) /\ Shape(F(q))
      /\ F(p).x # 0 => F(p).x \in Ctxs
      /\ BusyInv(F(p).x) \/ F(p).x = 0
  BY FrameFacts DEF IInv
<1>2. F(p).x \in Ctxs /\ BusyInv(F(p).x)
  BY <1>1 DEF Shape, InContext, Calling, Ending, Running
<1>3. CASE F(p).pc = "destroy"
  BY <1>2, <1>3, DestroyAlone
<1>4. CASE F(q).pc = "destroy"
  BY <1>2, <1>4, DestroyAlone
<1>5. CASE F(p).pc # "destroy" /\ F(q).pc # "destroy"
  <2>1. F(p).held /\ F(q).held
    BY <1>1, <1>5 DEF Shape, Calling, Running
  <2> QED BY <1>2, <2>1 DEF BusyInv, In
<1> QED BY <1>3, <1>4, <1>5

(* A call from a TA: the frame below it is in the context the list is of.   *)
LEMMA CallerOf ==
  ASSUME IInv, NEW p \in Frames, F(p).key[1] # 0
  PROVE  \E q \in Frames : /\ q = <<p[1], p[2] - 1>> /\ F(q).pc \in Calling
                           /\ F(q).x = F(p).key[1] /\ p = <<q[1], q[2] + 1>>
<1>1. Types /\ StackInv /\ Chain(p)
  BY FrameFacts DEF IInv
<1>2. PICK t \in Threads : \E i \in 1 .. Len(stack[t]) : p = <<t, i>>
  BY FrameIs
<1>3. PICK i \in 1 .. Len(stack[t]) : p = <<t, i>>
  BY <1>2
<1>4. i # 1
  BY <1>1, <1>3 DEF Chain
<1>5. i - 1 \in 1 .. Len(stack[t]) /\ (i - 1) + 1 = i
  BY <1>1, <1>4 DEF Types
<1>6. <<t, i - 1>> \in Frames
  BY <1>5, FrameIs
<1> QED BY <1>1, <1>3, <1>4, <1>5, <1>6 DEF Chain

(* At most one call at a time is made with the sessions of a TA.            *)
LEMMA OneCall ==
  ASSUME IInv, NEW p \in Frames, NEW q \in Frames, F(p).key[1] # 0,
         F(p).key[1] = F(q).key[1]
  PROVE  p = q
<1>1. PICK a \in Frames : /\ F(a).pc \in Calling /\ F(a).x = F(p).key[1]
                          /\ p = <<a[1], a[2] + 1>>
  BY CallerOf
<1>2. PICK b \in Frames : /\ F(b).pc \in Calling /\ F(b).x = F(q).key[1]
                          /\ q = <<b[1], b[2] + 1>>
  BY CallerOf
<1>3. a = b
  BY <1>1, <1>2, OneCaller
<1> QED BY <1>1, <1>2, <1>3

(* A call of the normal world is a thread's first.                          *)
LEMMA FirstFrame ==
  ASSUME IInv, NEW r \in Frames, F(r).key[1] = 0
  PROVE  r[2] = 1 /\ r = <<r[1], 1>>
<1>1. /\ Types /\ StackInv /\ Chain(r)
  BY FrameFacts DEF IInv
<1>2. PICK t \in Threads : \E i \in 1 .. Len(stack[t]) : r = <<t, i>>
  BY FrameIs
<1>3. PICK i \in 1 .. Len(stack[t]) : r = <<t, i>>
  BY <1>2
<1>4. ASSUME i # 1 PROVE FALSE
  <2>1. i - 1 \in 1 .. Len(stack[t])
    BY <1>1, <1>4 DEF Types
  <2>2. PICK s : s = <<t, i - 1>>
    OBVIOUS
  <2>3. s \in Frames
    BY <2>1, <2>2, FrameIs
  <2>4. Shape(F(s))
    BY <1>1, <2>3, FrameFacts
  <2>5. F(s).pc \in Calling /\ F(s).x = F(r).key[1]
    BY <1>1, <1>3, <1>4, <2>2 DEF Chain
  <2> QED BY <2>4, <2>5 DEF Shape, Calling, InContext, Running, Ending
<1> QED BY <1>3, <1>4

(* A thread has one call on a session at a time.                            *)
LEMMA OneOfThread ==
  ASSUME IInv, NEW p \in Frames, NEW q \in Frames, F(p).key[1] = F(q).key[1], p[1] = q[1]
  PROVE  p = q
<1>1. CASE F(p).key[1] # 0
  BY <1>1, OneCall
<1>2. CASE F(p).key[1] = 0
  <2>1. p = <<p[1], 1>> /\ q = <<q[1], 1>>
    BY <1>2, FirstFrame
  <2> QED BY <2>1
<1> QED BY <1>1, <1>2

----------------------------------------------------------------------------
(* How a step on a stack keeps the shape of the stacks. *)

(* Where the frame below another is, and what it says. *)
LEMMA ChainOf ==
  ASSUME NEW t \in Threads, NEW i
  PROVE  Chain(<<t, i>>) <=> IF i = 1 THEN stack[t][i].key[1] = 0
                             ELSE /\ stack[t][i - 1].pc \in Calling
                                  /\ stack[t][i - 1].x = stack[t][i].key[1]
BY DEF Chain, F

(* The stacks frame by frame. *)
LEMMA StackIs ==
  StackInv <=> \A t \in Threads : \A i \in 1 .. Len(stack[t]) :
                  Shape(stack[t][i]) /\ Chain(<<t, i>>)
<1>1. \A t \in Threads : \A i \in 1 .. Len(stack[t]) : <<t, i>> \in Frames
  BY FrameIs
<1>2. \A t, i : F(<<t, i>>) = stack[t][i]
  BY DEF F
<1>3. ASSUME StackInv, NEW t \in Threads, NEW i \in 1 .. Len(stack[t])
      PROVE  Shape(stack[t][i]) /\ Chain(<<t, i>>)
  BY <1>1, <1>2, <1>3 DEF StackInv
<1>4. ASSUME \A t \in Threads : \A i \in 1 .. Len(stack[t]) :
                  Shape(stack[t][i]) /\ Chain(<<t, i>>)
      PROVE  StackInv
  <2> SUFFICES ASSUME NEW p \in Frames PROVE Shape(F(p)) /\ Chain(p)
    BY DEF StackInv
  <2>1. PICK t \in Threads : \E i \in 1 .. Len(stack[t]) : p = <<t, i>>
    BY FrameIs
  <2> QED BY <2>1, <1>2, <1>4
<1> QED BY <1>3, <1>4

(* The same of the next state. *)
LEMMA StackIsNext ==
  ASSUME \A t \in Threads : \A i \in 1 .. Len(stack'[t]) :
            /\ Shape(stack'[t][i])
            /\ IF i = 1 THEN stack'[t][i].key[1] = 0
               ELSE /\ stack'[t][i - 1].pc \in Calling
                    /\ stack'[t][i - 1].x = stack'[t][i].key[1]
  PROVE  StackInv'
<1> SUFFICES ASSUME NEW p \in Frames' PROVE Shape(F(p)') /\ Chain(p)'
  BY DEF StackInv
<1>1. PICK t \in Threads : \E i \in 1 .. Len(stack'[t]) : p = <<t, i>>
  BY DEF Frames
<1>2. PICK i \in 1 .. Len(stack'[t]) : p = <<t, i>>
  BY <1>1
<1> QED BY <1>2 DEF Chain, F

(* The top is replaced by a well-formed frame on the same list. *)
LEMMA BecomeStack ==
  ASSUME Types, StackInv, NEW t \in Threads, stack[t] # << >>, NEW g \in FrameSet,
         Become(t, g), Shape(g), g.key[1] = Top(t).key[1]
  PROVE  StackInv'
<1>1. stack \in [Threads -> Seq(FrameSet)] /\ Len(stack[t]) \in 1 .. Len(stack[t])
  BY DEF Types
<1>2. stack' = [stack EXCEPT ![t] = [stack[t] EXCEPT ![Len(stack[t])] = g]]
  BY DEF Become
<1>3. PICK r : r = [stack[t] EXCEPT ![Len(stack[t])] = g]
  OBVIOUS
<1>4. /\ r \in Seq(FrameSet) /\ Len(r) = Len(stack[t]) /\ r[Len(stack[t])] = g
      /\ \A i \in 1 .. Len(stack[t]) : i # Len(stack[t]) => r[i] = stack[t][i]
  BY <1>1, <1>3
<1>5. stack'[t] = r /\ \A u \in Threads : u # t => stack'[u] = stack[u]
  BY <1>1, <1>2, <1>3
<1>6. \A u \in Threads : \A i \in 1 .. Len(stack[u]) :
         /\ Shape(stack[u][i])
         /\ IF i = 1 THEN stack[u][i].key[1] = 0
            ELSE /\ stack[u][i - 1].pc \in Calling
                 /\ stack[u][i - 1].x = stack[u][i].key[1]
  BY StackIs, ChainOf
<1>7. ASSUME NEW u \in Threads, NEW i \in 1 .. Len(stack'[u])
      PROVE  /\ Shape(stack'[u][i])
             /\ IF i = 1 THEN stack'[u][i].key[1] = 0
                ELSE /\ stack'[u][i - 1].pc \in Calling
                     /\ stack'[u][i - 1].x = stack'[u][i].key[1]
  <2>1. CASE u # t
    BY <1>5, <1>6, <2>1
  <2>2. CASE u = t
    <3>1. i \in 1 .. Len(stack[t]) /\ stack'[u] = r
      BY <1>4, <1>5, <2>2
    <3>2. r[i].key[1] = stack[t][i].key[1] /\ Shape(r[i])
      BY <1>4, <1>6, <3>1 DEF Top
    <3>3. i # 1 => i - 1 \in 1 .. Len(stack[t]) /\ i - 1 # Len(stack[t])
      BY <1>1, <3>1
    <3>4. i # 1 => r[i - 1] = stack[t][i - 1]
      BY <1>4, <3>3
    <3> QED BY <1>6, <3>1, <3>2, <3>4
  <2> QED BY <2>1, <2>2
<1> QED BY <1>7, StackIsNext

(* A call from a TA, or the first call of a thread. *)
LEMMA PushStack ==
  ASSUME Types, StackInv, NEW t \in Threads, NEW g \in FrameSet, Push(t, g), Shape(g),
         \/ stack[t] = << >> /\ g.key[1] = 0
         \/ stack[t] # << >> /\ Top(t).pc \in Calling /\ Top(t).x = g.key[1]
  PROVE  StackInv'
<1>1. stack \in [Threads -> Seq(FrameSet)] /\ Len(stack[t]) \in Nat
  BY DEF Types
<1>2. stack' = [stack EXCEPT ![t] = Append(stack[t], g)]
  BY DEF Push
<1>3. PICK r : r = Append(stack[t], g)
  OBVIOUS
<1>4. /\ r \in Seq(FrameSet) /\ Len(r) = Len(stack[t]) + 1 /\ r[Len(stack[t]) + 1] = g
      /\ \A i \in 1 .. Len(stack[t]) : r[i] = stack[t][i]
  BY <1>1, <1>3
<1>5. stack'[t] = r /\ \A u \in Threads : u # t => stack'[u] = stack[u]
  BY <1>1, <1>2, <1>3
<1>6. \A u \in Threads : \A i \in 1 .. Len(stack[u]) :
         /\ Shape(stack[u][i])
         /\ IF i = 1 THEN stack[u][i].key[1] = 0
            ELSE /\ stack[u][i - 1].pc \in Calling
                 /\ stack[u][i - 1].x = stack[u][i].key[1]
  BY StackIs, ChainOf
<1>7. ASSUME NEW u \in Threads, NEW i \in 1 .. Len(stack'[u])
      PROVE  /\ Shape(stack'[u][i])
             /\ IF i = 1 THEN stack'[u][i].key[1] = 0
                ELSE /\ stack'[u][i - 1].pc \in Calling
                     /\ stack'[u][i - 1].x = stack'[u][i].key[1]
  <2>1. CASE u # t
    BY <1>5, <1>6, <2>1
  <2>2. CASE u = t /\ i \in 1 .. Len(stack[t])
    <3>1. stack'[u] = r /\ r[i] = stack[t][i]
      BY <1>4, <1>5, <2>2
    <3>2. i # 1 => i - 1 \in 1 .. Len(stack[t])
      BY <1>1, <2>2
    <3>3. i # 1 => r[i - 1] = stack[t][i - 1]
      BY <1>4, <3>2
    <3> QED BY <1>6, <2>2, <3>1, <3>3
  <2>3. CASE u = t /\ i = Len(stack[t]) + 1
    <3>1. stack'[u] = r /\ r[i] = g
      BY <1>4, <1>5, <2>3
    <3>2. CASE stack[t] = << >>
      <4>1. i = 1
        BY <2>3, <3>2
      <4> QED BY <3>1, <3>2, <4>1
    <3>3. CASE stack[t] # << >>
      <4>1. i # 1 /\ i - 1 = Len(stack[t]) /\ i - 1 \in 1 .. Len(stack[t])
        BY <1>1, <2>3, <3>3
      <4>2. r[i - 1] = Top(t)
        BY <1>4, <4>1 DEF Top
      <4> QED BY <3>1, <3>3, <4>1, <4>2
    <3> QED BY <3>2, <3>3
  <2>4. u = t => i \in 1 .. Len(stack[t]) \/ i = Len(stack[t]) + 1
    BY <1>1, <1>4, <1>5
  <2> QED BY <2>1, <2>2, <2>3, <2>4
<1> QED BY <1>7, StackIsNext

(* The top returns. *)
LEMMA ReturnStack ==
  ASSUME Types, StackInv, NEW t \in Threads, stack[t] # << >>, Return(t)
  PROVE  StackInv'
<1>1. stack \in [Threads -> Seq(FrameSet)] /\ Len(stack[t]) \in 1 .. Len(stack[t])
  BY DEF Types
<1>3. /\ \A u \in Threads : u # t => stack'[u] = stack[u]
      /\ Len(stack'[t]) = Len(stack[t]) - 1
      /\ \A i \in 1 .. Len(stack[t]) - 1 : stack'[t][i] = stack[t][i]
  BY ReturnEffect
<1>4. \A u \in Threads : \A i \in 1 .. Len(stack[u]) :
         /\ Shape(stack[u][i])
         /\ IF i = 1 THEN stack[u][i].key[1] = 0
            ELSE /\ stack[u][i - 1].pc \in Calling
                 /\ stack[u][i - 1].x = stack[u][i].key[1]
  BY StackIs, ChainOf
<1>5. ASSUME NEW u \in Threads, NEW i \in 1 .. Len(stack'[u])
      PROVE  /\ Shape(stack'[u][i])
             /\ IF i = 1 THEN stack'[u][i].key[1] = 0
                ELSE /\ stack'[u][i - 1].pc \in Calling
                     /\ stack'[u][i - 1].x = stack'[u][i].key[1]
  <2>1. CASE u # t
    BY <1>3, <1>4, <2>1
  <2>2. CASE u = t
    <3>1. i \in 1 .. Len(stack[t]) /\ stack'[t][i] = stack[t][i]
      BY <1>1, <1>3, <2>2
    <3>2. i # 1 => i - 1 \in 1 .. Len(stack[t]) - 1
      BY <1>1, <1>3, <2>2
    <3>3. i # 1 => stack'[t][i - 1] = stack[t][i - 1]
      BY <1>3, <3>2
    <3> QED BY <1>4, <2>2, <3>1, <3>3
  <2> QED BY <2>1, <2>2
<1> QED BY <1>5, StackIsNext

----------------------------------------------------------------------------
(* What a step means for a session, by what happens to the frame at p. *)

(* The frames on a session and its users change at p only. *)
LEMMA OnMoves ==
  ASSUME NEW k, NEW p, Moves(p), IsFiniteSet(Frames), IsFiniteSet(Frames')
  PROVE  /\ \A q : q # p => (q \in On(k)' <=> q \in On(k))
         /\ \A q \in On(k) : q # p => F(q)' = F(q)
         /\ p \in On(k) <=> p \in Frames /\ F(p).key = k
         /\ p \in On(k)' <=> p \in Frames' /\ F(p)'.key = k
         /\ Cardinality(Users(k)) \in Nat /\ Cardinality(Users(k)') \in Nat
         /\ p \in Users(k) <=> p \in On(k) /\ F(p).pc # "get"
         /\ p \in Users(k)' <=> p \in On(k)' /\ F(p)'.pc # "get"
         /\ (p \in Users(k) <=> p \in Users(k)') => Cardinality(Users(k)') = Cardinality(Users(k))
         /\ p \notin Users(k) /\ p \in Users(k)' =>
              Cardinality(Users(k)') = Cardinality(Users(k)) + 1
         /\ p \in Users(k) /\ p \notin Users(k)' =>
              Cardinality(Users(k)') = Cardinality(Users(k)) - 1
<1>1. \A q : q # p => (q \in Frames' <=> q \in Frames)
  BY DEF Moves
<1>2. \A q \in Frames : q # p => F(q)' = F(q)
  BY DEF Moves
<1>3. /\ \A q : q # p => (q \in On(k)' <=> q \in On(k))
      /\ \A q \in On(k) : q # p => F(q)' = F(q)
      /\ p \in On(k) <=> p \in Frames /\ F(p).key = k
      /\ p \in On(k)' <=> p \in Frames' /\ F(p)'.key = k
  BY <1>1, <1>2 DEF On
<1>4. PICK A, B : A = Users(k) /\ B = Users(k)'
  OBVIOUS
<1>5. /\ A \subseteq Frames /\ B \subseteq Frames'
      /\ p \in A <=> p \in Frames /\ F(p).key = k /\ F(p).pc # "get"
      /\ p \in B <=> p \in Frames' /\ F(p)'.key = k /\ F(p)'.pc # "get"
      /\ A \ {p} = B \ {p}
  BY <1>1, <1>2, <1>4 DEF Users
<1>6. PICK T : T = Frames \cup Frames'
  OBVIOUS
<1>7. IsFiniteSet(T) /\ A \in SUBSET T /\ B \in SUBSET T
  BY <1>5, <1>6, FS_Union
<1>8. /\ Cardinality(A) \in Nat /\ Cardinality(B) \in Nat
      /\ p \in A /\ p \in B => Cardinality(B) = Cardinality(A)
      /\ p \notin A /\ p \notin B => Cardinality(B) = Cardinality(A)
      /\ p \in A /\ p \notin B => Cardinality(B) = Cardinality(A) - 1
      /\ p \notin A /\ p \in B => Cardinality(B) = Cardinality(A) + 1
  BY <1>5, <1>7, CountMove
<1> QED BY <1>3, <1>4, <1>5, <1>8

(* The step is on another session. *)
LEMMA SessAway ==
  ASSUME NEW k, SessInv(k), NEW p, Moves(p), IsFiniteSet(Frames), IsFiniteSet(Frames'),
         p \in Frames => F(p).key # k, p \in Frames' => F(p)'.key # k,
         sess'[k] = sess[k], Exists(k)' <=> Exists(k),
         k[1] = 0 /\ k[2] \in known' => k[2] \in known
  PROVE  SessInv(k)'
<1>1. /\ \A q : q # p => (q \in On(k)' <=> q \in On(k))
      /\ \A q \in On(k) : q # p => F(q)' = F(q)
      /\ p \notin On(k) /\ p \notin On(k)'
  BY OnMoves
<1>3. Cardinality(Users(k)') = Cardinality(Users(k))
  BY OnMoves
<1>2. /\ On(k)' = On(k)
      /\ \A q \in On(k) : F(q)' = F(q)
  BY <1>1
<1> QED BY <1>2, <1>3 DEF SessInv, Locks

(* The call that has the session goes on with it. *)
LEMMA SessStay ==
  ASSUME NEW k \in Keys, SessInv(k), NEW p, Moves(p), IsFiniteSet(Frames), IsFiniteSet(Frames'),
         p \in Frames, F(p).key = k, p \in Frames', F(p)'.key = k,
         Locks(F(p)), Locks(F(p)'), Shape(F(p)'), F(p)' \in FrameSet,
         sess'[k].lock_thread = sess[k].lock_thread, sess'[k].ref_count = sess[k].ref_count,
         sess'[k].ctx = F(p)'.x,
         sess'[k].unlink => F(p)'.pc = "unlinking" \/ (sess[k].unlink /\ F(p).pc # "unlinking"),
         Exists(k)' <=> Exists(k), known' = known,
         F(p)'.op = F(p).op \/ (F(p).op = "open" /\ F(p)'.op = "close")
  PROVE  SessInv(k)'
<1>1. /\ \A q : q # p => (q \in On(k)' <=> q \in On(k))
      /\ \A q \in On(k) : q # p => F(q)' = F(q)
      /\ p \in On(k) /\ p \in On(k)'
  BY OnMoves
<1>2. p \in Users(k) /\ p \in Users(k)'
  BY <1>1, OnMoves DEF Locks
<1>3. Cardinality(Users(k)') = Cardinality(Users(k))
  BY <1>2, OnMoves
<1>4. On(k)' = On(k)
  BY <1>1
<1>5. \A q \in On(k) : q # p => ~Locks(F(q)) /\ ~Locks(F(q)')
  BY <1>1 DEF SessInv
<1>6. On(k)' # {} => Exists(k)'
  BY <1>4 DEF SessInv
<1>7. \A q \in On(k)' : Locks(F(q)') => sess'[k].lock_thread = q[1] /\ sess'[k].ctx = F(q)'.x
  BY <1>1, <1>4, <1>5 DEF SessInv
<1>8. \A q, r \in On(k)' : Locks(F(q)') /\ Locks(F(r)') => q = r
  BY <1>4, <1>5
<1>9. sess'[k].lock_thread # NoThread =>
        \E q \in On(k)' : Locks(F(q)') /\ q[1] = sess'[k].lock_thread
  BY <1>1, <1>4 DEF SessInv
<1>10. sess'[k].ref_count = Cardinality(Users(k)')
  BY <1>3 DEF SessInv
<1>11. \A q, r \in On(k)' : q # r /\ F(q)'.op \in {"open", "close"} =>
         F(q)'.op = "close" /\ F(r)'.op \notin {"open", "close"} /\ F(r)'.pc # "get"
  <2> SUFFICES ASSUME NEW q \in On(k), NEW r \in On(k), q # r, F(q)'.op \in {"open", "close"}
               PROVE  F(q)'.op = "close" /\ F(r)'.op \notin {"open", "close"} /\ F(r)'.pc # "get"
    BY <1>4
  <2>1. F(q).op \in {"open", "close"}
    BY <1>1
  <2>2. F(q).op = "close" /\ F(r).op \notin {"open", "close"} /\ F(r).pc # "get"
    BY <2>1 DEF SessInv
  <2> QED BY <1>1, <2>2 DEF Locks
<1>12. k[1] = 0 /\ k[2] \in known' =>
         Exists(k)' /\ \A q \in On(k)' : F(q)'.op \notin {"open", "close"}
  <2> SUFFICES ASSUME k[1] = 0, k[2] \in known
               PROVE  Exists(k)' /\ \A q \in On(k)' : F(q)'.op \notin {"open", "close"}
    OBVIOUS
  <2>1. Exists(k) /\ \A q \in On(k) : F(q).op \notin {"open", "close"}
    BY DEF SessInv
  <2> QED BY <1>1, <1>4, <2>1
<1>13. sess'[k].ctx = 0 => F(p)'.pc \in {"find", "init_fail"}
  <2>1. k[2] # 0
    BY ManagerAssumption DEF Keys, Ids
  <2>2. PICK f : f = F(p)'
    OBVIOUS
  <2>3. Shape(f) /\ f.pc \in Pcs /\ Locks(f) /\ f.key[2] # 0 /\ f.x = sess'[k].ctx
    BY <2>1, <2>2 DEF FrameSet
  <2>4. f.x = 0 => f.pc \in {"find", "init_fail"}
    BY <2>3 DEF Shape, Locks, InContext, Running, Ending, Pcs
  <2> QED BY <2>2, <2>3, <2>4
<1>14. sess'[k].unlink => \E q \in On(k)' : F(q)'.pc = "unlinking"
  <2>1. CASE F(p)'.pc = "unlinking"
    BY <1>1, <2>1
  <2>2. CASE sess[k].unlink /\ F(p).pc # "unlinking"
    <3>1. PICK q \in On(k) : F(q).pc = "unlinking"
      BY <2>2 DEF SessInv
    <3> QED BY <1>1, <2>2, <3>1
  <2> QED BY <2>1, <2>2
<1> QED BY <1>1, <1>6, <1>7, <1>8, <1>9, <1>10, <1>11, <1>12, <1>13, <1>14 DEF SessInv

(* A call takes its reference, or the lock it waited for. *)
LEMMA SessGet ==
  ASSUME NEW k \in Keys, SessInv(k), NEW p, Moves(p), IsFiniteSet(Frames), IsFiniteSet(Frames'),
         p \in Frames, F(p).key = k, p \in Frames', F(p)'.key = k,
         F(p).pc \in {"get", "lock"}, F(p)'.pc # "get", F(p)'.op = F(p).op,
         F(p).pc = "get" => sess'[k].ref_count = sess[k].ref_count + 1,
         F(p).pc = "lock" => sess'[k].ref_count = sess[k].ref_count,
         sess'[k].ctx = sess[k].ctx, sess'[k].unlink = sess[k].unlink,
         ~Locks(F(p)') => sess'[k].lock_thread = sess[k].lock_thread,
         Locks(F(p)') => /\ sess[k].lock_thread = NoThread /\ sess'[k].lock_thread = p[1]
                         /\ F(p)'.x = sess[k].ctx /\ p[1] \in Threads,
         Exists(k)' <=> Exists(k), known' = known
  PROVE  SessInv(k)'
<1>1. /\ \A q : q # p => (q \in On(k)' <=> q \in On(k))
      /\ \A q \in On(k) : q # p => F(q)' = F(q)
      /\ p \in On(k) /\ p \in On(k)'
  BY OnMoves
<1>2. p \in Users(k)' /\ (p \in Users(k) <=> F(p).pc = "lock")
  BY <1>1, OnMoves
<1>3. /\ Cardinality(Users(k)) \in Nat
      /\ F(p).pc = "lock" => Cardinality(Users(k)') = Cardinality(Users(k))
      /\ F(p).pc = "get" => Cardinality(Users(k)') = Cardinality(Users(k)) + 1
  <2>1. Cardinality(Users(k)) \in Nat
    BY OnMoves
  <2>2. F(p).pc = "lock" => Cardinality(Users(k)') = Cardinality(Users(k))
    BY <1>2, OnMoves
  <2>3. F(p).pc = "get" => Cardinality(Users(k)') = Cardinality(Users(k)) + 1
    BY <1>2, OnMoves
  <2> QED BY <2>1, <2>2, <2>3
<1>4. On(k)' = On(k)
  BY <1>1
<1>5. ~Locks(F(p)) /\ \A q \in On(k) : q # p => (Locks(F(q)) <=> Locks(F(q)'))
  BY <1>1 DEF Locks
<1>15. Locks(F(p)') => \A q \in On(k) : ~Locks(F(q))
  <2>1. \A q \in On(k) : Locks(F(q)) => sess[k].lock_thread = q[1]
    BY DEF SessInv
  <2>2. \A q \in On(k) : q[1] # NoThread \/ ~Locks(F(q))
    <3> SUFFICES ASSUME NEW q \in On(k), q[1] = NoThread PROVE ~Locks(F(q))
      OBVIOUS
    <3>1. q \in Frames
      BY DEF On
    <3>2. q[1] \in Threads
      BY <3>1, FrameIs
    <3> QED BY <3>2, ManagerAssumption
  <2> QED BY <2>1, <2>2
<1>6. On(k)' # {} => Exists(k)'
  BY <1>4 DEF SessInv
<1>7. \A q \in On(k)' : Locks(F(q)') => sess'[k].lock_thread = q[1] /\ sess'[k].ctx = F(q)'.x
  <2> SUFFICES ASSUME NEW q \in On(k), Locks(F(q)')
               PROVE  sess'[k].lock_thread = q[1] /\ sess'[k].ctx = F(q)'.x
    BY <1>4
  <2>1. CASE q = p
    BY <2>1
  <2>2. CASE q # p
    <3>1. Locks(F(q)) /\ F(q)' = F(q)
      BY <1>1, <1>5, <2>2
    <3>2. sess[k].lock_thread = q[1] /\ sess[k].ctx = F(q).x
      BY <3>1 DEF SessInv
    <3> QED BY <1>15, <3>1, <3>2
  <2> QED BY <2>1, <2>2
<1>8. \A q, r \in On(k)' : Locks(F(q)') /\ Locks(F(r)') => q = r
  <2>1. \A q, r \in On(k) : Locks(F(q)) /\ Locks(F(r)) => q = r
    BY DEF SessInv
  <2> QED BY <1>4, <1>5, <1>15, <2>1
<1>9. sess'[k].lock_thread # NoThread =>
        \E q \in On(k)' : Locks(F(q)') /\ q[1] = sess'[k].lock_thread
  <2>1. CASE Locks(F(p)')
    BY <1>1, <2>1
  <2>2. CASE ~Locks(F(p)')
    <3>1. sess[k].lock_thread # NoThread =>
            \E q \in On(k) : Locks(F(q)) /\ q[1] = sess[k].lock_thread
      BY DEF SessInv
    <3> QED BY <1>1, <1>5, <2>2, <3>1
  <2> QED BY <2>1, <2>2
<1>10. sess'[k].ref_count = Cardinality(Users(k)')
  BY <1>3 DEF SessInv
<1>11. \A q, r \in On(k)' : q # r /\ F(q)'.op \in {"open", "close"} =>
         F(q)'.op = "close" /\ F(r)'.op \notin {"open", "close"} /\ F(r)'.pc # "get"
  <2> SUFFICES ASSUME NEW q \in On(k), NEW r \in On(k), q # r, F(q)'.op \in {"open", "close"}
               PROVE  F(q)'.op = "close" /\ F(r)'.op \notin {"open", "close"} /\ F(r)'.pc # "get"
    BY <1>4
  <2>1. F(q).op \in {"open", "close"}
    BY <1>1
  <2>2. F(q).op = "close" /\ F(r).op \notin {"open", "close"} /\ F(r).pc # "get"
    BY <2>1 DEF SessInv
  <2> QED BY <1>1, <2>2
<1>12. k[1] = 0 /\ k[2] \in known' =>
         Exists(k)' /\ \A q \in On(k)' : F(q)'.op \notin {"open", "close"}
  <2> SUFFICES ASSUME k[1] = 0, k[2] \in known
               PROVE  Exists(k)' /\ \A q \in On(k)' : F(q)'.op \notin {"open", "close"}
    OBVIOUS
  <2>1. Exists(k) /\ \A q \in On(k) : F(q).op \notin {"open", "close"}
    BY DEF SessInv
  <2> QED BY <1>1, <1>4, <2>1
<1>13. Exists(k)' /\ sess'[k].ctx = 0 => \E q \in On(k)' : F(q)'.pc \in {"find", "init_fail"}
  <2>1. Exists(k) /\ sess[k].ctx = 0 => \E q \in On(k) : F(q).pc \in {"find", "init_fail"}
    BY DEF SessInv
  <2> QED BY <1>1, <1>4, <2>1
<1>14. sess'[k].unlink => \E q \in On(k)' : F(q)'.pc = "unlinking"
  <2>1. sess[k].unlink => \E q \in On(k) : F(q).pc = "unlinking"
    BY DEF SessInv
  <2> QED BY <1>1, <1>4, <2>1
<1> QED BY <1>6, <1>7, <1>8, <1>9, <1>10, <1>11, <1>12, <1>13, <1>14 DEF SessInv

(* A call on the session starts. *)
LEMMA SessCalled ==
  ASSUME NEW k \in Keys, SessInv(k), NEW p, Moves(p), IsFiniteSet(Frames), IsFiniteSet(Frames'),
         p \notin Frames, p \in Frames', F(p)'.key = k, F(p)'.pc = "get", F(p)'.op # "open",
         sess'[k] = sess[k], Exists(k)' <=> Exists(k), Exists(k), known' \subseteq known,
         \A q \in On(k) : /\ F(q).op \notin {"open", "close"}
                          /\ F(p)'.op = "close" => F(q).pc # "get",
         F(p)'.op = "close" => ~(k[1] = 0 /\ k[2] \in known')
  PROVE  SessInv(k)'
<1>1. /\ \A q : q # p => (q \in On(k)' <=> q \in On(k))
      /\ \A q \in On(k) : q # p => F(q)' = F(q)
      /\ p \notin On(k) /\ p \in On(k)'
  BY OnMoves
<1>2. p \notin Users(k)' /\ p \notin Users(k)
  BY <1>1, OnMoves
<1>3. Cardinality(Users(k)') = Cardinality(Users(k))
  BY <1>2, OnMoves
<1>4. /\ \A q : q \in On(k)' <=> q \in On(k) \/ q = p
      /\ \A q \in On(k) : F(q)' = F(q) /\ q # p
      /\ ~Locks(F(p)')
  BY <1>1 DEF Locks
<1>5. \A q \in On(k) : Locks(F(q)) => sess[k].lock_thread = q[1] /\ sess[k].ctx = F(q).x
  BY DEF SessInv
<1>6. \A q, r \in On(k) : Locks(F(q)) /\ Locks(F(r)) => q = r
  BY DEF SessInv
<1>7. sess[k].lock_thread # NoThread =>
        \E q \in On(k) : Locks(F(q)) /\ q[1] = sess[k].lock_thread
  BY DEF SessInv
<1>8. sess'[k].ref_count = Cardinality(Users(k)')
  BY <1>3 DEF SessInv
<1>9. Exists(k) /\ sess[k].ctx = 0 => \E q \in On(k) : F(q).pc \in {"find", "init_fail"}
  BY DEF SessInv
<1>10. sess[k].unlink => \E q \in On(k) : F(q).pc = "unlinking"
  BY DEF SessInv
<1>11. /\ \A q \in On(k)' : Locks(F(q)') => sess'[k].lock_thread = q[1] /\ sess'[k].ctx = F(q)'.x
       /\ \A q, r \in On(k)' : Locks(F(q)') /\ Locks(F(r)') => q = r
  BY <1>4, <1>5, <1>6
<1>12. /\ sess'[k].lock_thread # NoThread =>
            \E q \in On(k)' : Locks(F(q)') /\ q[1] = sess'[k].lock_thread
       /\ Exists(k)' /\ sess'[k].ctx = 0 => \E q \in On(k)' : F(q)'.pc \in {"find", "init_fail"}
       /\ sess'[k].unlink => \E q \in On(k)' : F(q)'.pc = "unlinking"
  BY <1>4, <1>7, <1>9, <1>10
<1>13. \A q, r \in On(k)' : q # r /\ F(q)'.op \in {"open", "close"} =>
         F(q)'.op = "close" /\ F(r)'.op \notin {"open", "close"} /\ F(r)'.pc # "get"
  BY <1>4
<1>14. k[1] = 0 /\ k[2] \in known' =>
         Exists(k)' /\ \A q \in On(k)' : F(q)'.op \notin {"open", "close"}
  <2>1. F(p)'.op # "close" => F(p)'.op \notin {"open", "close"}
    OBVIOUS
  <2> QED BY <1>4, <2>1
<1> QED BY <1>8, <1>11, <1>12, <1>13, <1>14 DEF SessInv

(* A call gives its reference back. *)
LEMMA SessPut ==
  ASSUME NEW k \in Keys, SessInv(k), NEW p, Moves(p), IsFiniteSet(Frames), IsFiniteSet(Frames'),
         p \in Frames, p \notin Frames', F(p).key = k, F(p).pc \in {"put", "lock"},
         sess'[k].ref_count = sess[k].ref_count - 1,
         sess'[k].ctx = sess[k].ctx, sess'[k].unlink = sess[k].unlink,
         Locks(F(p)) => sess'[k].lock_thread = NoThread,
         ~Locks(F(p)) => sess'[k].lock_thread = sess[k].lock_thread,
         Exists(k)' <=> Exists(k),
         k[1] = 0 /\ k[2] \in known' => k[2] \in known \/ F(p).op = "open"
  PROVE  SessInv(k)'
<1>1. /\ \A q : q # p => (q \in On(k)' <=> q \in On(k))
      /\ \A q \in On(k) : q # p => F(q)' = F(q)
      /\ p \in On(k) /\ p \notin On(k)'
  BY OnMoves
<1>2. p \in Users(k) /\ p \notin Users(k)'
  BY <1>1, OnMoves
<1>3. Cardinality(Users(k)') = Cardinality(Users(k)) - 1
  BY <1>2, OnMoves
<1>4. /\ \A q : q \in On(k)' <=> q \in On(k) /\ q # p
      /\ \A q \in On(k)' : F(q)' = F(q) /\ q \in On(k) /\ q # p
  BY <1>1
<1>5. \A q \in On(k) : Locks(F(q)) => sess[k].lock_thread = q[1] /\ sess[k].ctx = F(q).x
  BY DEF SessInv
<1>6. \A q, r \in On(k) : Locks(F(q)) /\ Locks(F(r)) => q = r
  BY DEF SessInv
<1>7. sess[k].lock_thread # NoThread =>
        \E q \in On(k) : Locks(F(q)) /\ q[1] = sess[k].lock_thread
  BY DEF SessInv
<1>8. sess'[k].ref_count = Cardinality(Users(k)')
  BY <1>3 DEF SessInv
<1>9. Exists(k) /\ sess[k].ctx = 0 => \E q \in On(k) : F(q).pc \in {"find", "init_fail"}
  BY DEF SessInv
<1>10. sess[k].unlink => \E q \in On(k) : F(q).pc = "unlinking"
  BY DEF SessInv
<1>11. /\ \A q \in On(k)' : Locks(F(q)') => sess'[k].lock_thread = q[1] /\ sess'[k].ctx = F(q)'.x
       /\ \A q, r \in On(k)' : Locks(F(q)') /\ Locks(F(r)') => q = r
  BY <1>1, <1>4, <1>5, <1>6
<1>12. sess'[k].lock_thread # NoThread =>
         \E q \in On(k)' : Locks(F(q)') /\ q[1] = sess'[k].lock_thread
  <2> SUFFICES ASSUME sess'[k].lock_thread # NoThread
               PROVE  \E q \in On(k)' : Locks(F(q)') /\ q[1] = sess'[k].lock_thread
    OBVIOUS
  <2>1. ~Locks(F(p)) /\ sess'[k].lock_thread = sess[k].lock_thread
    OBVIOUS
  <2> QED BY <1>4, <1>7, <2>1
<1>15. /\ Exists(k)' /\ sess'[k].ctx = 0 => \E q \in On(k)' : F(q)'.pc \in {"find", "init_fail"}
       /\ sess'[k].unlink => \E q \in On(k)' : F(q)'.pc = "unlinking"
  BY <1>4, <1>9, <1>10
<1>16. \A q, r \in On(k) : q # r /\ F(q).op \in {"open", "close"} =>
         F(q).op = "close" /\ F(r).op \notin {"open", "close"} /\ F(r).pc # "get"
  BY DEF SessInv
<1>13. \A q, r \in On(k)' : q # r /\ F(q)'.op \in {"open", "close"} =>
         F(q)'.op = "close" /\ F(r)'.op \notin {"open", "close"} /\ F(r)'.pc # "get"
  BY <1>4, <1>16
<1>14. k[1] = 0 /\ k[2] \in known' =>
         Exists(k)' /\ \A q \in On(k)' : F(q)'.op \notin {"open", "close"}
  <2>1. k[1] = 0 /\ k[2] \in known =>
          Exists(k) /\ \A q \in On(k) : F(q).op \notin {"open", "close"}
    BY DEF SessInv
  <2>2. Exists(k)
    BY <1>1 DEF SessInv
  <2>3. F(p).op = "open" => \A q \in On(k) : q = p
    BY <1>1, <1>16
  <2> QED BY <1>4, <2>1, <2>2, <2>3
<1>17. On(k)' # {} => Exists(k)'
  BY <1>1 DEF SessInv
<1> QED BY <1>8, <1>11, <1>12, <1>13, <1>14, <1>15, <1>17 DEF SessInv

(* A session is made, with its opener's reference and lock. *)
LEMMA SessMade ==
  ASSUME NEW k \in Keys, SessInv(k), NEW p, Moves(p), IsFiniteSet(Frames), IsFiniteSet(Frames'),
         p \in Frames', F(p)'.key = k, Locks(F(p)'), Shape(F(p)'), F(p)' \in FrameSet,
         ~Exists(k), Exists(k)', known' = known,
         sess'[k] = [ctx |-> F(p)'.x, ref_count |-> 1, lock_thread |-> p[1], unlink |-> FALSE]
  PROVE  SessInv(k)'
<1>1. /\ \A q : q # p => (q \in On(k)' <=> q \in On(k))
      /\ p \in On(k)'
  BY OnMoves
<1>2. On(k) = {}
  BY DEF SessInv
<1>3. On(k)' = {p}
  BY <1>1, <1>2
<1>4. p \in Users(k)' /\ Users(k) = {}
  <2>1. p \in Users(k)'
    BY <1>1, OnMoves DEF Locks
  <2> QED BY <1>2, <2>1 DEF Users, On
<1>5. Cardinality(Users(k)') = Cardinality(Users(k)) + 1
  BY <1>4, OnMoves
<1>6. Cardinality(Users(k)) = 0
  BY <1>4, FS_EmptySet
<1>7. /\ sess'[k].ctx = F(p)'.x /\ sess'[k].ref_count = 1 /\ sess'[k].lock_thread = p[1]
      /\ sess'[k].unlink = FALSE
  OBVIOUS
<1>8. ~(k[1] = 0 /\ k[2] \in known')
  BY DEF SessInv
<1>9. sess'[k].ctx = 0 => F(p)'.pc \in {"find", "init_fail"}
  <2>1. k[2] # 0
    BY ManagerAssumption DEF Keys, Ids
  <2>2. PICK f : f = F(p)'
    OBVIOUS
  <2>3. Shape(f) /\ f.pc \in Pcs /\ Locks(f) /\ f.key[2] # 0 /\ f.x = sess'[k].ctx
    BY <1>7, <2>1, <2>2 DEF FrameSet
  <2>4. f.x = 0 => f.pc \in {"find", "init_fail"}
    BY <2>3 DEF Shape, Locks, InContext, Running, Ending, Pcs
  <2> QED BY <2>2, <2>3, <2>4
<1>10. sess'[k].ref_count = Cardinality(Users(k)')
  BY <1>5, <1>6, <1>7
<1> QED BY <1>3, <1>7, <1>8, <1>9, <1>10 DEF SessInv

(* A session goes with the only call on it. *)
LEMMA SessFreed ==
  ASSUME NEW k \in Keys, NEW p, Moves(p), IsFiniteSet(Frames), IsFiniteSet(Frames'),
         \A q \in On(k) : q = p, p \in Frames' => F(p)'.key # k,
         ~(k[1] = 0 /\ k[2] \in known'), ~Exists(k)', sess'[k] = NoSess
  PROVE  SessInv(k)'
<1>1. /\ \A q : q # p => (q \in On(k)' <=> q \in On(k))
      /\ p \notin On(k)'
  BY OnMoves
<1>2. On(k)' = {}
  BY <1>1
<1>3. Users(k)' = {}
  BY <1>2 DEF Users, On
<1>4. Cardinality(Users(k)') = 0
  BY <1>3, FS_EmptySet
<1>5. sess'[k].ref_count = 0 /\ sess'[k].lock_thread = NoThread /\ sess'[k].unlink = FALSE
  BY DEF NoSess
<1> QED BY <1>2, <1>4, <1>5 DEF SessInv

----------------------------------------------------------------------------
(* What a step means for a context. *)

(* The frames of a context change at p only. *)
LEMMA InMoves ==
  ASSUME NEW x, NEW p, Moves(p), IsFiniteSet(Frames), IsFiniteSet(Frames')
  PROVE  /\ \A q : q # p => (q \in In(x)' <=> q \in In(x))
         /\ \A q \in In(x) : q # p => F(q)' = F(q)
         /\ p \in In(x) <=> p \in Frames /\ F(p).x = x
         /\ p \in In(x)' <=> p \in Frames' /\ F(p)'.x = x
         /\ Cardinality(Going(x)) \in Nat /\ Cardinality(Going(x)') \in Nat
         /\ p \in Going(x) <=> p \in In(x) /\ F(p).key[2] = 0 /\ F(p).pc \in {"clear", "drop"}
         /\ p \in Going(x)' <=> p \in In(x)' /\ F(p)'.key[2] = 0 /\ F(p)'.pc \in {"clear", "drop"}
         /\ (p \in Going(x) <=> p \in Going(x)') => Cardinality(Going(x)') = Cardinality(Going(x))
         /\ p \notin Going(x) /\ p \in Going(x)' =>
              Cardinality(Going(x)') = Cardinality(Going(x)) + 1
         /\ p \in Going(x) /\ p \notin Going(x)' =>
              Cardinality(Going(x)') = Cardinality(Going(x)) - 1
<1>1. \A q : q # p => (q \in Frames' <=> q \in Frames)
  BY DEF Moves
<1>2. \A q \in Frames : q # p => F(q)' = F(q)
  BY DEF Moves
<1>3. /\ \A q : q # p => (q \in In(x)' <=> q \in In(x))
      /\ \A q \in In(x) : q # p => F(q)' = F(q)
      /\ p \in In(x) <=> p \in Frames /\ F(p).x = x
      /\ p \in In(x)' <=> p \in Frames' /\ F(p)'.x = x
  BY <1>1, <1>2 DEF In
<1>4. PICK A, B : A = Going(x) /\ B = Going(x)'
  OBVIOUS
<1>5. /\ A \subseteq Frames /\ B \subseteq Frames'
      /\ p \in A <=> p \in In(x) /\ F(p).key[2] = 0 /\ F(p).pc \in {"clear", "drop"}
      /\ p \in B <=> p \in In(x)' /\ F(p)'.key[2] = 0 /\ F(p)'.pc \in {"clear", "drop"}
      /\ A \ {p} = B \ {p}
  BY <1>1, <1>2, <1>3, <1>4 DEF Going
<1>6. PICK T : T = Frames \cup Frames'
  OBVIOUS
<1>7. IsFiniteSet(T) /\ A \in SUBSET T /\ B \in SUBSET T
  BY <1>5, <1>6, FS_Union
<1>8. /\ Cardinality(A) \in Nat /\ Cardinality(B) \in Nat
      /\ p \in A /\ p \in B => Cardinality(B) = Cardinality(A)
      /\ p \notin A /\ p \notin B => Cardinality(B) = Cardinality(A)
      /\ p \in A /\ p \notin B => Cardinality(B) = Cardinality(A) - 1
      /\ p \notin A /\ p \in B => Cardinality(B) = Cardinality(A) + 1
  BY <1>5, <1>7, CountMove
<1> QED BY <1>3, <1>4, <1>5, <1>8

(* A context whose references and registration stay as they are. *)
LEMMA CtxKeep ==
  ASSUME NEW x \in Ctxs, CtxInv(x), NEW p, Moves(p), IsFiniteSet(Frames), IsFiniteSet(Frames'),
         ctx'[x].ta = ctx[x].ta, ctx'[x].ref_count = ctx[x].ref_count,
         ctx'[x].is_releasing = ctx[x].is_releasing, Listed(x)' <=> Listed(x),
         SessOf(x)' = SessOf(x), p \in Going(x) <=> p \in Going(x)',
         ctx[x].ta = NoTa => ctx'[x] = ctx[x] /\ open_sessions'[x] = open_sessions[x],
         p \in Frames /\ F(p).x = x => F(p).pc # "destroy",
         p \in Frames' /\ F(p)'.x = x => F(p)'.pc # "destroy" /\ F(p)'.pc # "load",
         ctx'[x].panicked = ctx[x].panicked \/ ctx[x].ref_count # 0,
         \/ \A q \in Frames : q # p /\ F(q).x = x => F(q).pc # "load"
         \/ /\ ctx'[x].is_initializing = ctx[x].is_initializing
            /\ open_sessions'[x] = open_sessions[x]
  PROVE  CtxInv(x)'
<1>1. /\ \A q : q # p => (q \in In(x)' <=> q \in In(x))
      /\ \A q \in In(x) : q # p => F(q)' = F(q)
      /\ p \in In(x) <=> p \in Frames /\ F(p).x = x
      /\ p \in In(x)' <=> p \in Frames' /\ F(p)'.x = x
  BY InMoves
<1>2. Cardinality(Going(x)') = Cardinality(Going(x))
  BY InMoves
<1>3. /\ Has(x, "SINGLE_INSTANCE")' <=> Has(x, "SINGLE_INSTANCE")
      /\ Has(x, "KEEP_ALIVE")' <=> Has(x, "KEEP_ALIVE")
      /\ Has(x, "KEEP_CRASHED")' <=> Has(x, "KEEP_CRASHED")
  BY DEF Has
<1>4. (KeepAlive(x)' <=> KeepAlive(x)) /\ (KeepCrashed(x)' <=> KeepCrashed(x))
  BY <1>3 DEF KeepAlive, KeepCrashed
<1>5. \A q : q \in In(x)' /\ F(q)'.pc = "destroy" <=> q \in In(x) /\ F(q).pc = "destroy"
  BY <1>1
<1>6. Listed(x)' <=> ctx'[x].ta # NoTa /\ ~ctx'[x].is_releasing
  BY DEF CtxInv
<1>7. ctx'[x].ta = NoTa => ctx'[x] = NoCtx /\ open_sessions'[x] = << >>
  BY DEF CtxInv
<1>8. ctx'[x].ref_count = Cardinality(SessOf(x)') + Cardinality(Going(x)')
  BY <1>2 DEF CtxInv
<1>9. ctx'[x].ta # NoTa /\ ctx'[x].ref_count = 0 =>
        KeepAlive(x)' \/ \E q \in In(x)' : F(q)'.pc = "destroy"
  BY <1>4, <1>5 DEF CtxInv
<1>10. ASSUME NEW q \in In(x)', F(q)'.pc = "destroy"
       PROVE  /\ ctx'[x].ref_count = 0 /\ ctx'[x].ta # NoTa /\ ctx'[x].is_releasing
              /\ KeepAlive(x)' => ctx'[x].panicked /\ ~KeepCrashed(x)'
              /\ \A r \in In(x)' : F(r)'.pc = "destroy" => r = q
  <2>1. q \in In(x) /\ F(q).pc = "destroy"
    BY <1>5, <1>10
  <2>2. /\ ctx[x].ref_count = 0 /\ ctx[x].ta # NoTa /\ ctx[x].is_releasing
        /\ KeepAlive(x) => ctx[x].panicked /\ ~KeepCrashed(x)
        /\ \A r \in In(x) : F(r).pc = "destroy" => r = q
    BY <2>1 DEF CtxInv
  <2> QED BY <1>4, <1>5, <2>2
<1>11. ASSUME NEW q \in In(x)', F(q)'.pc = "load"
       PROVE  /\ ctx'[x].is_initializing /\ ~ctx'[x].is_releasing /\ ctx'[x].ref_count = 1
              /\ open_sessions'[x] = << >>
  <2>1. q # p
    BY <1>1, <1>11
  <2>2. q \in In(x) /\ F(q).pc = "load"
    BY <1>1, <1>11, <2>1
  <2>3. /\ ctx[x].is_initializing /\ ~ctx[x].is_releasing /\ ctx[x].ref_count = 1
        /\ open_sessions[x] = << >>
    BY <2>2 DEF CtxInv
  <2>4. q \in Frames /\ F(q).x = x
    BY <2>2 DEF In
  <2> QED BY <2>1, <2>2, <2>3, <2>4
<1> QED BY <1>6, <1>7, <1>8, <1>9, <1>10, <1>11 DEF CtxInv

(* The busy flag stays, and p runs in the context as before. *)
LEMMA BusyKeep ==
  ASSUME NEW x, BusyInv(x), NEW p, Moves(p), IsFiniteSet(Frames), IsFiniteSet(Frames'),
         ctx'[x].busy = ctx[x].busy,
         (p \in Frames /\ F(p).x = x /\ F(p).held) <=> (p \in Frames' /\ F(p)'.x = x /\ F(p)'.held)
  PROVE  BusyInv(x)'
<1>1. /\ \A q : q # p => (q \in In(x)' <=> q \in In(x))
      /\ \A q \in In(x) : q # p => F(q)' = F(q)
      /\ p \in In(x) <=> p \in Frames /\ F(p).x = x
      /\ p \in In(x)' <=> p \in Frames' /\ F(p)'.x = x
  BY InMoves
<1>2. \A q : q \in In(x)' /\ F(q)'.held <=> q \in In(x) /\ F(q).held
  BY <1>1
<1> QED BY <1>2 DEF BusyInv

(* The single-instance lock stays, and so do the frames that hold it. *)
LEMMA SingleKeep ==
  ASSUME SingleInv, NEW p, Moves(p), si_thread' = si_thread, si_count' = si_count,
         \A q \in Frames : q # p /\ F(q).held => ctx'[F(q).x].ta = ctx[F(q).x].ta,
         p \in Single <=> p \in Single'
  PROVE  SingleInv'
<1>1. \A q : q # p => (q \in Frames' <=> q \in Frames)
  BY DEF Moves
<1>2. \A q \in Frames : q # p => F(q)' = F(q)
  BY DEF Moves
<1>3. \A q : q # p => (q \in Single' <=> q \in Single)
  BY <1>1, <1>2 DEF Single, Has
<1>4. Single' = Single
  BY <1>3
<1> QED BY <1>4 DEF SingleInv

(* Nothing is registered, and what is keeps its TA. *)
LEMMA ListedKeep ==
  ASSUME OneListed, \A x \in Ctxs : Listed(x)' => Listed(x) /\ ctx'[x].ta = ctx[x].ta
  PROVE  OneListed'
BY DEF OneListed

(* No context is made, taken, given up or taken off the list. *)
LEMMA CalmCtx ==
  ASSUME IInv, NEW p, Moves(p), IsFiniteSet(Frames'),
         open_sessions' = open_sessions, tee_ctxes' = tee_ctxes,
         \A k \in Keys : sess'[k].ctx = sess[k].ctx,
         \A x \in Ctxs :
            \/ ctx'[x] = ctx[x]
            \/ /\ p \in Frames /\ F(p).x = x
               /\ ctx'[x].ta = ctx[x].ta /\ ctx'[x].ref_count = ctx[x].ref_count
               /\ ctx'[x].is_releasing = ctx[x].is_releasing
               /\ ctx'[x].is_initializing = ctx[x].is_initializing \/ F(p).pc = "load",
         p \in Frames => F(p).pc # "destroy",
         p \in Frames' => F(p)'.pc # "destroy" /\ F(p)'.pc # "load",
         \A x \in Ctxs : p \in Going(x) <=> p \in Going(x)'
  PROVE  (\A x \in Ctxs : CtxInv(x)') /\ OneListed'
<1>1. ASSUME NEW x \in Ctxs
      PROVE  /\ ctx'[x].ta = ctx[x].ta /\ ctx'[x].ref_count = ctx[x].ref_count
             /\ ctx'[x].is_releasing = ctx[x].is_releasing
             /\ Listed(x)' <=> Listed(x)
  BY DEF Listed
<1>2. ASSUME NEW x \in Ctxs PROVE CtxInv(x)'
  <2>1. CtxInv(x) /\ IsFiniteSet(Frames)
    BY DEF IInv, Types
  <2>2. SessOf(x)' = SessOf(x)
    BY DEF SessOf, Exists
  <2>3. ctx'[x] # ctx[x] =>
          /\ ctx[x].ta # NoTa /\ ctx[x].ref_count # 0
          /\ p \in Frames /\ F(p).x = x
          /\ ctx'[x].is_initializing = ctx[x].is_initializing \/ F(p).pc = "load"
    BY InUse
  <2>4. ctx[x].ta = NoTa => ctx'[x] = ctx[x] /\ open_sessions'[x] = open_sessions[x]
    BY <2>3
  <2>5. ctx'[x].panicked = ctx[x].panicked \/ ctx[x].ref_count # 0
    BY <2>3
  <2>6. \/ \A q \in Frames : q # p /\ F(q).x = x => F(q).pc # "load"
        \/ /\ ctx'[x].is_initializing = ctx[x].is_initializing
           /\ open_sessions'[x] = open_sessions[x]
    <3>1. CASE p \in Frames /\ F(p).x = x /\ F(p).pc = "load"
      BY <3>1, LoadAlone
    <3>2. CASE ~(p \in Frames /\ F(p).x = x /\ F(p).pc = "load")
      BY <2>3, <3>2
    <3> QED BY <3>1, <3>2
  <2> QED BY <1>1, <2>1, <2>2, <2>4, <2>5, <2>6, CtxKeep
<1>3. OneListed'
  BY <1>1, ListedKeep DEF IInv
<1> QED BY <1>2, <1>3

(* Nobody enters or leaves a context. *)
LEMMA CalmBusy ==
  ASSUME IInv, NEW p, Moves(p), IsFiniteSet(Frames'), si_thread' = si_thread, si_count' = si_count,
         \A x \in Ctxs : ctx'[x].busy = ctx[x].busy,
         \A x \in Ctxs : ctx'[x].ta = ctx[x].ta \/ ~ctx[x].busy,
         \A x : (p \in Frames /\ F(p).x = x /\ F(p).held)
                  <=> (p \in Frames' /\ F(p)'.x = x /\ F(p)'.held)
  PROVE  (\A x \in Ctxs : BusyInv(x)') /\ SingleInv'
<1>1. ASSUME NEW x \in Ctxs PROVE BusyInv(x)'
  <2>1. BusyInv(x) /\ IsFiniteSet(Frames)
    BY DEF IInv, Types
  <2> QED BY <2>1, BusyKeep
<1>2. ASSUME NEW q \in Frames, F(q).held PROVE F(q).x \in Ctxs /\ ctx'[F(q).x].ta = ctx[F(q).x].ta
  <2>1. Shape(F(q)) /\ (F(q).x # 0 => F(q).x \in Ctxs)
    BY FrameFacts DEF IInv
  <2>2. F(q).x \in Ctxs
    BY <1>2, <2>1 DEF Shape, InContext, Running, Ending
  <2>3. ctx[F(q).x].busy
    BY <1>2, <2>2 DEF IInv, BusyInv, In
  <2> QED BY <2>2, <2>3
<1>3. p \in Single <=> p \in Single'
  <2>1. p \in Single => p \in Single'
    <3> SUFFICES ASSUME p \in Single PROVE p \in Single'
      OBVIOUS
    <3>1. p \in Frames /\ F(p).held /\ Has(F(p).x, "SINGLE_INSTANCE")
      BY DEF Single
    <3>2. p \in Frames' /\ F(p)'.held /\ F(p)'.x = F(p).x
      BY <3>1
    <3> QED BY <1>2, <3>1, <3>2 DEF Single, Has
  <2>2. p \in Single' => p \in Single
    <3> SUFFICES ASSUME p \in Single' PROVE p \in Single
      OBVIOUS
    <3>1. p \in Frames' /\ F(p)'.held /\ "SINGLE_INSTANCE" \in Flags[ctx'[F(p)'.x].ta]
      BY DEF Single, Has
    <3>2. p \in Frames /\ F(p).held /\ F(p)'.x = F(p).x
      BY <3>1
    <3> QED BY <1>2, <3>1, <3>2 DEF Single, Has
  <2> QED BY <2>1, <2>2
<1>4. SingleInv'
  BY <1>2, <1>3, SingleKeep DEF IInv
<1> QED BY <1>1, <1>4

----------------------------------------------------------------------------
(* The steps. *)

(* The frame a thread works on. *)
LEMMA TopFacts ==
  ASSUME IInv, NEW t \in Threads, stack[t] # << >>, NEW p, p = <<t, Len(stack[t])>>
  PROVE  /\ p \in Frames /\ F(p) = Top(t) /\ p[1] = t
         /\ F(p) \in FrameSet /\ Shape(F(p))
         /\ F(p).key \in Lists \X (Ids \cup {0}) /\ F(p).x \in 0 .. MaxCtx
         /\ F(p).key[2] # 0 => F(p).key \in Keys
         /\ F(p).x # 0 => F(p).x \in Ctxs
         /\ Types /\ StackInv /\ IsFiniteSet(Frames)
<1>1. Types /\ StackInv /\ IsFiniteSet(Frames)
  BY DEF IInv, Types
<1>2. Len(stack[t]) \in 1 .. Len(stack[t])
  BY <1>1 DEF Types
<1>3. p \in Frames
  BY <1>2, FrameIs
<1>4. F(p) = Top(t) /\ p[1] = t
  BY DEF F, Top
<1> QED BY <1>1, <1>3, <1>4, FrameFacts

(* The sessions a step is not about. *)
LEMMA SessOthers ==
  ASSUME IInv, NEW p, Moves(p), IsFiniteSet(Frames'), NEW k,
         p \in Frames => F(p).key = k \/ F(p).key[2] = 0,
         p \in Frames' => F(p)'.key = k \/ F(p)'.key[2] = 0,
         \A j \in Keys : j # k => /\ sess'[j] = sess[j]
                                  /\ Exists(j)' <=> Exists(j)
                                  /\ j[1] = 0 /\ j[2] \in known' => j[2] \in known,
         k \in Keys => SessInv(k)'
  PROVE  \A j \in Keys : SessInv(j)'
<1> SUFFICES ASSUME NEW j \in Keys, j # k PROVE SessInv(j)'
  OBVIOUS
<1>1. SessInv(j) /\ IsFiniteSet(Frames)
  BY DEF IInv, Types
<1>2. j[2] # 0
  BY ManagerAssumption DEF Keys, Ids
<1>3. (p \in Frames => F(p).key # j) /\ (p \in Frames' => F(p)'.key # j)
  BY <1>2
<1> QED BY <1>1, <1>3, SessAway

(* The types of what a step leaves alone. *)
LEMMA TypesKeep ==
  ASSUME Types, stack' \in [Threads -> Seq(FrameSet)], IsFiniteSet(Frames'),
         open_sessions' = open_sessions, tee_ctxes' = tee_ctxes,
         sess' \in [Keys -> SessSet], ctx' \in [Ctxs -> CtxSet],
         si_thread' \in Threads \cup {NoThread}, si_count' \in Nat
  PROVE  Types'
BY DEF Types

(* A call looks up a session that is there, not going, and has a context;   *)
(* the same of one that waited for the lock, if the session is not going.   *)
LEMMA LookedUp ==
  ASSUME IInv, NEW p \in Frames, F(p).pc \in {"get", "lock"}
  PROVE  /\ F(p).key \in Keys /\ Exists(F(p).key) /\ sess[F(p).key] \in SessSet
         /\ sess[F(p).key].ctx \in Ctxs
         /\ F(p).pc = "get" => ~sess[F(p).key].unlink
<1>1. /\ Shape(F(p)) /\ F(p) \in FrameSet
      /\ F(p).key[2] # 0 => F(p).key \in Keys
  BY FrameFacts DEF IInv
<1>2. F(p).key[2] # 0 /\ F(p).op # "open"
  BY <1>1 DEF Shape
<1>3. PICK k \in Keys : k = F(p).key
  BY <1>1, <1>2
<1>4. SessInv(k) /\ sess[k] \in SessSet /\ p \in On(k)
  BY <1>3 DEF IInv, Types, On
<1>5. Exists(k)
  BY <1>4 DEF SessInv
<1>6. \A q \in On(k) : q # p => F(q).op # "open"
  BY <1>4 DEF SessInv
<1>7. ASSUME NEW q \in On(k) PROVE F(q).pc \notin {"find", "init_fail"}
  <2>1. q \in Frames
    BY DEF On
  <2>2. Shape(F(q))
    BY <2>1, FrameFacts DEF IInv
  <2> QED BY <1>2, <1>6, <2>2 DEF Shape
<1>8. sess[k].ctx # 0
  BY <1>4, <1>5, <1>7 DEF SessInv
<1>9. sess[k].ctx \in Ctxs
  BY <1>4, <1>8, ManagerAssumption DEF SessSet, Ctxs
<1>10. ASSUME F(p).pc = "get", sess[k].unlink PROVE FALSE
  <2>1. PICK q \in On(k) : F(q).pc = "unlinking"
    BY <1>4, <1>10 DEF SessInv
  <2>2. q \in Frames
    BY DEF On
  <2>3. Shape(F(q))
    BY <2>2, FrameFacts DEF IInv
  <2>4. F(q).op = "close" /\ q # p
    BY <1>10, <2>1, <2>3 DEF Shape, Ending
  <2> QED BY <1>4, <1>10, <2>4 DEF SessInv
<1> QED BY <1>3, <1>4, <1>5, <1>9, <1>10

(* A frame that goes on, in a context. *)
LEMMA FrameOn ==
  ASSUME NEW f \in FrameSet, NEW a \in 0 .. MaxCtx, NEW b \in Pcs
  PROVE  /\ [f EXCEPT !.x = a, !.pc = b] \in FrameSet
         /\ [f EXCEPT !.pc = b] \in FrameSet
BY DEF FrameSet

(* tee_ta_get_session, with the session to be had. *)
LEMMA GetSessionStep ==
  ASSUME IInv, NEW t \in Threads, GetSession(t)
  PROVE  IInv'
<1>1. PICK p : p = <<t, Len(stack[t])>>
  OBVIOUS
<1>2. stack[t] # << >> /\ Top(t).pc = "get"
  BY DEF GetSession, At
<1>3. /\ p \in Frames /\ F(p) = Top(t) /\ p[1] = t
      /\ F(p) \in FrameSet /\ Shape(F(p))
      /\ Types /\ StackInv /\ IsFiniteSet(Frames)
  BY <1>1, <1>2, TopFacts
<1>4. /\ F(p).key \in Keys /\ Exists(F(p).key) /\ sess[F(p).key] \in SessSet
      /\ sess[F(p).key].ctx \in Ctxs /\ ~sess[F(p).key].unlink
  BY <1>2, <1>3, LookedUp
<1>5. PICK f : f = F(p)
  OBVIOUS
<1>6. PICK k \in Keys : k = f.key
  BY <1>4, <1>5
<1>7. PICK g :
        /\ Become(t, g)
        /\ \/ /\ f.op = "cancel" /\ g = [f EXCEPT !.pc = "put"]
              /\ sess' = [sess EXCEPT ![k].ref_count = @ + 1]
           \/ /\ f.op # "cancel" /\ sess[k].lock_thread = NoThread
              /\ sess' = [sess EXCEPT ![k].ref_count = @ + 1, ![k].lock_thread = t]
              /\ g = [f EXCEPT !.x = sess[k].ctx,
                               !.pc = IF f.op = "close" THEN "close" ELSE "busy"]
           \/ /\ f.op # "cancel" /\ g = [f EXCEPT !.pc = "lock"]
              /\ sess' = [sess EXCEPT ![k].ref_count = @ + 1]
  BY <1>2, <1>3, <1>4, <1>5, <1>6 DEF GetSession, Goto
<1>8. /\ open_sessions' = open_sessions /\ ctx' = ctx /\ tee_ctxes' = tee_ctxes
      /\ si_thread' = si_thread /\ si_count' = si_count /\ known' = known
  BY DEF GetSession, locks
<1>9. /\ f \in FrameSet /\ Shape(f) /\ f.pc = "get" /\ f.key = k /\ k[2] # 0 /\ f.x = 0
      /\ f.op \in {"invoke", "close", "cancel"} /\ ~f.held
  <2>1. f \in FrameSet /\ Shape(f) /\ f.pc = "get" /\ f.key = k
    BY <1>2, <1>3, <1>5, <1>6
  <2>2. k[2] # 0
    BY ManagerAssumption DEF Keys, Ids
  <2>3. f.op \in Ops
    BY <2>1 DEF FrameSet
  <2> QED BY <2>1, <2>2, <2>3 DEF Shape, InContext, Running, Ending, Ops
<1>10. /\ g \in FrameSet /\ Shape(g) /\ g.key = k /\ g.op = f.op /\ g.held = f.held
       /\ g.pc \in {"put", "close", "busy", "lock"}
       /\ Locks(g) => /\ sess[k].lock_thread = NoThread /\ sess'[k].lock_thread = t
                      /\ g.x = sess[k].ctx
       /\ ~Locks(g) => sess'[k].lock_thread = sess[k].lock_thread
  <2>1. /\ g.key = k /\ g.op = f.op /\ g.held = f.held /\ g.ta = f.ta
        /\ \/ /\ f.op = "cancel" /\ g.pc = "put" /\ g.x = f.x
              /\ sess' = [sess EXCEPT ![k].ref_count = @ + 1]
           \/ /\ \/ f.op = "close" /\ g.pc = "close"
                 \/ f.op = "invoke" /\ g.pc = "busy"
              /\ g.x = sess[k].ctx /\ sess[k].lock_thread = NoThread
              /\ sess' = [sess EXCEPT ![k].ref_count = @ + 1, ![k].lock_thread = t]
           \/ /\ f.op # "cancel" /\ g.pc = "lock" /\ g.x = f.x
              /\ sess' = [sess EXCEPT ![k].ref_count = @ + 1]
    BY <1>7, <1>9 DEF FrameSet
  <2>2. g \in FrameSet
    <3>1. sess[k].ctx \in 0 .. MaxCtx
      BY <1>4, <1>5, <1>6, ManagerAssumption DEF Ctxs
    <3>2. {"put", "lock", "close", "busy"} \subseteq Pcs
      BY DEF Pcs
    <3>3. PICK b \in Pcs : b = IF f.op = "close" THEN "close" ELSE "busy"
      BY <3>2
    <3>4. [f EXCEPT !.x = sess[k].ctx, !.pc = b] \in FrameSet
      BY <1>9, <3>1, FrameOn
    <3>5. [f EXCEPT !.pc = "put"] \in FrameSet /\ [f EXCEPT !.pc = "lock"] \in FrameSet
      BY <1>9, <3>1, <3>2, FrameOn
    <3> QED BY <1>7, <3>3, <3>4, <3>5
  <2>3. sess[k].ctx # 0
    BY <1>4, <1>5, <1>6, ManagerAssumption DEF Ctxs
  <2>4. Shape(g)
    BY <1>9, <2>1, <2>3 DEF Shape, InContext, Running, Ending
  <2>5. /\ Locks(g) => /\ sess[k].lock_thread = NoThread /\ sess'[k].lock_thread = t
                       /\ g.x = sess[k].ctx
        /\ ~Locks(g) => sess'[k].lock_thread = sess[k].lock_thread
    <3>1. sess \in [Keys -> SessSet] /\ sess[k] \in SessSet
      BY <1>3 DEF Types
    <3>2. CASE g.pc \in {"close", "busy"}
      <4>1. /\ sess[k].lock_thread = NoThread /\ g.x = sess[k].ctx
            /\ sess' = [sess EXCEPT ![k].ref_count = @ + 1, ![k].lock_thread = t]
        BY <2>1, <3>2
      <4>2. sess'[k].lock_thread = t
        BY <3>1, <4>1 DEF SessSet
      <4> QED BY <1>9, <2>1, <3>2, <4>1, <4>2 DEF Locks
    <3>3. CASE g.pc \in {"put", "lock"}
      BY <1>9, <2>1, <3>1, <3>3 DEF Locks, SessSet
    <3> QED BY <2>1, <3>2, <3>3
  <2> QED BY <2>1, <2>2, <2>4, <2>5
<1>11. /\ sess' \in [Keys -> SessSet]
       /\ sess'[k].ref_count = sess[k].ref_count + 1
       /\ sess'[k].ctx = sess[k].ctx /\ sess'[k].unlink = sess[k].unlink
       /\ \A j \in Keys : j # k => sess'[j] = sess[j]
  <2>1. sess \in [Keys -> SessSet] /\ sess[k] \in SessSet
    BY <1>3 DEF Types
  <2> QED BY <1>7, <2>1 DEF SessSet
<1>12. /\ p \in Frames' /\ F(p)' = g /\ Moves(p)
       /\ stack' \in [Threads -> Seq(FrameSet)] /\ IsFiniteSet(Frames')
  BY <1>1, <1>2, <1>3, <1>7, <1>10, BecomeEffect
<1>13. StackInv'
  BY <1>2, <1>3, <1>5, <1>7, <1>9, <1>10, BecomeStack
<1>14. Types'
  BY <1>3, <1>8, <1>11, <1>12, TypesKeep DEF Types
<1>15. SessInv(k)'
  <2>1. SessInv(k) /\ (Exists(k)' <=> Exists(k))
    BY <1>8 DEF IInv, Exists
  <2> QED BY <1>3, <1>5, <1>8, <1>9, <1>10, <1>11, <1>12, <2>1, SessGet
<1>16. \A j \in Keys : SessInv(j)'
  <2>1. \A j \in Keys : Exists(j)' <=> Exists(j)
    BY <1>8 DEF Exists
  <2> QED BY <1>5, <1>8, <1>9, <1>10, <1>11, <1>12, <1>15, <2>1, SessOthers
<1>17. (\A x \in Ctxs : CtxInv(x)') /\ OneListed'
  <2>1. \A x \in Ctxs : p \in Going(x) <=> p \in Going(x)'
    BY <1>5, <1>9, <1>10, <1>12 DEF Going
  <2>2. \A j \in Keys : sess'[j].ctx = sess[j].ctx
    BY <1>11
  <2> QED BY <1>5, <1>8, <1>9, <1>10, <1>12, <2>1, <2>2, CalmCtx
<1>18. (\A x \in Ctxs : BusyInv(x)') /\ SingleInv'
  BY <1>5, <1>8, <1>9, <1>10, <1>12, CalmBusy
<1> QED BY <1>13, <1>14, <1>16, <1>17, <1>18 DEF IInv

(* Only the wait queue changes. *)
LEMMA OnlyWaits ==
  ASSUME IInv, open_sessions' = open_sessions, sess' = sess, ctx' = ctx, tee_ctxes' = tee_ctxes,
         si_thread' = si_thread, si_count' = si_count, stack' = stack, known' = known
  PROVE  IInv'
<1>1. Frames' = Frames
  BY DEF Frames
<1>2. \A p : F(p)' = F(p)
  BY DEF F
<1>3. \A k : Exists(k)' <=> Exists(k)
  BY DEF Exists
<1>4. \A x : Has(x, "SINGLE_INSTANCE")' <=> Has(x, "SINGLE_INSTANCE")
  BY DEF Has
<1>5. \A x : (KeepAlive(x)' <=> KeepAlive(x)) /\ (KeepCrashed(x)' <=> KeepCrashed(x))
  BY DEF Has, KeepAlive, KeepCrashed
<1>6. Types'
  BY <1>1 DEF IInv, Types
<1>7. StackInv'
  <2>1. \A p : Chain(p)' <=> Chain(p)
    BY DEF Chain, F
  <2> QED BY <1>1, <1>2, <2>1 DEF IInv, StackInv
<1>8. ASSUME NEW k \in Keys PROVE SessInv(k)'
  <2>1. On(k)' = On(k) /\ Users(k)' = Users(k)
    BY <1>1, <1>2 DEF On, Users
  <2>2. SessInv(k)
    BY DEF IInv
  <2> QED BY <1>2, <1>3, <2>1, <2>2 DEF SessInv
<1>9. ASSUME NEW x \in Ctxs PROVE CtxInv(x)' /\ BusyInv(x)'
  <2>1. In(x)' = In(x) /\ Going(x)' = Going(x)
    BY <1>1, <1>2 DEF In, Going
  <2>2. SessOf(x)' = SessOf(x) /\ (Listed(x)' <=> Listed(x))
    BY <1>3 DEF SessOf, Listed
  <2>3. CtxInv(x) /\ BusyInv(x)
    BY DEF IInv
  <2>4. CtxInv(x)'
    BY <1>2, <1>5, <2>1, <2>2, <2>3 DEF CtxInv
  <2>5. BusyInv(x)'
    BY <1>2, <2>1, <2>3 DEF BusyInv
  <2> QED BY <2>4, <2>5
<1>10. OneListed'
  BY DEF IInv, OneListed, Listed
<1>11. SingleInv'
  <2>1. Single' = Single
    BY <1>1, <1>2 DEF Single, Has
  <2> QED BY <2>1 DEF IInv, SingleInv
<1> QED BY <1>6, <1>7, <1>8, <1>9, <1>10, <1>11 DEF IInv

(* A call with a reference is counted; with one reference it is alone.      *)
LEMMA Counted ==
  ASSUME IInv, NEW p \in Frames, F(p).key \in Keys, F(p).pc # "get"
  PROVE  /\ sess[F(p).key].ref_count \in Nat /\ sess[F(p).key].ref_count > 0
         /\ sess[F(p).key].ref_count = 1 => \A q \in Users(F(p).key) : q = p
<1>1. PICK k \in Keys : k = F(p).key
  OBVIOUS
<1>2. SessInv(k) /\ IsFiniteSet(Frames)
  BY DEF IInv, Types
<1>3. Users(k) \in SUBSET Frames /\ p \in Users(k)
  BY <1>1 DEF Users
<1>4. sess[k].ref_count = Cardinality(Users(k))
  BY <1>2 DEF SessInv
<1>5. Cardinality(Users(k)) \in Nat /\ Cardinality(Users(k)) > 0
  BY <1>2, <1>3, CountPositive
<1>6. Cardinality(Users(k)) = 1 => \A q \in Users(k) : q = p
  BY <1>2, <1>3, CountOne
<1> QED BY <1>1, <1>4, <1>5, <1>6

(* A call gives its reference back and returns: in tee_ta_put_session, or   *)
(* in tee_ta_get_session when the session it waited for is going.           *)
LEMMA PutsBack ==
  ASSUME IInv, NEW t \in Threads, stack[t] # << >>, NEW p, p = <<t, Len(stack[t])>>,
         F(p).pc \in {"put", "lock"}, Return(t), NEW k \in Keys, k = F(p).key,
         NEW u, u = IF Locks(F(p)) THEN NoThread ELSE sess[k].lock_thread,
         sess' = [sess EXCEPT ![k] = [@ EXCEPT !.ref_count = sess[k].ref_count - 1,
                                               !.lock_thread = u]],
         open_sessions' = open_sessions, ctx' = ctx, tee_ctxes' = tee_ctxes,
         si_thread' = si_thread, si_count' = si_count,
         \A i \in known' : i \in known \/ (F(p).op = "open" /\ k = <<0, i>>)
  PROVE  IInv'
<1>1. /\ p \in Frames /\ F(p) = Top(t) /\ p[1] = t /\ F(p) \in FrameSet /\ Shape(F(p))
      /\ Types /\ StackInv /\ IsFiniteSet(Frames)
  BY TopFacts
<1>2. /\ p \notin Frames' /\ Moves(p)
      /\ stack' \in [Threads -> Seq(FrameSet)] /\ IsFiniteSet(Frames')
  BY <1>1, ReturnEffect
<1>3. sess \in [Keys -> SessSet] /\ sess[k] \in SessSet
  BY <1>1 DEF Types
<1>4. sess[k].ref_count \in Nat /\ sess[k].ref_count > 0
  BY <1>1, Counted
<1>5. PICK n : n = sess[k].ref_count - 1
  OBVIOUS
<1>7. PICK r : r = [sess[k] EXCEPT !.ref_count = n, !.lock_thread = u]
  OBVIOUS
<1>16. r \in SessSet /\ r.ref_count = n /\ r.lock_thread = u
       /\ r.ctx = sess[k].ctx /\ r.unlink = sess[k].unlink
  <2>1. n \in Nat
    BY <1>4, <1>5
  <2>2. u \in Threads \cup {NoThread}
    <3>1. sess[k].lock_thread \in Threads \cup {NoThread}
      BY <1>3 DEF SessSet
    <3>2. CASE Locks(F(p))
      BY <3>2
    <3>3. CASE ~Locks(F(p))
      BY <3>1, <3>3
    <3> QED BY <3>2, <3>3
  <2> QED BY <1>3, <1>7, <2>1, <2>2 DEF SessSet
<1>8. /\ sess' \in [Keys -> SessSet]
      /\ sess'[k].ref_count = n /\ sess'[k].lock_thread = u
      /\ sess'[k].ctx = sess[k].ctx /\ sess'[k].unlink = sess[k].unlink
      /\ \A j \in Keys : j # k => sess'[j] = sess[j]
  <2>1. sess' = [sess EXCEPT ![k] = r]
    BY <1>3, <1>5, <1>7
  <2> QED BY <1>3, <1>16, <2>1
<1>9. StackInv'
  BY <1>1, ReturnStack
<1>10. Types'
  BY <1>1, <1>2, <1>8, TypesKeep DEF Types
<1>11. SessInv(k)'
  <2>1. SessInv(k) /\ (Exists(k)' <=> Exists(k))
    BY DEF IInv, Exists
  <2>2. k[1] = 0 /\ k[2] \in known' => k[2] \in known \/ F(p).op = "open"
    OBVIOUS
  <2>3. /\ sess'[k].ref_count = sess[k].ref_count - 1
        /\ Locks(F(p)) => sess'[k].lock_thread = NoThread
        /\ ~Locks(F(p)) => sess'[k].lock_thread = sess[k].lock_thread
    BY <1>5, <1>8
  <2> QED BY <1>1, <1>2, <1>8, <2>1, <2>2, <2>3, SessPut
<1>12. \A j \in Keys : SessInv(j)'
  <2>1. ASSUME NEW j \in Keys, j # k, j[1] = 0, j[2] \in known' PROVE j[2] \in known
    <3>1. j = <<j[1], j[2]>>
      BY DEF Keys
    <3> QED BY <2>1, <3>1
  <2>2. \A j \in Keys : Exists(j)' <=> Exists(j)
    BY DEF Exists
  <2>3. \A j \in Keys : j # k => /\ sess'[j] = sess[j]
                                 /\ Exists(j)' <=> Exists(j)
                                 /\ j[1] = 0 /\ j[2] \in known' => j[2] \in known
    BY <1>8, <2>1, <2>2
  <2> QED BY <1>1, <1>2, <1>11, <2>3, SessOthers
<1>13. F(p).key[2] # 0 /\ F(p).held = FALSE /\ F(p).pc # "destroy"
  <2>1. k[2] # 0
    BY ManagerAssumption DEF Keys, Ids
  <2>2. F(p).held \in BOOLEAN
    BY <1>1 DEF FrameSet
  <2> QED BY <1>1, <2>1, <2>2 DEF Shape, Running
<1>14. (\A x \in Ctxs : CtxInv(x)') /\ OneListed'
  <2>1. \A x \in Ctxs : p \in Going(x) <=> p \in Going(x)'
    BY <1>2, <1>13 DEF Going
  <2>2. \A j \in Keys : sess'[j].ctx = sess[j].ctx
    BY <1>8
  <2> QED BY <1>2, <1>13, <2>1, <2>2, CalmCtx
<1>15. (\A x \in Ctxs : BusyInv(x)') /\ SingleInv'
  BY <1>2, <1>13, CalmBusy
<1> QED BY <1>9, <1>10, <1>12, <1>14, <1>15 DEF IInv

(* tee_ta_put_session. *)
LEMMA PutSessionStep ==
  ASSUME IInv, NEW t \in Threads, PutSession(t)
  PROVE  IInv'
<1>1. PICK p : p = <<t, Len(stack[t])>>
  OBVIOUS
<1>2. stack[t] # << >> /\ Top(t).pc = "put" /\ Return(t)
  BY DEF PutSession, At
<1>3. /\ p \in Frames /\ F(p) = Top(t) /\ p[1] = t
      /\ F(p) \in FrameSet /\ Shape(F(p)) /\ Types
      /\ F(p).key[2] # 0 => F(p).key \in Keys
  BY <1>1, <1>2, TopFacts
<1>4. F(p).key \in Keys
  BY <1>2, <1>3 DEF Shape
<1>5. PICK k \in Keys : k = F(p).key
  BY <1>4
<1>6. PICK u : u = IF Locks(F(p)) THEN NoThread ELSE sess[k].lock_thread
  OBVIOUS
<1>7. SessInv(k) /\ p \in On(k) /\ sess[k] \in SessSet /\ sess \in [Keys -> SessSet]
  BY <1>3, <1>5 DEF IInv, On, Types
<1>8. Locks(F(p)) => sess[k].lock_thread = t
  BY <1>3, <1>7 DEF SessInv
<1>9. sess[k].lock_thread = t => Locks(F(p))
  <2> SUFFICES ASSUME sess[k].lock_thread = t PROVE Locks(F(p))
    OBVIOUS
  <2>1. PICK q \in On(k) : Locks(F(q)) /\ q[1] = t
    BY <1>7, ManagerAssumption DEF SessInv
  <2>2. q \in Frames /\ F(q).key = k
    BY DEF On
  <2>3. q = p
    BY <1>3, <1>5, <2>1, <2>2, OneOfThread
  <2> QED BY <2>1, <2>3
<1>10. u = IF sess[k].lock_thread = t THEN NoThread ELSE sess[k].lock_thread
  BY <1>6, <1>8, <1>9
<1>11. sess' = [sess EXCEPT ![k] = [@ EXCEPT !.ref_count = sess[k].ref_count - 1,
                                             !.lock_thread = u]]
  <2>1. sess' = [sess EXCEPT ![k].ref_count = @ - 1,
                             ![k].lock_thread = IF @ = t THEN NoThread ELSE @]
    BY <1>3, <1>5 DEF PutSession
  <2> QED BY <1>7, <1>10, <2>1 DEF SessSet
<1>12. /\ open_sessions' = open_sessions /\ ctx' = ctx /\ tee_ctxes' = tee_ctxes
       /\ si_thread' = si_thread /\ si_count' = si_count
  BY DEF PutSession, locks
<1>13. \A i \in known' : i \in known \/ (F(p).op = "open" /\ k = <<0, i>>)
  <2>1. known' = known \cup (IF Top(t).op = "open" /\ k[1] = 0 THEN {k[2]} ELSE {})
    BY <1>3, <1>5 DEF PutSession
  <2>2. k = <<k[1], k[2]>>
    BY DEF Keys
  <2> QED BY <1>3, <2>1, <2>2
<1> QED BY <1>1, <1>2, <1>3, <1>5, <1>6, <1>11, <1>12, <1>13, PutsBack

(* The lock is there to take, or still not, or the session is going. *)
LEMMA LockSessionStep ==
  ASSUME IInv, NEW t \in Threads, LockSession(t)
  PROVE  IInv'
<1>1. PICK p : p = <<t, Len(stack[t])>>
  OBVIOUS
<1>2. stack[t] # << >> /\ Top(t).pc = "lock"
  BY DEF LockSession, At
<1>3. /\ p \in Frames /\ F(p) = Top(t) /\ p[1] = t
      /\ F(p) \in FrameSet /\ Shape(F(p))
      /\ Types /\ StackInv /\ IsFiniteSet(Frames)
  BY <1>1, <1>2, TopFacts
<1>4. /\ F(p).key \in Keys /\ Exists(F(p).key) /\ sess[F(p).key] \in SessSet
      /\ sess[F(p).key].ctx \in Ctxs
  BY <1>2, <1>3, LookedUp
<1>5. PICK f : f = F(p)
  OBVIOUS
<1>6. PICK k \in Keys : k = f.key
  BY <1>4, <1>5
<1>7. sess \in [Keys -> SessSet] /\ sess[k] \in SessSet /\ sess[k].ctx \in Ctxs
  BY <1>3, <1>4, <1>5, <1>6 DEF Types
<1>8. /\ open_sessions' = open_sessions /\ ctx' = ctx /\ tee_ctxes' = tee_ctxes
      /\ si_thread' = si_thread /\ si_count' = si_count /\ known' = known
  BY DEF LockSession, locks
<1>9. /\ f \in FrameSet /\ Shape(f) /\ f.pc = "lock" /\ f.key = k /\ k[2] # 0 /\ f.x = 0
      /\ f.op \in {"invoke", "close"} /\ ~f.held
  <2>1. f \in FrameSet /\ Shape(f) /\ f.pc = "lock" /\ f.key = k
    BY <1>2, <1>3, <1>5, <1>6
  <2>2. k[2] # 0
    BY ManagerAssumption DEF Keys, Ids
  <2>3. f.op \in Ops
    BY <2>1 DEF FrameSet
  <2> QED BY <2>1, <2>2, <2>3 DEF Shape, InContext, Running, Ending, Ops
<1>10. CASE sess[k].unlink
  <2>1. sess' = [sess EXCEPT ![k].ref_count = @ - 1] /\ Return(t)
    BY <1>3, <1>5, <1>6, <1>10 DEF LockSession
  <2>2. PICK u : u = sess[k].lock_thread
    OBVIOUS
  <2>3. u = IF Locks(F(p)) THEN NoThread ELSE sess[k].lock_thread
    BY <1>5, <1>9, <2>2 DEF Locks
  <2>4. sess' = [sess EXCEPT ![k] = [@ EXCEPT !.ref_count = sess[k].ref_count - 1,
                                              !.lock_thread = u]]
    BY <1>7, <2>1, <2>2 DEF SessSet
  <2>5. F(p).pc \in {"put", "lock"} /\ k = F(p).key
    BY <1>2, <1>3, <1>5, <1>6
  <2>6. \A i \in known' : i \in known \/ (F(p).op = "open" /\ k = <<0, i>>)
    BY <1>8
  <2>7. Return(t)
    BY <2>1
  <2> QED BY <1>1, <1>2, <1>8, <2>3, <2>4, <2>5, <2>6, <2>7, PutsBack
<1>11. CASE ~sess[k].unlink /\ sess[k].lock_thread # NoThread
  <2>1. sess' = sess /\ stack' = stack
    BY <1>3, <1>5, <1>6, <1>11 DEF LockSession
  <2> QED BY <1>8, <2>1, OnlyWaits
<1>12. CASE ~sess[k].unlink /\ sess[k].lock_thread = NoThread
  <2>1. PICK b \in Pcs : b = IF f.op = "close" THEN "close" ELSE "busy"
    BY DEF Pcs
  <2>2. PICK g : g = [f EXCEPT !.x = sess[k].ctx, !.pc = b]
    OBVIOUS
  <2>3. sess' = [sess EXCEPT ![k].lock_thread = t] /\ Become(t, g)
    BY <1>3, <1>5, <1>6, <1>12, <2>1, <2>2 DEF LockSession
  <2>4. g \in FrameSet /\ Shape(g) /\ g.key = k /\ g.op = f.op /\ g.held = f.held
        /\ g.pc = b /\ b \in {"close", "busy"} /\ g.x = sess[k].ctx /\ Locks(g)
    <3>1. /\ g.key = k /\ g.op = f.op /\ g.held = f.held /\ g.ta = f.ta
          /\ g.pc = b /\ g.x = sess[k].ctx
      BY <1>9, <2>2 DEF FrameSet
    <3>2. sess[k].ctx \in 0 .. MaxCtx /\ sess[k].ctx # 0
      BY <1>7, ManagerAssumption DEF Ctxs
    <3>3. g \in FrameSet
      BY <1>9, <2>2, <3>2, FrameOn
    <3>4. \/ f.op = "close" /\ b = "close"
          \/ f.op = "invoke" /\ b = "busy"
      BY <1>9, <2>1
    <3>5. Shape(g) /\ Locks(g)
      BY <1>9, <3>1, <3>2, <3>4 DEF Shape, InContext, Running, Ending, Locks
    <3> QED BY <3>1, <3>3, <3>4, <3>5
  <2>5. /\ sess' \in [Keys -> SessSet] /\ sess'[k].lock_thread = t
        /\ sess'[k].ref_count = sess[k].ref_count
        /\ sess'[k].ctx = sess[k].ctx /\ sess'[k].unlink = sess[k].unlink
        /\ \A j \in Keys : j # k => sess'[j] = sess[j]
    BY <1>7, <2>3 DEF SessSet
  <2>6. /\ p \in Frames' /\ F(p)' = g /\ Moves(p)
        /\ stack' \in [Threads -> Seq(FrameSet)] /\ IsFiniteSet(Frames')
    BY <1>1, <1>2, <1>3, <2>3, <2>4, BecomeEffect
  <2>7. StackInv'
    BY <1>2, <1>3, <1>5, <1>9, <2>3, <2>4, BecomeStack
  <2>8. Types'
    BY <1>3, <1>8, <2>5, <2>6, TypesKeep DEF Types
  <2>9. SessInv(k)'
    <3>1. SessInv(k) /\ (Exists(k)' <=> Exists(k))
      BY <1>8 DEF IInv, Exists
    <3> QED BY <1>3, <1>5, <1>8, <1>9, <1>12, <2>4, <2>5, <2>6, <3>1, SessGet
  <2>10. \A j \in Keys : SessInv(j)'
    <3>1. \A j \in Keys : Exists(j)' <=> Exists(j)
      BY <1>8 DEF Exists
    <3> QED BY <1>5, <1>8, <1>9, <2>4, <2>5, <2>6, <2>9, <3>1, SessOthers
  <2>11. (\A x \in Ctxs : CtxInv(x)') /\ OneListed'
    <3>1. \A x \in Ctxs : p \in Going(x) <=> p \in Going(x)'
      BY <1>5, <1>9, <2>4, <2>6 DEF Going
    <3>2. \A j \in Keys : sess'[j].ctx = sess[j].ctx
      BY <2>5
    <3> QED BY <1>5, <1>8, <1>9, <2>4, <2>6, <3>1, <3>2, CalmCtx
  <2>12. (\A x \in Ctxs : BusyInv(x)') /\ SingleInv'
    BY <1>5, <1>8, <1>9, <2>4, <2>6, CalmBusy
  <2> QED BY <2>7, <2>8, <2>10, <2>11, <2>12 DEF IInv
<1> QED BY <1>10, <1>11, <1>12

(* A call goes on in its context: the stacks and the sessions. *)
LEMMA GoesOnSess ==
  ASSUME IInv, NEW t \in Threads, stack[t] # << >>, NEW p, p = <<t, Len(stack[t])>>,
         NEW g \in FrameSet, Become(t, g), Shape(g), g.key = F(p).key, g.x = F(p).x,
         g.op = F(p).op \/ (F(p).op = "open" /\ g.op = "close"),
         F(p).pc \in {"load", "busy", "ta", "release", "release_state", "clear", "close"},
         g.pc \in {"busy", "ta", "release", "release_state", "clear", "close", "unlink", "put", "drop"},
         sess' = sess, open_sessions' = open_sessions, known' = known
  PROVE  /\ StackInv' /\ stack' \in [Threads -> Seq(FrameSet)] /\ IsFiniteSet(Frames')
         /\ \A k \in Keys : SessInv(k)'
         /\ p \in Frames /\ p \in Frames' /\ F(p)' = g /\ Moves(p)
         /\ \A x \in Ctxs : p \in Going(x) <=> p \in Going(x)'
<1>1. /\ p \in Frames /\ F(p) = Top(t) /\ p[1] = t
      /\ F(p) \in FrameSet /\ Shape(F(p)) /\ Types /\ StackInv /\ IsFiniteSet(Frames)
      /\ F(p).key \in Lists \X (Ids \cup {0})
      /\ F(p).key[2] # 0 => F(p).key \in Keys
  BY TopFacts
<1>2. /\ p \in Frames' /\ F(p)' = g /\ Moves(p)
      /\ stack' \in [Threads -> Seq(FrameSet)] /\ IsFiniteSet(Frames')
  BY <1>1, BecomeEffect
<1>3. StackInv'
  BY <1>1, BecomeStack
<1>4. PICK k : k = F(p).key
  OBVIOUS
<1>5. Locks(F(p)) /\ Locks(g)
  <2>1. F(p).op # "cancel"
    BY <1>1 DEF Shape
  <2> QED BY <2>1 DEF Locks
<1>6. ASSUME k \in Keys PROVE SessInv(k)'
  <2>1. SessInv(k) /\ (Exists(k)' <=> Exists(k))
    BY <1>6 DEF IInv, Exists
  <2>2. p \in On(k)
    BY <1>1, <1>4 DEF On
  <2>3. sess'[k].ctx = g.x /\ sess'[k] = sess[k]
    BY <1>5, <2>1, <2>2 DEF SessInv
  <2>4. sess'[k].unlink => sess[k].unlink /\ F(p).pc # "unlinking"
    OBVIOUS
  <2> QED BY <1>1, <1>2, <1>4, <1>5, <1>6, <2>1, <2>3, <2>4, SessStay
<1>7. \A j \in Keys : SessInv(j)'
  <2>1. \A j \in Keys : Exists(j)' <=> Exists(j)
    BY DEF Exists
  <2> QED BY <1>2, <1>4, <1>6, <2>1, SessOthers
<1>8. ASSUME NEW x \in Ctxs PROVE p \in Going(x) <=> p \in Going(x)'
  <2>1. F(p).key[2] = 0 => F(p).pc \in {"clear", "drop"} /\ g.pc \in {"clear", "drop"}
    BY <1>1 DEF Shape
  <2>2. p \in Going(x) <=> F(p).x = x /\ F(p).key[2] = 0 /\ F(p).pc \in {"clear", "drop"}
    BY <1>1 DEF Going
  <2>3. p \in Going(x)' <=> g.x = x /\ g.key[2] = 0 /\ g.pc \in {"clear", "drop"}
    BY <1>2 DEF Going
  <2> QED BY <2>1, <2>2, <2>3
<1> QED BY <1>1, <1>2, <1>3, <1>7, <1>8

(* The reference counts and the registrations stay as they are, too.        *)
LEMMA GoesOn ==
  ASSUME IInv, NEW t \in Threads, stack[t] # << >>, NEW p, p = <<t, Len(stack[t])>>,
         NEW g \in FrameSet, Become(t, g), Shape(g), g.key = F(p).key, g.x = F(p).x,
         g.op = F(p).op \/ (F(p).op = "open" /\ g.op = "close"),
         F(p).pc \in {"load", "busy", "ta", "release", "release_state", "clear", "close"},
         g.pc \in {"busy", "ta", "release", "release_state", "clear", "close", "unlink", "put", "drop"},
         sess' = sess, open_sessions' = open_sessions, tee_ctxes' = tee_ctxes, known' = known,
         si_thread' \in Threads \cup {NoThread}, si_count' \in Nat, ctx' \in [Ctxs -> CtxSet],
         \A x \in Ctxs :
            \/ ctx'[x] = ctx[x]
            \/ /\ F(p).x = x
               /\ ctx'[x].ta = ctx[x].ta /\ ctx'[x].ref_count = ctx[x].ref_count
               /\ ctx'[x].is_releasing = ctx[x].is_releasing
               /\ ctx'[x].is_initializing = ctx[x].is_initializing \/ F(p).pc = "load"
  PROVE  /\ Types' /\ StackInv' /\ OneListed'
         /\ \A k \in Keys : SessInv(k)'
         /\ \A x \in Ctxs : CtxInv(x)'
<1>1. /\ StackInv' /\ stack' \in [Threads -> Seq(FrameSet)] /\ IsFiniteSet(Frames')
      /\ \A k \in Keys : SessInv(k)'
      /\ p \in Frames /\ p \in Frames' /\ F(p)' = g /\ Moves(p)
      /\ \A x \in Ctxs : p \in Going(x) <=> p \in Going(x)'
  BY GoesOnSess
<1>2. Types'
  BY <1>1, TypesKeep DEF Types, IInv
<1>3. (\A x \in Ctxs : CtxInv(x)') /\ OneListed'
  BY <1>1, CalmCtx
<1> QED BY <1>1, <1>2, <1>3

(* Where a call goes from a TA, or instead of entering it. *)
LEMMA AfterEntry ==
  ASSUME NEW f \in FrameSet, f.x # 0, f.key[2] # 0, f.op \in {"open", "invoke", "close"}, f.held,
         NEW g,
         \/ g = Fail(f) \/ g = Dead(f) \/ g = [f EXCEPT !.pc = "ta"]
         \/ g = [f EXCEPT !.pc = "clear"]
  PROVE  /\ g \in FrameSet /\ Shape(g) /\ g.key = f.key /\ g.x = f.x /\ g.held
         /\ g.pc \in {"ta", "unlink", "clear", "release"}
         /\ g.op = f.op \/ (f.op = "open" /\ g.op = "close")
<1>1. PICK o \in Ops : o = IF f.op = "open" THEN "close" ELSE f.op
  BY DEF Ops
<1>2. PICK b \in Pcs : /\ b \in {"ta", "unlink", "clear", "release"}
                       /\ b = "unlink" => f.op = "close"
                       /\ \/ g = [f EXCEPT !.pc = b]
                          \/ g = [f EXCEPT !.pc = b, !.op = o]
  <2>1. {"ta", "unlink", "clear", "release"} \subseteq Pcs
    BY DEF Pcs
  <2>2. Fail(f) = IF f.op = "close" THEN [f EXCEPT !.pc = "unlink"]
                  ELSE [f EXCEPT !.pc = "clear", !.op = o]
    BY <1>1 DEF Fail
  <2>3. Dead(f) = IF f.op = "close" THEN [f EXCEPT !.pc = "unlink"]
                  ELSE [f EXCEPT !.pc = "release", !.op = o]
    BY <1>1 DEF Dead
  <2>4. CASE g = Fail(f)
    BY <2>1, <2>2, <2>4
  <2>5. CASE g = Dead(f)
    BY <2>1, <2>3, <2>5
  <2>6. CASE g = [f EXCEPT !.pc = "ta"]
    BY <2>1, <2>6
  <2>7. CASE g = [f EXCEPT !.pc = "clear"]
    BY <2>1, <2>7
  <2> QED BY <2>4, <2>5, <2>6, <2>7
<1>3. g \in FrameSet
  BY <1>2 DEF FrameSet
<1>4. /\ g.pc = b /\ g.key = f.key /\ g.x = f.x /\ g.held = f.held
      /\ g.op = f.op \/ g.op = o
  BY <1>2 DEF FrameSet
<1>5. g.op = f.op \/ (f.op = "open" /\ g.op = "close")
  BY <1>1, <1>4
<1>6. Shape(g)
  BY <1>2, <1>4, <1>5 DEF Shape, InContext, Running, Ending
<1> QED BY <1>2, <1>3, <1>4, <1>5, <1>6

(* The frames that hold the single-instance lock change at p only. *)
LEMMA SingleMoves ==
  ASSUME NEW p, Moves(p), IsFiniteSet(Frames), IsFiniteSet(Frames'),
         \A q \in Frames : q # p /\ F(q).held => ctx'[F(q).x].ta = ctx[F(q).x].ta
  PROVE  /\ \A q : q # p => (q \in Single' <=> q \in Single)
         /\ p \in Single <=> p \in Frames /\ F(p).held /\ "SINGLE_INSTANCE" \in Flags[ctx[F(p).x].ta]
         /\ p \in Single' <=>
              p \in Frames' /\ F(p)'.held /\ "SINGLE_INSTANCE" \in Flags[ctx'[F(p)'.x].ta]
         /\ Cardinality(Single) \in Nat /\ Cardinality(Single') \in Nat
         /\ p \notin Single /\ p \in Single' => Cardinality(Single') = Cardinality(Single) + 1
         /\ p \in Single /\ p \notin Single' => Cardinality(Single') = Cardinality(Single) - 1
<1>1. \A q : q # p => (q \in Frames' <=> q \in Frames)
  BY DEF Moves
<1>2. \A q \in Frames : q # p => F(q)' = F(q)
  BY DEF Moves
<1>3. PICK A, B : A = Single /\ B = Single'
  OBVIOUS
<1>4. \A q : q # p => (q \in B <=> q \in A)
  BY <1>1, <1>2, <1>3 DEF Single, Has
<1>5. /\ p \in A <=> p \in Frames /\ F(p).held /\ "SINGLE_INSTANCE" \in Flags[ctx[F(p).x].ta]
      /\ p \in B <=>
           p \in Frames' /\ F(p)'.held /\ "SINGLE_INSTANCE" \in Flags[ctx'[F(p)'.x].ta]
      /\ A \subseteq Frames /\ B \subseteq Frames'
  BY <1>3 DEF Single, Has
<1>6. A \ {p} = B \ {p}
  BY <1>4
<1>7. PICK T : T = Frames \cup Frames'
  OBVIOUS
<1>8. IsFiniteSet(T) /\ A \in SUBSET T /\ B \in SUBSET T
  BY <1>5, <1>7, FS_Union
<1>9. /\ Cardinality(A) \in Nat /\ Cardinality(B) \in Nat
      /\ p \in A /\ p \notin B => Cardinality(B) = Cardinality(A) - 1
      /\ p \notin A /\ p \in B => Cardinality(B) = Cardinality(A) + 1
  BY <1>6, <1>8, CountMove
<1> QED BY <1>3, <1>4, <1>5, <1>9

(* tee_ta_complete_user_ta_session, when the TA is loaded. *)
LEMMA LoadDoneStep ==
  ASSUME IInv, NEW t \in Threads, LoadDone(t)
  PROVE  IInv'
<1>1. PICK p : p = <<t, Len(stack[t])>>
  OBVIOUS
<1>2. stack[t] # << >> /\ Top(t).pc = "load"
  BY DEF LoadDone, At
<1>3. /\ p \in Frames /\ F(p) = Top(t) /\ F(p) \in FrameSet /\ Shape(F(p)) /\ Types
      /\ F(p).x # 0 => F(p).x \in Ctxs
  BY <1>1, <1>2, TopFacts
<1>4. PICK f \in FrameSet : f = F(p)
  BY <1>3
<1>5. f.pc = "load" /\ Shape(f)
  BY <1>2, <1>3, <1>4
<1>6. /\ f.op = "open" /\ f.x # 0 /\ f.key[2] # 0 /\ f.held = FALSE
  <2>1. f.held \in BOOLEAN
    BY DEF FrameSet
  <2> QED BY <1>5, <2>1 DEF Shape, InContext, Running
<1>7. PICK x \in Ctxs : x = f.x
  BY <1>3, <1>4, <1>6
<1>8. PICK g : g = [f EXCEPT !.pc = "busy"]
  OBVIOUS
<1>9. /\ g \in FrameSet /\ g.key = f.key /\ g.x = f.x /\ g.op = f.op /\ g.pc = "busy"
      /\ g.held = FALSE
  BY <1>6, <1>8 DEF FrameSet, Pcs
<1>10. Shape(g)
  BY <1>6, <1>9 DEF Shape, InContext, Running, Ending
<1>11. /\ Become(t, g) /\ ctx' = [ctx EXCEPT ![x].is_initializing = FALSE]
       /\ sess' = sess /\ open_sessions' = open_sessions /\ tee_ctxes' = tee_ctxes
       /\ known' = known /\ si_thread' = si_thread /\ si_count' = si_count
  BY <1>3, <1>4, <1>7, <1>8 DEF LoadDone, Goto, locks
<1>12. /\ ctx' \in [Ctxs -> CtxSet]
       /\ \A y \in Ctxs : y # x => ctx'[y] = ctx[y]
       /\ ctx'[x].ta = ctx[x].ta /\ ctx'[x].ref_count = ctx[x].ref_count
       /\ ctx'[x].is_releasing = ctx[x].is_releasing /\ ctx'[x].busy = ctx[x].busy
  <2>1. ctx \in [Ctxs -> CtxSet]
    BY <1>3 DEF Types
  <2> QED BY <1>11, <2>1 DEF CtxSet
<1>13. /\ Types' /\ StackInv' /\ OneListed'
       /\ \A k \in Keys : SessInv(k)'
       /\ \A y \in Ctxs : CtxInv(y)'
  <2>1. si_thread' \in Threads \cup {NoThread} /\ si_count' \in Nat
    BY <1>3, <1>11 DEF Types
  <2>2. \A y \in Ctxs :
            \/ ctx'[y] = ctx[y]
            \/ /\ F(p).x = y
               /\ ctx'[y].ta = ctx[y].ta /\ ctx'[y].ref_count = ctx[y].ref_count
               /\ ctx'[y].is_releasing = ctx[y].is_releasing
               /\ ctx'[y].is_initializing = ctx[y].is_initializing \/ F(p).pc = "load"
    BY <1>4, <1>5, <1>7, <1>12
  <2> QED BY <1>1, <1>2, <1>4, <1>5, <1>9, <1>10, <1>11, <1>12, <2>1, <2>2, GoesOn
<1>14. /\ p \in Frames' /\ F(p)' = g /\ Moves(p) /\ IsFiniteSet(Frames')
  BY <1>1, <1>2, <1>3, <1>9, <1>11, BecomeEffect
<1>15. (\A y \in Ctxs : BusyInv(y)') /\ SingleInv'
  BY <1>3, <1>4, <1>6, <1>9, <1>11, <1>12, <1>14, CalmBusy
<1> QED BY <1>13, <1>15 DEF IInv

(* The same, with the busy flags and the single-instance lock as they are;  *)
(* of the context it is in, the call may set the panicked flag.             *)
LEMMA GoesOnCalm ==
  ASSUME IInv, NEW t \in Threads, stack[t] # << >>, NEW p, p = <<t, Len(stack[t])>>,
         NEW g \in FrameSet, Become(t, g), Shape(g), g.key = F(p).key, g.x = F(p).x,
         g.op = F(p).op \/ (F(p).op = "open" /\ g.op = "close"), g.held = F(p).held,
         F(p).pc \in {"load", "busy", "ta", "release", "release_state", "clear", "close"},
         g.pc \in {"busy", "ta", "release", "release_state", "clear", "close", "unlink", "put", "drop"},
         sess' = sess, open_sessions' = open_sessions, tee_ctxes' = tee_ctxes, known' = known,
         si_thread' = si_thread, si_count' = si_count,
         NEW b \in BOOLEAN, ctx' = ctx \/ ctx' = [ctx EXCEPT ![F(p).x].panicked = b]
  PROVE  IInv'
<1>1. /\ p \in Frames /\ F(p) = Top(t) /\ Types /\ F(p) \in FrameSet
  BY TopFacts
<1>2. PICK x : x = F(p).x
  OBVIOUS
<1>3. ctx \in [Ctxs -> CtxSet]
  BY <1>1 DEF Types
<1>4. /\ ctx' \in [Ctxs -> CtxSet]
      /\ \A y \in Ctxs : y # x => ctx'[y] = ctx[y]
      /\ \A y \in Ctxs :
           /\ ctx'[y].ta = ctx[y].ta /\ ctx'[y].ref_count = ctx[y].ref_count
           /\ ctx'[y].is_releasing = ctx[y].is_releasing /\ ctx'[y].busy = ctx[y].busy
           /\ ctx'[y].is_initializing = ctx[y].is_initializing
  <2>1. CASE ctx' = ctx
    BY <1>3, <2>1
  <2>2. CASE ctx' = [ctx EXCEPT ![x].panicked = b]
    <3>1. x \in Ctxs
      BY <1>1, <1>2, TopFacts DEF Shape, InContext, Running, Ending
    <3>2. PICK r : r = [ctx[x] EXCEPT !.panicked = b]
      OBVIOUS
    <3>3. /\ r \in CtxSet /\ r.ta = ctx[x].ta /\ r.ref_count = ctx[x].ref_count
          /\ r.is_releasing = ctx[x].is_releasing /\ r.busy = ctx[x].busy
          /\ r.is_initializing = ctx[x].is_initializing
      BY <1>3, <3>1, <3>2 DEF CtxSet
    <3>4. ctx' = [ctx EXCEPT ![x] = r]
      BY <2>2, <3>2
    <3> QED BY <1>3, <3>1, <3>3, <3>4
  <2> QED BY <1>2, <2>1, <2>2
<1>5. /\ Types' /\ StackInv' /\ OneListed'
      /\ \A k \in Keys : SessInv(k)'
      /\ \A y \in Ctxs : CtxInv(y)'
  <2>1. si_thread' \in Threads \cup {NoThread} /\ si_count' \in Nat
    BY <1>1 DEF Types
  <2>2. \A y \in Ctxs :
            \/ ctx'[y] = ctx[y]
            \/ /\ F(p).x = y
               /\ ctx'[y].ta = ctx[y].ta /\ ctx'[y].ref_count = ctx[y].ref_count
               /\ ctx'[y].is_releasing = ctx[y].is_releasing
               /\ ctx'[y].is_initializing = ctx[y].is_initializing \/ F(p).pc = "load"
    BY <1>2, <1>4
  <2> QED BY <1>4, <2>1, <2>2, GoesOn
<1>6. /\ p \in Frames' /\ F(p)' = g /\ Moves(p) /\ IsFiniteSet(Frames')
  BY <1>1, BecomeEffect
<1>7. (\A y \in Ctxs : BusyInv(y)') /\ SingleInv'
  BY <1>1, <1>4, <1>6, CalmBusy
<1> QED BY <1>5, <1>7 DEF IInv

(* A call that is at a step in a context: what it has. *)
LEMMA AtWork ==
  ASSUME IInv, NEW t \in Threads, stack[t] # << >>, NEW p, p = <<t, Len(stack[t])>>,
         Top(t).pc \in InContext
  PROVE  /\ F(p) = Top(t) /\ F(p) \in FrameSet /\ Shape(F(p))
         /\ F(p).x # 0 /\ F(p).x \in Ctxs /\ F(p).op \in {"open", "invoke", "close"}
         /\ F(p).pc \notin {"clear", "drop", "destroy"} => F(p).key[2] # 0 /\ F(p).key \in Keys
         /\ F(p).pc \in Running => F(p).held
         /\ F(p).pc \notin Running \cup {"unlink", "unlinking"} => ~F(p).held
         /\ p \in Frames /\ p[1] = t
<1>1. /\ p \in Frames /\ F(p) = Top(t) /\ F(p) \in FrameSet /\ Shape(F(p)) /\ p[1] = t
      /\ F(p).x # 0 => F(p).x \in Ctxs
      /\ F(p).key[2] # 0 => F(p).key \in Keys
  BY TopFacts
<1>2. F(p).op \in Ops /\ F(p).held \in BOOLEAN /\ F(p).pc \in InContext
  BY <1>1 DEF FrameSet
<1>3. F(p).x # 0
  BY <1>1, <1>2 DEF Shape
<1>4. F(p).op # "cancel"
  BY <1>1, <1>2 DEF Shape, InContext, Running, Ending
<1>5. F(p).pc \notin {"clear", "drop", "destroy"} => F(p).key[2] # 0
  BY <1>1, <1>2 DEF Shape, InContext, Running, Ending
<1>6. /\ F(p).pc \in Running => F(p).held
      /\ F(p).pc \notin Running \cup {"unlink", "unlinking"} => ~F(p).held
  BY <1>1 DEF Shape
<1> QED BY <1>1, <1>2, <1>3, <1>4, <1>5, <1>6 DEF Ops

(* The TA returns. *)
LEMMA TaReturnStep ==
  ASSUME IInv, NEW t \in Threads, TaReturn(t)
  PROVE  IInv'
<1>1. PICK p : p = <<t, Len(stack[t])>>
  OBVIOUS
<1>2. stack[t] # << >> /\ Top(t).pc = "ta"
  BY DEF TaReturn, At
<1>3. /\ F(p) = Top(t) /\ F(p) \in FrameSet /\ F(p).x # 0 /\ F(p).key[2] # 0
      /\ F(p).op \in {"open", "invoke", "close"} /\ F(p).held
  <2>1. "ta" \in InContext /\ "ta" \in Running
    BY DEF InContext, Running
  <2>2. /\ F(p) = Top(t) /\ F(p) \in FrameSet
        /\ F(p).x # 0 /\ F(p).op \in {"open", "invoke", "close"}
        /\ F(p).pc \in Running => F(p).held
        /\ F(p).pc \notin {"clear", "drop", "destroy"} => F(p).key[2] # 0
    BY <1>1, <1>2, <2>1, AtWork
  <2> QED BY <1>2, <2>1, <2>2
<1>4. PICK g : /\ Become(t, g)
               /\ g = Fail(F(p)) \/ g = [F(p) EXCEPT !.pc = "clear"]
  BY <1>3 DEF TaReturn
<1>5. /\ g \in FrameSet /\ Shape(g) /\ g.key = F(p).key /\ g.x = F(p).x /\ g.held
      /\ g.pc \in {"ta", "unlink", "clear", "release"}
      /\ g.op = F(p).op \/ (F(p).op = "open" /\ g.op = "close")
  BY <1>3, <1>4, AfterEntry
<1>6. g.held = F(p).held
  BY <1>3, <1>5 DEF FrameSet
<1>7. /\ sess' = sess /\ open_sessions' = open_sessions /\ tee_ctxes' = tee_ctxes
      /\ known' = known /\ si_thread' = si_thread /\ si_count' = si_count
      /\ ctx' = [ctx EXCEPT ![F(p).x].panicked = FALSE]
  BY <1>3 DEF TaReturn, locks
<1> QED BY <1>1, <1>2, <1>3, <1>4, <1>5, <1>6, <1>7, GoesOnCalm

(* The TA panics. *)
LEMMA TaPanicStep ==
  ASSUME IInv, NEW t \in Threads, TaPanic(t)
  PROVE  IInv'
<1>1. PICK p : p = <<t, Len(stack[t])>>
  OBVIOUS
<1>2. stack[t] # << >> /\ Top(t).pc = "ta"
  BY DEF TaPanic, At
<1>3. /\ F(p) = Top(t) /\ F(p) \in FrameSet /\ F(p).x # 0 /\ F(p).key[2] # 0
      /\ F(p).op \in {"open", "invoke", "close"} /\ F(p).held
  <2>1. "ta" \in InContext /\ "ta" \in Running
    BY DEF InContext, Running
  <2>2. /\ F(p) = Top(t) /\ F(p) \in FrameSet
        /\ F(p).x # 0 /\ F(p).op \in {"open", "invoke", "close"}
        /\ F(p).pc \in Running => F(p).held
        /\ F(p).pc \notin {"clear", "drop", "destroy"} => F(p).key[2] # 0
    BY <1>1, <1>2, <2>1, AtWork
  <2> QED BY <1>2, <2>1, <2>2
<1>4. PICK g : Become(t, g) /\ g = Dead(F(p))
  BY <1>3 DEF TaPanic
<1>5. /\ g \in FrameSet /\ Shape(g) /\ g.key = F(p).key /\ g.x = F(p).x /\ g.held
      /\ g.pc \in {"ta", "unlink", "clear", "release"}
      /\ g.op = F(p).op \/ (F(p).op = "open" /\ g.op = "close")
  BY <1>3, <1>4, AfterEntry
<1>6. g.held = F(p).held
  BY <1>3, <1>5 DEF FrameSet
<1>7. /\ sess' = sess /\ open_sessions' = open_sessions /\ tee_ctxes' = tee_ctxes
      /\ known' = known /\ si_thread' = si_thread /\ si_count' = si_count
      /\ ctx' = [ctx EXCEPT ![F(p).x].panicked = TRUE]
  BY <1>3 DEF TaPanic, locks
<1> QED BY <1>1, <1>2, <1>3, <1>4, <1>5, <1>6, <1>7, GoesOnCalm

(* close_session, up to the busy flag or, for a panicked TA, the unlinking. *)
LEMMA CloseSessionStep ==
  ASSUME IInv, NEW t \in Threads, CloseSession(t)
  PROVE  IInv'
<1>1. PICK p : p = <<t, Len(stack[t])>>
  OBVIOUS
<1>2. stack[t] # << >> /\ Top(t).pc = "close"
  BY DEF CloseSession, At
<1>3. /\ F(p) = Top(t) /\ F(p) \in FrameSet /\ F(p).x # 0 /\ F(p).key[2] # 0
      /\ ~F(p).held /\ Shape(F(p))
  BY <1>1, <1>2, AtWork DEF InContext, Running, Ending
<1>4. F(p).op = "close"
  BY <1>2, <1>3 DEF Shape, Ending
<1>5. PICK c \in Pcs : c = IF ctx[F(p).x].panicked THEN "unlink" ELSE "busy"
  BY DEF Pcs
<1>6. PICK g : g = [F(p) EXCEPT !.pc = c]
  OBVIOUS
<1>7. /\ Become(t, g)
      /\ sess' = sess /\ open_sessions' = open_sessions /\ tee_ctxes' = tee_ctxes
      /\ known' = known /\ si_thread' = si_thread /\ si_count' = si_count /\ ctx' = ctx
  BY <1>3, <1>5, <1>6 DEF CloseSession, Goto, locks
<1>8. /\ g \in FrameSet /\ g.key = F(p).key /\ g.x = F(p).x /\ g.op = F(p).op
      /\ g.held = F(p).held /\ g.pc = c /\ c \in {"unlink", "busy"}
  BY <1>3, <1>5, <1>6 DEF FrameSet
<1>9. Shape(g)
  BY <1>3, <1>4, <1>8 DEF Shape, InContext, Running, Ending
<1>10. F(p).pc = "close"
  BY <1>2, <1>3
<1> QED BY <1>1, <1>2, <1>7, <1>8, <1>9, <1>10, GoesOnCalm

(* The busy flag of a context becomes b, and nothing else of the contexts    *)
(* changes.                                                                 *)
BusySet(x, b) ==
  /\ ctx' \in [Ctxs -> CtxSet]
  /\ \A y \in Ctxs : y # x => ctx'[y] = ctx[y]
  /\ \A y \in Ctxs : /\ ctx'[y].ta = ctx[y].ta /\ ctx'[y].ref_count = ctx[y].ref_count
                     /\ ctx'[y].is_releasing = ctx[y].is_releasing
                     /\ ctx'[y].is_initializing = ctx[y].is_initializing
  /\ ctx'[x].busy <=> b

(* What an assignment to the busy flag does. *)
LEMMA BusySets ==
  ASSUME Types, NEW x \in Ctxs, NEW b \in BOOLEAN, ctx' = [ctx EXCEPT ![x].busy = b]
  PROVE  BusySet(x, b)
<1>1. ctx \in [Ctxs -> CtxSet]
  BY DEF Types
<1>2. PICK r : r = [ctx[x] EXCEPT !.busy = b]
  OBVIOUS
<1>3. /\ r \in CtxSet /\ r.ta = ctx[x].ta /\ r.ref_count = ctx[x].ref_count
      /\ r.is_releasing = ctx[x].is_releasing /\ r.busy = b
      /\ r.is_initializing = ctx[x].is_initializing
  BY <1>1, <1>2 DEF CtxSet
<1>4. ctx' = [ctx EXCEPT ![x] = r]
  BY <1>2
<1> QED BY <1>1, <1>3, <1>4 DEF BusySet

(* tee_ta_try_set_busy succeeds: the context is free, and so is the         *)
(* single-instance lock, or it is this thread's.                            *)
LEMMA Enters ==
  ASSUME IInv, NEW t \in Threads, stack[t] # << >>, NEW p, p = <<t, Len(stack[t])>>,
         Top(t).pc = "busy", NEW x \in Ctxs, x = F(p).x, ~ctx[x].busy,
         Has(x, "SINGLE_INSTANCE") => si_thread \in {t, NoThread},
         NEW g \in FrameSet, Become(t, g), Shape(g), g.key = F(p).key, g.x = x, g.held,
         g.op = F(p).op \/ (F(p).op = "open" /\ g.op = "close"),
         g.pc \in {"ta", "unlink", "clear", "release"},
         NEW b \in BOOLEAN, b, BusySet(x, b),
         Has(x, "SINGLE_INSTANCE") => si_thread' = t /\ si_count' = si_count + 1,
         ~Has(x, "SINGLE_INSTANCE") => si_thread' = si_thread /\ si_count' = si_count,
         sess' = sess, open_sessions' = open_sessions, tee_ctxes' = tee_ctxes, known' = known
  PROVE  IInv'
<1>1. /\ p \in Frames /\ F(p) = Top(t) /\ p[1] = t /\ F(p) \in FrameSet /\ Shape(F(p))
      /\ Types /\ StackInv /\ IsFiniteSet(Frames)
  BY TopFacts
<1>2. F(p).pc = "busy" /\ ~F(p).held
  BY <1>1 DEF Shape, Running
<1>3. /\ p \in Frames' /\ F(p)' = g /\ Moves(p) /\ IsFiniteSet(Frames')
  BY <1>1, BecomeEffect
<1>4. /\ ctx' \in [Ctxs -> CtxSet]
      /\ \A y \in Ctxs : y # x => ctx'[y] = ctx[y]
      /\ \A y \in Ctxs : /\ ctx'[y].ta = ctx[y].ta /\ ctx'[y].ref_count = ctx[y].ref_count
                         /\ ctx'[y].is_releasing = ctx[y].is_releasing
                         /\ ctx'[y].is_initializing = ctx[y].is_initializing
      /\ ctx'[x].busy
  BY DEF BusySet
<1>5. si_thread' \in Threads \cup {NoThread} /\ si_count' \in Nat
  <2>1. si_thread \in Threads \cup {NoThread} /\ si_count \in Nat
    BY <1>1 DEF Types
  <2> QED BY <2>1
<1>6. /\ Types' /\ StackInv' /\ OneListed'
      /\ \A k \in Keys : SessInv(k)'
      /\ \A y \in Ctxs : CtxInv(y)'
  <2>1. \A y \in Ctxs :
            \/ ctx'[y] = ctx[y]
            \/ /\ F(p).x = y
               /\ ctx'[y].ta = ctx[y].ta /\ ctx'[y].ref_count = ctx[y].ref_count
               /\ ctx'[y].is_releasing = ctx[y].is_releasing
               /\ ctx'[y].is_initializing = ctx[y].is_initializing \/ F(p).pc = "load"
    BY <1>4
  <2>2. /\ F(p).pc \in {"load", "busy", "ta", "release", "release_state", "clear", "close"}
        /\ g.pc \in {"busy", "ta", "release", "release_state", "clear", "close", "unlink", "put",
                     "drop"}
        /\ g.x = F(p).x
    BY <1>2
  <2>3. ctx' \in [Ctxs -> CtxSet]
    BY <1>4
  <2> QED BY <1>5, <2>1, <2>2, <2>3, GoesOn
<1>7. ASSUME NEW y \in Ctxs PROVE BusyInv(y)'
  <2>1. BusyInv(y)
    BY DEF IInv
  <2>2. CASE y # x
    BY <1>1, <1>2, <1>3, <1>4, <2>1, <2>2, BusyKeep
  <2>3. CASE y = x
    <3>1. /\ \A q : q # p => (q \in In(x)' <=> q \in In(x))
          /\ \A q \in In(x) : q # p => F(q)' = F(q)
      BY <1>1, <1>3 DEF Moves, In
    <3>4. p \in In(x)'
      BY <1>3 DEF In
    <3>2. \A q \in In(x) : ~F(q).held
      BY <2>1, <2>3 DEF BusyInv
    <3>3. \A q \in In(x)' : F(q)'.held <=> q = p
      BY <1>3, <3>1, <3>2
    <3>5. BusyInv(x)'
      BY <1>4, <3>3, <3>4 DEF BusyInv
    <3> QED BY <2>3, <3>5
  <2> QED BY <2>2, <2>3
<1>8. SingleInv'
  <2>1. ASSUME NEW q \in Frames, F(q).held PROVE F(q).x \in Ctxs
    <3>1. Shape(F(q)) /\ (F(q).x # 0 => F(q).x \in Ctxs)
      BY <1>1, FrameFacts
    <3> QED BY <2>1, <3>1 DEF Shape, InContext, Running, Ending
  <2>2. \A q \in Frames : q # p /\ F(q).held => ctx'[F(q).x].ta = ctx[F(q).x].ta
    BY <1>4, <2>1
  <2>3. /\ \A q : q # p => (q \in Single' <=> q \in Single)
        /\ p \notin Single
        /\ p \in Single' <=> Has(x, "SINGLE_INSTANCE")
        /\ Cardinality(Single) \in Nat /\ Cardinality(Single') \in Nat
    BY <1>1, <1>2, <1>3, <1>4, <2>2, SingleMoves DEF Has
  <2>4. SingleInv
    BY DEF IInv
  <2>5. CASE ~Has(x, "SINGLE_INSTANCE")
    <3>1. p \in Single <=> p \in Single'
      BY <2>3, <2>5
    <3> QED BY <1>3, <2>2, <2>4, <2>5, <3>1, SingleKeep
  <2>6. CASE Has(x, "SINGLE_INSTANCE")
    <3>1. p \in Single'
      BY <2>3, <2>6
    <3>2. Cardinality(Single') = Cardinality(Single) + 1
      BY <1>1, <1>3, <2>2, <2>3, <3>1, SingleMoves
    <3>3. \A q \in Single : q[1] = t
      <4> SUFFICES ASSUME NEW q \in Single PROVE q[1] = t
        OBVIOUS
      <4>1. q[1] = si_thread /\ q \in Frames
        BY <2>4 DEF SingleInv, Single
      <4>2. q[1] \in Threads
        BY <1>1, <4>1, FrameFacts
      <4> QED BY <2>6, <4>1, <4>2, ManagerAssumption
    <3>4. \A q \in Single' : q[1] = t
      BY <1>1, <2>3, <3>3
    <3>5. si_count = Cardinality(Single)
      BY <2>4 DEF SingleInv
    <3>6. si_thread' = t /\ si_count' = Cardinality(Single') /\ si_count' # 0
      BY <2>3, <2>6, <3>2, <3>5
    <3>7. t # NoThread
      BY ManagerAssumption
    <3> QED BY <3>4, <3>6, <3>7 DEF SingleInv
  <2> QED BY <2>5, <2>6
<1> QED BY <1>6, <1>7, <1>8 DEF IInv

(* tee_ta_try_set_busy and what follows when it fails. *)
LEMMA SetBusyStep ==
  ASSUME IInv, NEW t \in Threads, SetBusy(t)
  PROVE  IInv'
<1>1. PICK p : p = <<t, Len(stack[t])>>
  OBVIOUS
<1>2. stack[t] # << >> /\ Top(t).pc = "busy"
  BY DEF SetBusy, At
<1>3. /\ F(p) = Top(t) /\ F(p) \in FrameSet /\ F(p).x # 0 /\ F(p).key[2] # 0
      /\ ~F(p).held /\ Shape(F(p)) /\ F(p).x \in Ctxs
      /\ F(p).op \in {"open", "invoke", "close"}
  BY <1>1, <1>2, AtWork DEF InContext, Running, Ending
<1>4. PICK x \in Ctxs : x = F(p).x
  BY <1>3
<1>5. PICK f \in FrameSet : f = F(p)
  BY <1>3
<1>6. /\ sess' = sess /\ open_sessions' = open_sessions /\ tee_ctxes' = tee_ctxes
      /\ known' = known
  BY DEF SetBusy
<1>7. \/ ctx' = ctx /\ si_thread' = si_thread /\ si_count' = si_count /\ stack' = stack
      \/ Refused(t) /\ ctx' = ctx /\ si_thread' = si_thread /\ si_count' = si_count
      \/ /\ ~ctx[x].busy
         /\ Has(x, "SINGLE_INSTANCE") => si_thread \in {t, NoThread}
         /\ ctx' = [ctx EXCEPT ![x].busy = TRUE]
         /\ si_thread' = (IF Has(x, "SINGLE_INSTANCE") THEN t ELSE si_thread)
         /\ si_count' = (IF Has(x, "SINGLE_INSTANCE") THEN si_count + 1 ELSE si_count)
         /\ Entered(t, [f EXCEPT !.held = TRUE])
  BY <1>3, <1>4, <1>5 DEF SetBusy, locks
<1>8. CASE ctx' = ctx /\ si_thread' = si_thread /\ si_count' = si_count /\ stack' = stack
  BY <1>6, <1>8, OnlyWaits
<1>9. CASE Refused(t) /\ ctx' = ctx /\ si_thread' = si_thread /\ si_count' = si_count
  <2>1. CASE f.op # "open"
    <3>1. stack' = stack
      BY <1>3, <1>5, <1>9, <2>1 DEF Refused
    <3> QED BY <1>6, <1>9, <3>1, OnlyWaits
  <2>2. CASE f.op = "open"
    <3>1. PICK g : g = [f EXCEPT !.op = "close", !.pc = "close"]
      OBVIOUS
    <3>2. Become(t, g)
      BY <1>3, <1>5, <1>9, <2>2, <3>1 DEF Refused
    <3>3. /\ g \in FrameSet /\ g.key = f.key /\ g.x = f.x /\ g.op = "close" /\ g.pc = "close"
          /\ g.held = f.held
      BY <3>1 DEF FrameSet, Pcs, Ops
    <3>4. Shape(g)
      BY <1>3, <1>5, <3>3 DEF Shape, InContext, Running, Ending
    <3>5. /\ F(p).pc = "busy" /\ g.key = F(p).key /\ g.x = F(p).x /\ g.held = F(p).held
          /\ F(p).op = "open" /\ g.op = "close"
      BY <1>2, <1>3, <1>5, <2>2, <3>3
    <3> QED BY <1>1, <1>2, <1>6, <1>9, <3>2, <3>3, <3>4, <3>5, GoesOnCalm
  <2> QED BY <2>1, <2>2
<1>10. CASE /\ ~ctx[x].busy
            /\ Has(x, "SINGLE_INSTANCE") => si_thread \in {t, NoThread}
            /\ ctx' = [ctx EXCEPT ![x].busy = TRUE]
            /\ si_thread' = (IF Has(x, "SINGLE_INSTANCE") THEN t ELSE si_thread)
            /\ si_count' = (IF Has(x, "SINGLE_INSTANCE") THEN si_count + 1 ELSE si_count)
            /\ Entered(t, [f EXCEPT !.held = TRUE])
  <2>1. PICK h : h = [f EXCEPT !.held = TRUE]
    OBVIOUS
  <2>2. /\ h \in FrameSet /\ h.x = x /\ h.key = F(p).key /\ h.op = F(p).op /\ h.held
    BY <1>4, <1>5, <2>1 DEF FrameSet
  <2>3. PICK g : /\ Become(t, g)
                 /\ g = Fail(h) \/ g = Dead(h) \/ g = [h EXCEPT !.pc = "ta"]
    <3>1. Entered(t, h)
      BY <1>10, <2>1
    <3> QED BY <3>1 DEF Entered
  <2>4. /\ g \in FrameSet /\ Shape(g) /\ g.key = h.key /\ g.x = h.x /\ g.held
        /\ g.pc \in {"ta", "unlink", "clear", "release"}
        /\ g.op = h.op \/ (h.op = "open" /\ g.op = "close")
    BY <1>3, <1>4, <2>2, <2>3, AfterEntry
  <2>5. /\ g.key = F(p).key /\ g.x = x
        /\ g.op = F(p).op \/ (F(p).op = "open" /\ g.op = "close")
    BY <2>2, <2>4
  <2>6. /\ Has(x, "SINGLE_INSTANCE") => si_thread' = t /\ si_count' = si_count + 1
        /\ ~Has(x, "SINGLE_INSTANCE") => si_thread' = si_thread /\ si_count' = si_count
    BY <1>10
  <2>7. /\ ~ctx[x].busy
        /\ Has(x, "SINGLE_INSTANCE") => si_thread \in {t, NoThread}
    BY <1>10
  <2>8. PICK b \in BOOLEAN : b
    OBVIOUS
  <2>9. BusySet(x, b)
    <3>1. Types
      BY DEF IInv
    <3>2. b = TRUE
      BY <2>8
    <3>3. ctx' = [ctx EXCEPT ![x].busy = b]
      BY <1>10, <3>2
    <3> QED BY <3>1, <3>3, BusySets
  <2> QED BY <1>1, <1>2, <1>4, <1>6, <2>3, <2>4, <2>5, <2>6, <2>7, <2>8, <2>9, Enters
<1> QED BY <1>7, <1>8, <1>9, <1>10

(* tee_ta_clear_busy. *)
LEMMA ClearBusyStep ==
  ASSUME IInv, NEW t \in Threads, ClearBusy(t)
  PROVE  IInv'
<1>1. PICK p : p = <<t, Len(stack[t])>>
  OBVIOUS
<1>2. stack[t] # << >> /\ Top(t).pc = "clear"
  BY DEF ClearBusy, At
<1>3. /\ p \in Frames /\ F(p) = Top(t) /\ p[1] = t /\ F(p) \in FrameSet /\ Shape(F(p))
      /\ Types /\ StackInv /\ IsFiniteSet(Frames)
  BY <1>1, <1>2, TopFacts
<1>4. /\ F(p).x # 0 /\ F(p).x \in Ctxs /\ F(p).op \in {"open", "invoke", "close"} /\ F(p).held
  BY <1>1, <1>2, <1>3, AtWork DEF InContext, Running
<1>5. PICK x \in Ctxs : x = F(p).x
  BY <1>4
<1>6. PICK f \in FrameSet : f = F(p)
  BY <1>3
<1>7. f.key[2] = 0 => f.op = "close"
  BY <1>2, <1>3, <1>6 DEF Shape
<1>8. PICK c \in Pcs : c = AfterClear(f)
  BY DEF AfterClear, Pcs
<1>9. \/ c = "put" /\ f.op # "close" /\ f.key[2] # 0
      \/ c = "drop" /\ f.op = "close" /\ f.key[2] = 0
      \/ c = "close" /\ f.op = "close" /\ f.key[2] # 0
  BY <1>7, <1>8 DEF AfterClear
<1>10. PICK b \in BOOLEAN : ~b
  OBVIOUS
<1>11. b = FALSE
  BY <1>10
<1>12. PICK g : g = [f EXCEPT !.held = b, !.pc = c]
  OBVIOUS
<1>13. /\ g \in FrameSet /\ g.key = f.key /\ g.x = f.x /\ g.op = f.op /\ g.pc = c /\ g.held = b
  BY <1>12 DEF FrameSet
<1>14. Shape(g)
  BY <1>4, <1>6, <1>9, <1>10, <1>13 DEF Shape, InContext, Running, Ending
<1>15. /\ Become(t, g) /\ ctx' = [ctx EXCEPT ![x].busy = b]
  BY <1>3, <1>5, <1>6, <1>8, <1>11, <1>12 DEF ClearBusy
<1>16. BusySet(x, b)
  BY <1>3, <1>15, BusySets
<1>17. /\ ctx' \in [Ctxs -> CtxSet]
       /\ \A y \in Ctxs : y # x => ctx'[y] = ctx[y]
       /\ \A y \in Ctxs : /\ ctx'[y].ta = ctx[y].ta /\ ctx'[y].ref_count = ctx[y].ref_count
                          /\ ctx'[y].is_releasing = ctx[y].is_releasing
                          /\ ctx'[y].is_initializing = ctx[y].is_initializing
       /\ ~ctx'[x].busy
  BY <1>10, <1>16 DEF BusySet
<1>18. /\ Has(x, "SINGLE_INSTANCE") =>
            /\ si_count' = si_count - 1
            /\ si_thread' = IF si_count = 1 THEN NoThread ELSE si_thread
       /\ ~Has(x, "SINGLE_INSTANCE") => si_thread' = si_thread /\ si_count' = si_count
       /\ sess' = sess /\ open_sessions' = open_sessions /\ tee_ctxes' = tee_ctxes
       /\ known' = known
  BY <1>3, <1>5 DEF ClearBusy
<1>19. /\ p \in Frames' /\ F(p)' = g /\ Moves(p) /\ IsFiniteSet(Frames')
  BY <1>1, <1>2, <1>3, <1>13, <1>15, BecomeEffect
<1>20. SingleInv' /\ si_thread' \in Threads \cup {NoThread} /\ si_count' \in Nat
  <2>1. ASSUME NEW q \in Frames, F(q).held PROVE F(q).x \in Ctxs
    <3>1. Shape(F(q)) /\ (F(q).x # 0 => F(q).x \in Ctxs)
      BY <1>3, FrameFacts
    <3> QED BY <2>1, <3>1 DEF Shape, InContext, Running, Ending
  <2>2. \A q \in Frames : q # p /\ F(q).held => ctx'[F(q).x].ta = ctx[F(q).x].ta
    BY <1>17, <2>1
  <2>3. \A q : q # p => (q \in Single' <=> q \in Single)
    BY <1>3, <1>19, <2>2, SingleMoves
  <2>4. p \in Single <=> Has(x, "SINGLE_INSTANCE")
    BY <1>3, <1>4, <1>5 DEF Single
  <2>5. p \notin Single'
    BY <1>10, <1>13, <1>19 DEF Single
  <2>6. SingleInv /\ si_thread \in Threads \cup {NoThread} /\ si_count \in Nat
    BY <1>3 DEF IInv, Types
  <2>7. CASE ~Has(x, "SINGLE_INSTANCE")
    <3>1. p \in Single <=> p \in Single'
      BY <2>4, <2>5, <2>7
    <3> QED BY <1>18, <1>19, <2>2, <2>6, <2>7, <3>1, SingleKeep
  <2>8. CASE Has(x, "SINGLE_INSTANCE")
    <3>1. p \in Single
      BY <2>4, <2>8
    <3>2. Cardinality(Single') = Cardinality(Single) - 1 /\ Cardinality(Single') \in Nat
      BY <1>3, <1>19, <2>2, <2>5, <3>1, SingleMoves
    <3>3. si_count = Cardinality(Single) /\ \A q \in Single : q[1] = si_thread
      BY <2>6 DEF SingleInv
    <3>4. si_count' = Cardinality(Single')
      BY <1>18, <2>8, <3>2, <3>3
    <3>5. si_thread # NoThread
      BY <1>3, <3>1, <3>3, ManagerAssumption
    <3>6. CASE si_count = 1
      <4>1. si_thread' = NoThread /\ si_count' = 0 /\ Cardinality(Single') = 0
        BY <1>18, <2>8, <3>4, <3>6
      <4>2. IsFiniteSet(Single')
        BY <1>19, FS_Subset DEF Single
      <4>3. Single' = {}
        BY <4>1, <4>2, FS_EmptySet
      <4> QED BY <3>4, <4>1, <4>3 DEF SingleInv
    <3>7. CASE si_count # 1
      <4>1. si_thread' = si_thread /\ si_count' # 0
        BY <1>18, <2>6, <2>8, <3>7
      <4>2. \A q \in Single' : q[1] = si_thread
        BY <2>3, <2>5, <3>3
      <4>3. si_count' \in Nat
        BY <3>2, <3>4
      <4> QED BY <2>6, <3>4, <3>5, <4>1, <4>2, <4>3 DEF SingleInv
    <3> QED BY <3>6, <3>7
  <2> QED BY <2>7, <2>8
<1>21. ASSUME NEW y \in Ctxs PROVE BusyInv(y)'
  <2>1. BusyInv(y)
    BY DEF IInv
  <2>2. CASE y # x
    <3>1. /\ ~(p \in Frames /\ F(p).x = y /\ F(p).held)
          /\ ~(p \in Frames' /\ F(p)'.x = y /\ F(p)'.held)
      BY <1>5, <1>6, <1>13, <1>19, <2>2
    <3>2. ctx'[y].busy = ctx[y].busy
      BY <1>17, <2>2
    <3> QED BY <1>3, <1>19, <2>1, <3>1, <3>2, BusyKeep
  <2>3. CASE y = x
    <3>1. /\ \A q : q # p => (q \in In(x)' <=> q \in In(x))
          /\ \A q \in In(x) : q # p => F(q)' = F(q)
      BY <1>3, <1>19 DEF Moves, In
    <3>2. \A q \in In(x) : F(q).held => q = p
      BY <1>3, <1>4, <1>5, <2>1, <2>3 DEF BusyInv, In
    <3>3. \A q \in In(x)' : ~F(q)'.held
      BY <1>10, <1>13, <1>19, <3>1, <3>2
    <3>5. BusyInv(x)'
      BY <1>17, <3>3 DEF BusyInv
    <3> QED BY <2>3, <3>5
  <2> QED BY <2>2, <2>3
<1>22. /\ Types' /\ StackInv' /\ OneListed'
       /\ \A k \in Keys : SessInv(k)'
       /\ \A y \in Ctxs : CtxInv(y)'
  <2>1. \A y \in Ctxs :
            \/ ctx'[y] = ctx[y]
            \/ /\ F(p).x = y
               /\ ctx'[y].ta = ctx[y].ta /\ ctx'[y].ref_count = ctx[y].ref_count
               /\ ctx'[y].is_releasing = ctx[y].is_releasing
               /\ ctx'[y].is_initializing = ctx[y].is_initializing \/ F(p).pc = "load"
    BY <1>5, <1>17
  <2>2. /\ F(p).pc \in {"load", "busy", "ta", "release", "release_state", "clear", "close"}
        /\ g.pc \in {"busy", "ta", "release", "release_state", "clear", "close", "unlink", "put",
                     "drop"}
        /\ g.x = F(p).x /\ g.key = F(p).key /\ g.op = F(p).op
    BY <1>2, <1>3, <1>6, <1>9, <1>13
  <2>3. ctx' \in [Ctxs -> CtxSet] /\ Become(t, g)
    BY <1>15, <1>17
  <2> QED BY <1>1, <1>2, <1>13, <1>14, <1>18, <1>20, <2>1, <2>2, <2>3, GoesOn
<1> QED BY <1>20, <1>21, <1>22 DEF IInv

(* A call starts: one more frame, in no context yet. *)
LEMMA Starts ==
  ASSUME IInv, NEW t \in Threads, NEW g \in FrameSet, Push(t, g), Shape(g), ~g.held, g.x = 0,
         g.pc \in {"get", "init"},
         \/ stack[t] = << >> /\ g.key[1] = 0
         \/ stack[t] # << >> /\ Top(t).pc \in Calling /\ Top(t).x = g.key[1],
         known' \subseteq known,
         g.pc = "get" =>
           /\ g.key \in Keys /\ Exists(g.key)
           /\ \A q \in On(g.key) : /\ F(q).op \notin {"open", "close"}
                                   /\ g.op = "close" => F(q).pc # "get"
           /\ g.op = "close" => ~(g.key[1] = 0 /\ g.key[2] \in known'),
         sess' = sess, open_sessions' = open_sessions, tee_ctxes' = tee_ctxes, ctx' = ctx,
         si_thread' = si_thread, si_count' = si_count
  PROVE  IInv'
<1>1. PICK p : p = <<t, Len(stack[t]) + 1>>
  OBVIOUS
<1>2. Types /\ StackInv /\ IsFiniteSet(Frames)
  BY DEF IInv, Types
<1>3. /\ p \notin Frames /\ p \in Frames' /\ F(p)' = g /\ Moves(p)
      /\ stack' \in [Threads -> Seq(FrameSet)] /\ IsFiniteSet(Frames')
  BY <1>1, <1>2, PushEffect
<1>4. StackInv'
  BY <1>2, PushStack
<1>5. Types'
  BY <1>2, <1>3, TypesKeep DEF Types
<1>6. PICK k : k = g.key
  OBVIOUS
<1>7. ASSUME k \in Keys PROVE SessInv(k)'
  <2>1. SessInv(k) /\ (Exists(k)' <=> Exists(k))
    BY <1>7 DEF IInv, Exists
  <2>2. k[2] # 0
    BY <1>7, ManagerAssumption DEF Keys, Ids
  <2>3. g.pc = "get" /\ g.op # "open"
    BY <1>6, <2>2 DEF Shape
  <2> QED BY <1>2, <1>3, <1>6, <1>7, <2>1, <2>3, SessCalled
<1>8. \A j \in Keys : SessInv(j)'
  <2>1. \A j \in Keys : Exists(j)' <=> Exists(j)
    BY DEF Exists
  <2> QED BY <1>3, <1>6, <1>7, <2>1, SessOthers
<1>9. (\A x \in Ctxs : CtxInv(x)') /\ OneListed'
  <2>1. \A x \in Ctxs : p \in Going(x) <=> p \in Going(x)'
    BY <1>3 DEF Going
  <2> QED BY <1>3, <2>1, CalmCtx
<1>10. (\A x \in Ctxs : BusyInv(x)') /\ SingleInv'
  BY <1>3, CalmBusy
<1> QED BY <1>4, <1>5, <1>8, <1>9, <1>10 DEF IInv

(* While a frame calls from inside a context nobody uses the sessions of    *)
(* its list, unless the frame above it does.                                *)
LEMMA NobodyCalls ==
  ASSUME IInv, NEW t \in Threads, stack[t] # << >>, Top(t).pc \in Calling,
         NEW q \in Frames, F(q).key[1] = Top(t).x
  PROVE  FALSE
<1>1. PICK p : p = <<t, Len(stack[t])>>
  OBVIOUS
<1>2. p \in Frames /\ F(p) = Top(t) /\ Shape(F(p)) /\ Types
  BY <1>1, TopFacts
<1>3. F(p).x # 0
  BY <1>2 DEF Shape, Calling, InContext, Running, Ending
<1>4. PICK r \in Frames : /\ F(r).pc \in Calling /\ F(r).x = F(q).key[1]
                          /\ q = <<r[1], r[2] + 1>>
  BY <1>2, <1>3, CallerOf
<1>5. r = p
  BY <1>2, <1>4, OneCaller
<1>6. q = <<t, Len(stack[t]) + 1>>
  BY <1>1, <1>4, <1>5
<1>7. PICK u \in Threads : \E i \in 1 .. Len(stack[u]) : q = <<u, i>>
  BY FrameIs
<1>8. Len(stack[t]) \in Nat
  BY <1>2 DEF Types
<1> QED BY <1>6, <1>7, <1>8

(* The frame of a call on a session. *)
LEMMA CallFrame ==
  ASSUME NEW op \in Ops, op # "open", NEW k \in Keys, NEW g, g = Frame(op, NoTa, k, "get")
  PROVE  /\ g \in FrameSet /\ Shape(g) /\ ~g.held /\ g.x = 0 /\ g.pc = "get"
         /\ g.key = k /\ g.op = op
<1>1. k \in Lists \X (Ids \cup {0}) /\ k[2] # 0
  BY ManagerAssumption DEF Keys, Ids
<1>2. 0 \in 0 .. MaxCtx /\ "get" \in Pcs
  BY ManagerAssumption DEF Pcs
<1>3. g = [op |-> op, ta |-> NoTa, key |-> k, x |-> 0, pc |-> "get", held |-> FALSE]
  BY DEF Frame
<1>4. /\ g.op = op /\ g.key = k /\ g.x = 0 /\ g.pc = "get" /\ ~g.held
  BY <1>3
<1>5. g \in FrameSet
  <2>1. PICK b \in BOOLEAN : b = FALSE
    OBVIOUS
  <2>2. g = [op |-> op, ta |-> NoTa, key |-> k, x |-> 0, pc |-> "get", held |-> b]
    BY <1>3, <2>1
  <2> QED BY <1>1, <1>2, <2>2 DEF FrameSet
<1>6. Shape(g)
  BY <1>1, <1>4 DEF Shape, InContext, Running, Ending
<1> QED BY <1>4, <1>5, <1>6

(* The frame of a call that opens a session. *)
LEMMA OpenFrame ==
  ASSUME NEW a \in Tas, NEW l \in Lists, NEW g, g = Frame("open", a, <<l, 0>>, "init")
  PROVE  /\ g \in FrameSet /\ Shape(g) /\ ~g.held /\ g.x = 0 /\ g.pc = "init"
         /\ g.key[1] = l
<1>1. <<l, 0>> \in Lists \X (Ids \cup {0})
  OBVIOUS
<1>2. 0 \in 0 .. MaxCtx /\ "init" \in Pcs /\ "open" \in Ops
  BY ManagerAssumption DEF Pcs, Ops
<1>3. g = [op |-> "open", ta |-> a, key |-> <<l, 0>>, x |-> 0, pc |-> "init", held |-> FALSE]
  BY DEF Frame
<1>4. /\ g.op = "open" /\ g.key = <<l, 0>> /\ g.x = 0 /\ g.pc = "init" /\ ~g.held /\ g.ta \in Tas
  BY <1>3
<1>5. g \in FrameSet
  <2>1. PICK b \in BOOLEAN : b = FALSE
    OBVIOUS
  <2>2. g = [op |-> "open", ta |-> a, key |-> <<l, 0>>, x |-> 0, pc |-> "init", held |-> b]
    BY <1>3, <2>1
  <2> QED BY <1>1, <1>2, <2>2 DEF FrameSet
<1>6. Shape(g)
  BY <1>4 DEF Shape, InContext, Running, Ending
<1> QED BY <1>4, <1>5, <1>6

(* An element of a list of sessions is one of the table. *)
LEMMA OnList ==
  ASSUME Types, NEW l \in Lists, NEW id \in Elements(open_sessions[l])
  PROVE  <<l, id>> \in Keys /\ Exists(<<l, id>>)
<1>1. id \in Ids
  BY DEF Types, Elements
<1> QED BY <1>1 DEF Keys, Exists

(* A call with a session of the calling context. *)
LEMMA CallsOut ==
  ASSUME IInv, NEW t \in Threads, stack[t] # << >>, Top(t).pc \in Calling,
         NEW op \in {"invoke", "close"}, NEW id \in Elements(open_sessions[Top(t).x]),
         Push(t, Frame(op, NoTa, <<Top(t).x, id>>, "get")),
         sess' = sess, open_sessions' = open_sessions, tee_ctxes' = tee_ctxes, ctx' = ctx,
         si_thread' = si_thread, si_count' = si_count, known' = known
  PROVE  IInv'
<1>1. PICK x : x = Top(t).x
  OBVIOUS
<1>2. x \in Ctxs /\ x \in Lists /\ x # 0 /\ Types
  <2>1. Top(t).pc \in InContext
    BY DEF Calling, InContext, Running, Ending
  <2>2. x \in Ctxs /\ Types
    BY <1>1, <2>1, AtWork DEF IInv
  <2> QED BY <2>2, ManagerAssumption DEF Ctxs, Lists
<1>3. PICK k : k = <<x, id>>
  OBVIOUS
<1>4. k \in Keys /\ Exists(k) /\ k[1] = x
  BY <1>1, <1>2, <1>3, OnList
<1>5. PICK g : g = Frame(op, NoTa, k, "get")
  OBVIOUS
<1>6. op \in Ops /\ op # "open"
  BY DEF Ops
<1>7. /\ g \in FrameSet /\ Shape(g) /\ ~g.held /\ g.x = 0 /\ g.pc = "get"
      /\ g.key = k /\ g.op = op
  BY <1>4, <1>5, <1>6, CallFrame
<1>8. ASSUME NEW q \in On(k) PROVE FALSE
  <2>1. q \in Frames /\ F(q).key[1] = x
    BY <1>4 DEF On
  <2> QED BY <1>1, <2>1, NobodyCalls
<1>9. Push(t, g)
  BY <1>1, <1>3, <1>5
<1> QED BY <1>1, <1>2, <1>4, <1>7, <1>8, <1>9, Starts

(* The TA calls another TA. *)
LEMMA TaCallStep ==
  ASSUME IInv, NEW t \in Threads, TaCall(t)
  PROVE  IInv'
<1>1. stack[t] # << >> /\ Top(t).pc \in Calling
  BY DEF TaCall, At, Calling
<1>2. /\ sess' = sess /\ open_sessions' = open_sessions /\ tee_ctxes' = tee_ctxes /\ ctx' = ctx
      /\ si_thread' = si_thread /\ si_count' = si_count /\ known' = known
  BY DEF TaCall, locks
<1>3. \/ \E c \in Calls : Push(t, Frame("open", c[2], <<Top(t).x, 0>>, "init"))
      \/ \E op \in {"invoke", "close"} : \E id \in Elements(open_sessions[Top(t).x]) :
            Push(t, Frame(op, NoTa, <<Top(t).x, id>>, "get"))
  BY DEF TaCall
<1>4. CASE \E c \in Calls : Push(t, Frame("open", c[2], <<Top(t).x, 0>>, "init"))
  <2>1. PICK c \in Calls : Push(t, Frame("open", c[2], <<Top(t).x, 0>>, "init"))
    BY <1>4
  <2>2. PICK a \in Tas : a = c[2]
    BY ManagerAssumption
  <2>3. PICK l \in Lists : l = Top(t).x
    <3>1. Top(t).pc \in InContext
      BY <1>1 DEF Calling, InContext, Running, Ending
    <3>2. Top(t).x \in Ctxs
      BY <1>1, <3>1, AtWork
    <3> QED BY <3>2, ManagerAssumption DEF Ctxs, Lists
  <2>4. PICK g : g = Frame("open", a, <<l, 0>>, "init")
    OBVIOUS
  <2>5. /\ g \in FrameSet /\ Shape(g) /\ ~g.held /\ g.x = 0 /\ g.pc = "init"
        /\ g.key[1] = l
    BY <2>4, OpenFrame
  <2>6. Push(t, g)
    BY <2>1, <2>2, <2>3, <2>4
  <2> QED BY <1>1, <1>2, <2>3, <2>5, <2>6, Starts
<1>5. CASE \E op \in {"invoke", "close"} : \E id \in Elements(open_sessions[Top(t).x]) :
            Push(t, Frame(op, NoTa, <<Top(t).x, id>>, "get"))
  BY <1>1, <1>2, <1>5, CallsOut
<1> QED BY <1>3, <1>4, <1>5

(* release_utc_state closes the first of the context's sessions. *)
LEMMA ClosesFirst ==
  ASSUME IInv, NEW t \in Threads, stack[t] # << >>, Top(t).pc \in Calling,
         open_sessions[Top(t).x] # << >>, CloseFirst(t, Top(t).x),
         sess' = sess, open_sessions' = open_sessions, tee_ctxes' = tee_ctxes, ctx' = ctx,
         si_thread' = si_thread, si_count' = si_count, known' = known
  PROVE  IInv'
<1>1. PICK x : x = Top(t).x
  OBVIOUS
<1>2. x \in Lists /\ Types
  <2>1. Top(t).pc \in InContext
    BY DEF Calling, InContext, Running, Ending
  <2>2. x \in Ctxs /\ Types
    BY <1>1, <2>1, AtWork DEF IInv
  <2> QED BY <2>2, ManagerAssumption DEF Ctxs, Lists
<1>3. PICK q \in Seq(Ids) : q = open_sessions[x]
  BY <1>2 DEF Types
<1>4. q # << >> /\ 1 \in 1 .. Len(q) /\ Head(q) = q[1]
  BY <1>1, <1>3
<1>5. Head(q) \in Elements(q)
  BY <1>4 DEF Elements
<1>6. PICK id \in Elements(open_sessions[Top(t).x]) : id = Head(open_sessions[Top(t).x])
  BY <1>1, <1>3, <1>5
<1>7. Push(t, Frame("close", NoTa, <<Top(t).x, id>>, "get"))
  BY <1>6 DEF CloseFirst
<1> QED BY <1>6, <1>7, CallsOut

(* A session id the normal world holds is that of a session nobody is       *)
(* opening or closing.                                                      *)
LEMMA KnownId ==
  ASSUME IInv, NEW id \in known, id \in Ids, NEW k, k = <<0, id>>
  PROVE  /\ k \in Keys /\ Exists(k)
         /\ \A q \in On(k) : F(q).op \notin {"open", "close"}
<1>1. k \in Keys /\ k[1] = 0 /\ k[2] = id
  BY ManagerAssumption DEF Keys, Lists
<1>2. SessInv(k)
  BY <1>1 DEF IInv
<1> QED BY <1>1, <1>2 DEF SessInv

(* A call of the normal world on a session. *)
LEMMA EntryCalls ==
  ASSUME IInv, NEW t \in Threads, stack[t] = << >>, NEW op \in {"invoke", "close", "cancel"},
         NEW id \in known, id \in Ids, Push(t, Frame(op, NoTa, <<0, id>>, "get")),
         op = "close" => Arrived(id) /\ known' = known \ {id},
         op # "close" => known' = known,
         sess' = sess, open_sessions' = open_sessions, tee_ctxes' = tee_ctxes, ctx' = ctx,
         si_thread' = si_thread, si_count' = si_count
  PROVE  IInv'
<1>1. PICK k : k = <<0, id>>
  OBVIOUS
<1>2. /\ k \in Keys /\ Exists(k) /\ k[1] = 0 /\ k[2] = id
      /\ \A q \in On(k) : F(q).op \notin {"open", "close"}
  BY <1>1, KnownId
<1>3. PICK g : g = Frame(op, NoTa, k, "get")
  OBVIOUS
<1>4. op \in Ops /\ op # "open"
  BY DEF Ops
<1>5. /\ g \in FrameSet /\ Shape(g) /\ ~g.held /\ g.x = 0 /\ g.pc = "get"
      /\ g.key = k /\ g.op = op
  BY <1>2, <1>3, <1>4, CallFrame
<1>6. ASSUME op = "close", NEW q \in On(k) PROVE F(q).pc # "get"
  <2>1. q \in Frames /\ F(q).key = k
    BY <1>6 DEF On
  <2>2. q = <<q[1], 1>>
    BY <1>2, <2>1, FirstFrame
  <2>3. PICK u \in Threads : \E i \in 1 .. Len(stack[u]) : q = <<u, i>>
    BY <2>1, FrameIs
  <2>4. q[1] = u /\ stack[u] # << >>
    BY <2>3
  <2>5. F(q) = stack[u][1]
    BY <2>2, <2>4 DEF F
  <2> QED BY <1>1, <1>6, <2>1, <2>4, <2>5 DEF Arrived
<1>7. Push(t, g)
  BY <1>1, <1>3
<1>8. known' \subseteq known
  OBVIOUS
<1>9. op = "close" => ~(k[1] = 0 /\ k[2] \in known')
  BY <1>2
<1> QED BY <1>2, <1>5, <1>6, <1>7, <1>8, <1>9, Starts

(* The calls of the normal world. *)
LEMMA EntryStep ==
  ASSUME IInv, known \subseteq Ids, NEW t \in Threads, Entry(t)
  PROVE  IInv'
<1>1. CASE EntryOpenSession(t)
  <2>1. PICK a \in Tas : Push(t, Frame("open", a, <<0, 0>>, "init"))
    BY <1>1 DEF EntryOpenSession
  <2>2. PICK l \in Lists : l = 0
    BY ManagerAssumption DEF Lists
  <2>3. PICK g : g = Frame("open", a, <<l, 0>>, "init")
    OBVIOUS
  <2>4. /\ g \in FrameSet /\ Shape(g) /\ ~g.held /\ g.x = 0 /\ g.pc = "init"
        /\ g.key[1] = l
    BY <2>3, OpenFrame
  <2>5. /\ Push(t, g) /\ stack[t] = << >>
        /\ sess' = sess /\ open_sessions' = open_sessions /\ tee_ctxes' = tee_ctxes /\ ctx' = ctx
        /\ si_thread' = si_thread /\ si_count' = si_count /\ known' = known
    BY <1>1, <2>1, <2>2, <2>3 DEF EntryOpenSession, locks
  <2> QED BY <2>2, <2>4, <2>5, Starts
<1>2. CASE EntryInvokeCommand(t)
  <2>1. PICK id \in known : Push(t, Frame("invoke", NoTa, <<0, id>>, "get"))
    BY <1>2 DEF EntryInvokeCommand
  <2>2. /\ id \in Ids /\ stack[t] = << >>
        /\ sess' = sess /\ open_sessions' = open_sessions /\ tee_ctxes' = tee_ctxes /\ ctx' = ctx
        /\ si_thread' = si_thread /\ si_count' = si_count /\ known' = known
    BY <1>2 DEF EntryInvokeCommand, locks
  <2> QED BY <2>1, <2>2, EntryCalls
<1>3. CASE EntryCloseSession(t)
  <2>1. PICK id \in known : /\ Arrived(id)
                            /\ Push(t, Frame("close", NoTa, <<0, id>>, "get"))
                            /\ known' = known \ {id}
    BY <1>3 DEF EntryCloseSession
  <2>2. /\ id \in Ids /\ stack[t] = << >>
        /\ sess' = sess /\ open_sessions' = open_sessions /\ tee_ctxes' = tee_ctxes /\ ctx' = ctx
        /\ si_thread' = si_thread /\ si_count' = si_count
    BY <1>3 DEF EntryCloseSession, locks
  <2> QED BY <2>1, <2>2, EntryCalls
<1>4. CASE EntryCancel(t)
  <2>1. PICK id \in known : Push(t, Frame("cancel", NoTa, <<0, id>>, "get"))
    BY <1>4 DEF EntryCancel
  <2>2. /\ id \in Ids /\ stack[t] = << >>
        /\ sess' = sess /\ open_sessions' = open_sessions /\ tee_ctxes' = tee_ctxes /\ ctx' = ctx
        /\ si_thread' = si_thread /\ si_count' = si_count /\ known' = known
    BY <1>4 DEF EntryCancel, locks
  <2> QED BY <2>1, <2>2, EntryCalls
<1> QED BY <1>1, <1>2, <1>3, <1>4 DEF Entry

(* release_utc_state closes the next session, or is done. *)
LEMMA ReleaseStateStep ==
  ASSUME IInv, NEW t \in Threads, ReleaseState(t)
  PROVE  IInv'
<1>1. stack[t] # << >> /\ Top(t).pc = "release_state"
  BY DEF ReleaseState, At
<1>2. /\ sess' = sess /\ open_sessions' = open_sessions /\ tee_ctxes' = tee_ctxes /\ ctx' = ctx
      /\ si_thread' = si_thread /\ si_count' = si_count /\ known' = known
  BY DEF ReleaseState, locks
<1>3. PICK p : p = <<t, Len(stack[t])>>
  OBVIOUS
<1>4. /\ F(p) = Top(t) /\ F(p) \in FrameSet /\ F(p).x # 0 /\ F(p).key[2] # 0
      /\ F(p).held /\ Shape(F(p)) /\ F(p).op \in {"open", "invoke", "close"}
      /\ F(p).x \in Ctxs
  BY <1>1, <1>3, AtWork DEF InContext, Running, Ending
<1>5. CASE Goto(t, "clear")
  <2>1. PICK g : g = [F(p) EXCEPT !.pc = "clear"]
    OBVIOUS
  <2>2. /\ g \in FrameSet /\ g.key = F(p).key /\ g.x = F(p).x /\ g.op = F(p).op
        /\ g.held = F(p).held /\ g.pc = "clear"
    BY <1>4, <2>1 DEF FrameSet, Pcs
  <2>3. Shape(g)
    BY <1>4, <2>2 DEF Shape, InContext, Running, Ending
  <2>4. Become(t, g) /\ F(p).pc = "release_state"
    BY <1>1, <1>4, <1>5, <2>1 DEF Goto
  <2> QED BY <1>1, <1>2, <1>3, <2>2, <2>3, <2>4, GoesOnCalm
<1>6. CASE open_sessions[Top(t).x] # << >> /\ CloseFirst(t, Top(t).x)
  BY <1>1, <1>2, <1>6, ClosesFirst DEF Calling
<1> QED BY <1>5, <1>6 DEF ReleaseState

----------------------------------------------------------------------------
(* The life of a context. *)

(* The context that is not there. *)
LEMMA NoCtxIs ==
  /\ NoCtx \in CtxSet /\ NoCtx.ta = NoTa /\ NoCtx.ref_count = 0 /\ ~NoCtx.busy
  /\ ~NoCtx.is_initializing /\ ~NoCtx.is_releasing /\ ~NoCtx.panicked
<1>1. PICK b \in BOOLEAN : b = FALSE
  OBVIOUS
<1>2. NoCtx = [ta |-> NoTa, ref_count |-> 0, busy |-> b, is_initializing |-> b,
               is_releasing |-> b, panicked |-> b]
  BY <1>1 DEF NoCtx
<1>3. NoCtx \in CtxSet
  BY <1>2 DEF CtxSet
<1>4. /\ NoCtx.ta = NoTa /\ NoCtx.ref_count = 0 /\ NoCtx.busy = b
      /\ NoCtx.is_initializing = b /\ NoCtx.is_releasing = b /\ NoCtx.panicked = b
  BY <1>2
<1> QED BY <1>1, <1>3, <1>4

(* A context a step is not about. *)
LEMMA CtxOther ==
  ASSUME IInv, NEW p, Moves(p), IsFiniteSet(Frames'), NEW y \in Ctxs,
         ctx'[y] = ctx[y], Listed(y)' <=> Listed(y), SessOf(y)' = SessOf(y),
         open_sessions'[y] = open_sessions[y],
         p \in Frames => F(p).x # y, p \in Frames' => F(p)'.x # y
  PROVE  CtxInv(y)'
<1>1. CtxInv(y) /\ IsFiniteSet(Frames)
  BY DEF IInv, Types
<1>2. p \notin Going(y) /\ p \notin Going(y)'
  BY DEF Going
<1> QED BY <1>1, <1>2, CtxKeep

(* A context that no frame is loading or destroying. *)
LEMMA CtxPlain ==
  ASSUME NEW x \in Ctxs, ctx'[x].ta # NoTa, Listed(x)' <=> ~ctx'[x].is_releasing,
         ctx'[x].ref_count = Cardinality(SessOf(x)') + Cardinality(Going(x)'),
         ctx'[x].ref_count = 0 => KeepAlive(x)',
         \A q \in Frames' : F(q)'.x = x => F(q)'.pc # "destroy" /\ F(q)'.pc # "load"
  PROVE  CtxInv(x)'
<1>1. \A q \in In(x)' : F(q)'.pc # "destroy" /\ F(q)'.pc # "load"
  BY DEF In
<1> QED BY <1>1 DEF CtxInv

(* A context that is gone. *)
LEMMA CtxFreed ==
  ASSUME NEW x \in Ctxs, ctx'[x] = NoCtx, ~Listed(x)', open_sessions'[x] = << >>,
         SessOf(x)' = {}, \A q \in Frames' : F(q)'.x # x
  PROVE  CtxInv(x)'
<1>1. In(x)' = {} /\ Going(x)' = {}
  BY DEF In, Going
<1>2. Cardinality(SessOf(x)') + Cardinality(Going(x)') = 0
  BY <1>1, FS_EmptySet
<1>3. ctx'[x].ta = NoTa /\ ctx'[x].ref_count = 0
  BY NoCtxIs
<1> QED BY <1>1, <1>2, <1>3 DEF CtxInv

(* No reference: no session, and nobody who gives one back. *)
LEMMA NoneLeft ==
  ASSUME IInv, NEW x \in Ctxs, ctx[x].ref_count = 0
  PROVE  SessOf(x) = {} /\ Going(x) = {}
<1>1. IsFiniteSet(SessOf(x)) /\ IsFiniteSet(Going(x))
  <2>1. SessOf(x) \subseteq Keys /\ Going(x) \subseteq Frames
    BY DEF SessOf, Going
  <2>2. IsFiniteSet(Frames)
    BY DEF IInv, Types
  <2> QED BY <2>1, <2>2, FiniteTable, FS_Subset
<1>2. Cardinality(SessOf(x)) \in Nat /\ Cardinality(Going(x)) \in Nat
  BY <1>1, FS_CardinalityType
<1>3. Cardinality(SessOf(x)) + Cardinality(Going(x)) = 0
  BY DEF IInv, CtxInv
<1>4. Cardinality(SessOf(x)) = 0 /\ Cardinality(Going(x)) = 0
  BY <1>2, <1>3
<1> QED BY <1>1, <1>4, FS_EmptySet

(* A context with references, in use by a frame that is not loading it, is  *)
(* neither being loaded nor being destroyed.                                *)
LEMMA InService ==
  ASSUME IInv, NEW x \in Ctxs, NEW p \in Frames, F(p).x = x,
         F(p).pc # "destroy", F(p).pc # "load", NEW q \in Frames, F(q).x = x
  PROVE  F(q).pc # "destroy" /\ F(q).pc # "load"
<1>1. F(q).pc = "destroy" => p = q
  BY DestroyAlone
<1>2. F(q).pc = "load" => p = q
  BY LoadAlone
<1> QED BY <1>1, <1>2

(* The registrations with one context taken off. *)
LEMMA Unlisted ==
  ASSUME Types, NEW x \in Ctxs, tee_ctxes' = Without(tee_ctxes, x)
  PROVE  /\ tee_ctxes' \in Seq(Ctxs) /\ NoRepeats(tee_ctxes')
         /\ \A y : Listed(y)' <=> Listed(y) /\ y # x
<1>1. tee_ctxes \in Seq(Ctxs) /\ NoRepeats(tee_ctxes)
  BY DEF Types
<1>2. /\ Without(tee_ctxes, x) \in Seq(Ctxs) /\ NoRepeats(Without(tee_ctxes, x))
      /\ \A d : d \in Elements(Without(tee_ctxes, x)) <=> d \in Elements(tee_ctxes) /\ d # x
  BY <1>1, WithoutEffect
<1> QED BY <1>2 DEF Listed

(* maybe_release_ta_ctx. *)
LEMMA ReleaseStep ==
  ASSUME IInv, NEW t \in Threads, Release(t)
  PROVE  IInv'
<1>1. stack[t] # << >> /\ Top(t).pc = "release"
  BY DEF Release, At
<1>2. /\ sess' = sess /\ open_sessions' = open_sessions
      /\ si_thread' = si_thread /\ si_count' = si_count /\ known' = known
  BY DEF Release, locks
<1>3. PICK p : p = <<t, Len(stack[t])>>
  OBVIOUS
<1>4. /\ F(p) = Top(t) /\ F(p) \in FrameSet /\ F(p).x # 0 /\ F(p).key[2] # 0
      /\ F(p).held /\ Shape(F(p)) /\ F(p).op \in {"open", "invoke", "close"}
      /\ F(p).x \in Ctxs /\ p \in Frames
  BY <1>1, <1>3, AtWork DEF InContext, Running, Ending
<1>5. PICK c \in {"clear", "release_state"} :
        /\ Goto(t, c)
        /\ \/ ctx' = ctx /\ tee_ctxes' = tee_ctxes
           \/ /\ ctx' = [ctx EXCEPT ![Top(t).x].is_releasing = TRUE]
              /\ tee_ctxes' = Without(tee_ctxes, Top(t).x)
  BY DEF Release
<1>6. PICK g : g = [F(p) EXCEPT !.pc = c]
  OBVIOUS
<1>7. /\ g \in FrameSet /\ g.key = F(p).key /\ g.x = F(p).x /\ g.op = F(p).op
      /\ g.held = F(p).held /\ g.pc = c
  BY <1>4, <1>6 DEF FrameSet, Pcs
<1>8. Shape(g)
  BY <1>4, <1>7 DEF Shape, InContext, Running, Ending
<1>9. Become(t, g) /\ F(p).pc = "release"
  BY <1>1, <1>4, <1>5, <1>6 DEF Goto
<1>10. CASE ctx' = ctx /\ tee_ctxes' = tee_ctxes
  BY <1>1, <1>2, <1>3, <1>7, <1>8, <1>9, <1>10, GoesOnCalm
<1>11. CASE /\ ctx' = [ctx EXCEPT ![Top(t).x].is_releasing = TRUE]
            /\ tee_ctxes' = Without(tee_ctxes, Top(t).x)
  <2>1. PICK x \in Ctxs : x = F(p).x
    BY <1>4
  <2>2. /\ StackInv' /\ stack' \in [Threads -> Seq(FrameSet)] /\ IsFiniteSet(Frames')
        /\ \A k \in Keys : SessInv(k)'
        /\ p \in Frames' /\ F(p)' = g /\ Moves(p)
        /\ \A y \in Ctxs : p \in Going(y) <=> p \in Going(y)'
    BY <1>1, <1>2, <1>3, <1>7, <1>8, <1>9, GoesOnSess
  <2>3. Types
    BY DEF IInv
  <2>4. PICK b \in BOOLEAN : b
    OBVIOUS
  <2>5. PICK r : r = [ctx[x] EXCEPT !.is_releasing = b]
    OBVIOUS
  <2>6. /\ r \in CtxSet /\ r.ta = ctx[x].ta /\ r.ref_count = ctx[x].ref_count
        /\ r.is_releasing /\ r.busy = ctx[x].busy
    BY <2>3, <2>4, <2>5 DEF Types, CtxSet
  <2>7. ctx' = [ctx EXCEPT ![x] = r]
    BY <1>4, <1>11, <2>1, <2>4, <2>5
  <2>8. /\ ctx' \in [Ctxs -> CtxSet] /\ ctx'[x] = r
        /\ \A y \in Ctxs : y # x => ctx'[y] = ctx[y]
    BY <2>3, <2>6, <2>7 DEF Types
  <2>9. /\ tee_ctxes' \in Seq(Ctxs) /\ NoRepeats(tee_ctxes')
        /\ \A y : Listed(y)' <=> Listed(y) /\ y # x
    BY <1>4, <1>11, <2>1, <2>3, Unlisted
  <2>10. Types'
    BY <1>2, <2>2, <2>3, <2>8, <2>9 DEF Types
  <2>11. \A y \in Ctxs : SessOf(y)' = SessOf(y)
    BY <1>2 DEF SessOf, Exists
  <2>12. CtxInv(x)'
    <3>1. ctx[x].ta # NoTa /\ ctx[x].ref_count \in Nat /\ ctx[x].ref_count > 0
      BY <1>4, <1>9, <2>1, InUse
    <3>2. IsFiniteSet(Frames)
      BY <2>3 DEF Types
    <3>3. Cardinality(Going(x)') = Cardinality(Going(x))
      BY <2>2, <3>2, InMoves
    <3>4. ctx[x].ref_count = Cardinality(SessOf(x)) + Cardinality(Going(x))
      BY DEF IInv, CtxInv
    <3>5. ASSUME NEW q \in Frames', F(q)'.x = x
          PROVE  F(q)'.pc # "destroy" /\ F(q)'.pc # "load"
      <4>1. CASE q = p
        BY <1>7, <2>2, <4>1
      <4>2. CASE q # p
        <5>1. q \in Frames /\ F(q)' = F(q)
          BY <2>2, <4>2, <3>5 DEF Moves
        <5> QED BY <1>4, <1>9, <2>1, <3>5, <5>1, InService
      <4> QED BY <4>1, <4>2
    <3>6. ctx'[x].ta # NoTa /\ ctx'[x].is_releasing /\ ctx'[x].ref_count = ctx[x].ref_count
      BY <2>6, <2>8, <3>1
    <3>7. ctx'[x].ref_count = Cardinality(SessOf(x)') + Cardinality(Going(x)')
      BY <2>11, <3>3, <3>4, <3>6
    <3> QED BY <2>9, <3>1, <3>5, <3>6, <3>7, CtxPlain
  <2>13. \A y \in Ctxs : CtxInv(y)'
    <3> SUFFICES ASSUME NEW y \in Ctxs, y # x PROVE CtxInv(y)'
      BY <2>12
    <3> QED BY <1>2, <1>7, <2>1, <2>2, <2>8, <2>9, <2>11, CtxOther
  <2>14. OneListed'
    BY <2>8, <2>9, ListedKeep DEF IInv
  <2>15. (\A y \in Ctxs : BusyInv(y)') /\ SingleInv'
    <3>1. \A y \in Ctxs : ctx'[y].busy = ctx[y].busy /\ ctx'[y].ta = ctx[y].ta
      BY <2>6, <2>8
    <3> QED BY <1>2, <1>4, <1>7, <2>2, <3>1, CalmBusy
  <2> QED BY <2>2, <2>10, <2>13, <2>14, <2>15 DEF IInv
<1> QED BY <1>5, <1>10, <1>11

(* A call that has no session any more gives back its reference to the      *)
(* context: what the sessions and the stacks see of it.                     *)
LEMMA DropSess ==
  ASSUME IInv, NEW p, p \in Frames, F(p).key[2] = 0, Moves(p), IsFiniteSet(Frames'),
         p \in Frames' => F(p)'.key = F(p).key,
         sess' = sess, open_sessions' = open_sessions, known' = known
  PROVE  /\ \A k \in Keys : SessInv(k)'
         /\ \A y \in Ctxs : SessOf(y)' = SessOf(y)
<1>1. \A j \in Keys : Exists(j)' <=> Exists(j)
  BY DEF Exists
<1>2. PICK k : k = F(p).key
  OBVIOUS
<1>3. k \notin Keys
  BY <1>2, ManagerAssumption DEF Keys, Ids
<1>4. \A j \in Keys : SessInv(j)'
  BY <1>1, <1>2, <1>3, SessOthers
<1>5. \A y \in Ctxs : SessOf(y)' = SessOf(y)
  BY DEF SessOf, Exists
<1> QED BY <1>4, <1>5

(* close_session counts the context down, and destroys it with the last     *)
(* reference.                                                               *)
LEMMA DropStep ==
  ASSUME IInv, NEW t \in Threads, Drop(t)
  PROVE  IInv'
<1>1. stack[t] # << >> /\ Top(t).pc = "drop"
  BY DEF Drop, At
<1>2. /\ sess' = sess /\ open_sessions' = open_sessions
      /\ si_thread' = si_thread /\ si_count' = si_count /\ known' = known
  BY DEF Drop, locks
<1>3. PICK p : p = <<t, Len(stack[t])>>
  OBVIOUS
<1>4. /\ F(p) = Top(t) /\ F(p) \in FrameSet /\ Shape(F(p)) /\ F(p).x \in Ctxs /\ ~F(p).held
      /\ p \in Frames
  BY <1>1, <1>3, AtWork DEF InContext, Running, Ending
<1>5. F(p).pc = "drop" /\ F(p).key[2] = 0 /\ F(p).op = "close"
  BY <1>1, <1>4 DEF Shape, Ending
<1>6. PICK x \in Ctxs : x = F(p).x
  BY <1>4
<1>7. Types /\ StackInv /\ IsFiniteSet(Frames)
  BY DEF IInv, Types
<1>8. ctx[x].ta # NoTa /\ ctx[x].ref_count \in Nat /\ ctx[x].ref_count > 0
  BY <1>4, <1>5, <1>6, InUse
<1>9. PICK b \in BOOLEAN : b <=> (ctx[x].is_releasing \/ Unused(x))
  OBVIOUS
<1>10. PICK r : r = [ctx[x] EXCEPT !.ref_count = ctx[x].ref_count - 1, !.is_releasing = b]
  OBVIOUS
<1>11. /\ r \in CtxSet /\ r.ta = ctx[x].ta /\ r.ref_count = ctx[x].ref_count - 1
       /\ r.is_releasing = b /\ r.busy = ctx[x].busy /\ r.panicked = ctx[x].panicked
  <2>1. PICK n \in Nat : n = ctx[x].ref_count - 1
    BY <1>8
  <2>2. r = [ctx[x] EXCEPT !.ref_count = n, !.is_releasing = b]
    BY <1>10, <2>1
  <2>3. ctx[x] \in CtxSet
    BY <1>7 DEF Types
  <2>4. /\ r \in CtxSet /\ r.ta = ctx[x].ta /\ r.ref_count = n
        /\ r.is_releasing = b /\ r.busy = ctx[x].busy /\ r.panicked = ctx[x].panicked
    BY <2>2, <2>3 DEF CtxSet
  <2> QED BY <2>1, <2>4
<1>12. ctx' = [ctx EXCEPT ![x] = r]
  <2>1. ctx \in [Ctxs -> CtxSet]
    BY <1>7 DEF Types
  <2>2. ctx' = [ctx EXCEPT ![x] = [ctx[x] EXCEPT !.ref_count = ctx[x].ref_count - 1,
                                   !.is_releasing = (ctx[x].is_releasing \/ Unused(x))]]
    BY <1>4, <1>6, <2>1 DEF Drop
  <2>3. b = (ctx[x].is_releasing \/ Unused(x))
    BY <1>9
  <2> QED BY <1>10, <2>2, <2>3
<1>13. /\ ctx' \in [Ctxs -> CtxSet] /\ ctx'[x] = r
       /\ \A y \in Ctxs : y # x => ctx'[y] = ctx[y]
  BY <1>7, <1>11, <1>12 DEF Types
<1>14. /\ Unused(x) => tee_ctxes' = Without(tee_ctxes, x) /\ Goto(t, "destroy")
       /\ ~Unused(x) => tee_ctxes' = tee_ctxes /\ Return(t)
  BY <1>4, <1>6 DEF Drop
<1>15. PICK g : g = [F(p) EXCEPT !.pc = "destroy"]
  OBVIOUS
<1>16. /\ g \in FrameSet /\ g.key = F(p).key /\ g.x = F(p).x /\ g.op = F(p).op
       /\ g.held = F(p).held /\ g.pc = "destroy"
  BY <1>4, <1>15 DEF FrameSet, Pcs
<1>17. Shape(g)
  BY <1>4, <1>5, <1>16 DEF Shape, InContext, Running, Ending
<1>18. /\ Moves(p) /\ IsFiniteSet(Frames') /\ StackInv'
       /\ stack' \in [Threads -> Seq(FrameSet)]
       /\ Unused(x) => p \in Frames' /\ F(p)' = g
       /\ ~Unused(x) => p \notin Frames'
  <2>1. CASE Unused(x)
    <3>1. Become(t, g)
      BY <1>4, <1>14, <1>15, <2>1 DEF Goto
    <3>2. p \in Frames' /\ F(p)' = g /\ Moves(p)
          /\ stack' \in [Threads -> Seq(FrameSet)] /\ IsFiniteSet(Frames')
      BY <1>1, <1>3, <1>7, <1>16, <3>1, BecomeEffect
    <3>3. StackInv'
      BY <1>1, <1>4, <1>7, <1>16, <1>17, <3>1, BecomeStack
    <3> QED BY <2>1, <3>2, <3>3
  <2>2. CASE ~Unused(x)
    <3>1. Return(t)
      BY <1>14, <2>2
    <3>2. p \notin Frames' /\ Moves(p)
          /\ stack' \in [Threads -> Seq(FrameSet)] /\ IsFiniteSet(Frames')
      BY <1>1, <1>3, <1>7, <3>1, ReturnEffect
    <3>3. StackInv'
      BY <1>1, <1>7, <3>1, ReturnStack
    <3> QED BY <2>2, <3>2, <3>3
  <2> QED BY <2>1, <2>2
<1>19. /\ \A k \in Keys : SessInv(k)'
       /\ \A y \in Ctxs : SessOf(y)' = SessOf(y)
  <2>1. p \in Frames' => F(p)'.key = F(p).key
    BY <1>16, <1>18
  <2> QED BY <1>2, <1>4, <1>5, <1>18, <2>1, DropSess
<1>20. /\ tee_ctxes' \in Seq(Ctxs) /\ NoRepeats(tee_ctxes')
       /\ \A y \in Ctxs : Listed(y)' <=> Listed(y) /\ (y = x => ~Unused(x))
  <2>1. CASE Unused(x)
    BY <1>7, <1>14, <2>1, Unlisted
  <2>2. CASE ~Unused(x)
    BY <1>7, <1>14, <2>2 DEF Types, Listed
  <2> QED BY <2>1, <2>2
<1>21. Types'
  BY <1>2, <1>7, <1>13, <1>18, <1>20 DEF Types
<1>22. CtxInv(x)
  BY DEF IInv
<1>23. /\ Cardinality(Going(x)') = Cardinality(Going(x)) - 1
       /\ Cardinality(Going(x)) \in Nat
  <2>1. p \in Going(x)
    BY <1>4, <1>5, <1>6 DEF Going
  <2>2. p \notin Going(x)'
    BY <1>16, <1>18 DEF Going
  <2> QED BY <1>7, <1>18, <2>1, <2>2, InMoves
<1>24. ctx'[x].ref_count = Cardinality(SessOf(x)') + Cardinality(Going(x)')
  <2>1. ctx[x].ref_count = Cardinality(SessOf(x)) + Cardinality(Going(x))
    BY <1>22 DEF CtxInv
  <2>2. Cardinality(SessOf(x)) \in Nat
    <3>1. SessOf(x) \subseteq Keys
      BY DEF SessOf
    <3> QED BY <3>1, FiniteTable, FS_Subset, FS_CardinalityType
  <2>3. ctx'[x].ref_count = ctx[x].ref_count - 1
    BY <1>11, <1>13
  <2>4. SessOf(x)' = SessOf(x)
    BY <1>19
  <2> QED BY <1>23, <2>1, <2>2, <2>3, <2>4
<1>25. \A q \in Frames' : F(q)'.x = x /\ q # p => F(q)'.pc # "destroy" /\ F(q)'.pc # "load"
  <2> SUFFICES ASSUME NEW q \in Frames', F(q)'.x = x, q # p
               PROVE  F(q)'.pc # "destroy" /\ F(q)'.pc # "load"
    OBVIOUS
  <2>1. q \in Frames /\ F(q)' = F(q)
    BY <1>18 DEF Moves
  <2> QED BY <1>4, <1>5, <1>6, <2>1, InService
<1>26. KeepAlive(x)' <=> KeepAlive(x)
  BY <1>11, <1>13 DEF KeepAlive, Has
<1>27. CtxInv(x)'
  <2>1. CASE ~Unused(x)
    <3>1. ctx'[x].ref_count = 0 => KeepAlive(x)'
      <4>1. ctx'[x].ref_count = 0 => ctx[x].ref_count = 1
        BY <1>8, <1>11, <1>13
      <4> QED BY <1>26, <2>1, <4>1 DEF Unused
    <3>2. ctx'[x].ta # NoTa /\ (ctx'[x].is_releasing <=> ctx[x].is_releasing)
      BY <1>8, <1>9, <1>11, <1>13, <2>1
    <3>3. Listed(x)' <=> ~ctx'[x].is_releasing
      BY <1>8, <1>20, <1>22, <2>1, <3>2 DEF CtxInv
    <3>4. \A q \in Frames' : F(q)'.x = x => F(q)'.pc # "destroy" /\ F(q)'.pc # "load"
      BY <1>18, <1>25, <2>1
    <3> QED BY <1>24, <3>1, <3>2, <3>3, <3>4, CtxPlain
  <2>2. CASE Unused(x)
    <3>1. /\ p \in Frames' /\ F(p)'.pc = "destroy" /\ F(p)'.x = x /\ ~Listed(x)'
      BY <1>6, <1>16, <1>18, <1>20, <2>2
    <3>2. p \in In(x)'
      BY <3>1 DEF In
    <3>3. \A q \in In(x)' : /\ F(q)'.pc = "destroy" => q = p
                            /\ F(q)'.pc # "load"
      BY <1>25, <3>1 DEF In
    <3>4. ctx[x].ref_count = 1
      BY <2>2 DEF Unused
    <3>5. ctx'[x].ref_count = 0 /\ ctx'[x].ta # NoTa /\ ctx'[x].is_releasing
      <4>1. b
        BY <1>9, <2>2
      <4>2. ctx'[x].is_releasing = b /\ ctx'[x].ta = ctx[x].ta
        BY <1>11, <1>13
      <4>3. ctx'[x].ref_count = 0
        BY <1>8, <1>11, <1>13, <3>4
      <4> QED BY <1>8, <4>1, <4>2, <4>3
    <3>6. KeepAlive(x)' => ctx'[x].panicked /\ ~KeepCrashed(x)'
      <4>1. KeepCrashed(x)' <=> KeepCrashed(x)
        BY <1>11, <1>13, <1>26 DEF KeepCrashed, Has
      <4>2. ctx'[x].panicked = ctx[x].panicked
        BY <1>11, <1>13
      <4> QED BY <1>26, <2>2, <4>1, <4>2 DEF Unused
    <3> QED BY <1>24, <3>1, <3>2, <3>3, <3>5, <3>6 DEF CtxInv
  <2> QED BY <2>1, <2>2
<1>28. \A y \in Ctxs : CtxInv(y)'
  <2> SUFFICES ASSUME NEW y \in Ctxs, y # x PROVE CtxInv(y)'
    BY <1>27
  <2>1. p \in Frames' => F(p)'.x # y
    BY <1>6, <1>16, <1>18
  <2> QED BY <1>2, <1>6, <1>13, <1>18, <1>19, <1>20, <2>1, CtxOther
<1>29. OneListed'
  <2>1. \A y \in Ctxs : ctx'[y].ta = ctx[y].ta
    BY <1>11, <1>13
  <2> QED BY <1>20, <2>1, ListedKeep DEF IInv
<1>30. (\A y \in Ctxs : BusyInv(y)') /\ SingleInv'
  <2>1. \A y \in Ctxs : ctx'[y].busy = ctx[y].busy /\ ctx'[y].ta = ctx[y].ta
    BY <1>11, <1>13
  <2>2. p \in Frames' => ~F(p)'.held
    BY <1>4, <1>16, <1>18
  <2> QED BY <1>2, <1>4, <1>18, <2>1, <2>2, CalmBusy
<1> QED BY <1>18, <1>19, <1>21, <1>28, <1>29, <1>30 DEF IInv

(* user_ta_ctx_destroy closes the next of the context's sessions, or frees   *)
(* the context.                                                             *)
LEMMA DestroyStep ==
  ASSUME IInv, NEW t \in Threads, Destroy(t)
  PROVE  IInv'
<1>1. stack[t] # << >> /\ Top(t).pc = "destroy"
  BY DEF Destroy, At
<1>2. /\ sess' = sess /\ open_sessions' = open_sessions /\ tee_ctxes' = tee_ctxes
      /\ si_thread' = si_thread /\ si_count' = si_count /\ known' = known
  BY DEF Destroy, locks
<1>3. PICK p : p = <<t, Len(stack[t])>>
  OBVIOUS
<1>4. /\ F(p) = Top(t) /\ F(p) \in FrameSet /\ Shape(F(p)) /\ F(p).x \in Ctxs /\ ~F(p).held
      /\ p \in Frames
  BY <1>1, <1>3, AtWork DEF InContext, Running, Ending
<1>5. F(p).pc = "destroy" /\ F(p).key[2] = 0
  BY <1>1, <1>4 DEF Shape
<1>6. PICK x \in Ctxs : x = F(p).x
  BY <1>4
<1>7. CASE open_sessions[Top(t).x] # << >> /\ CloseFirst(t, Top(t).x) /\ ctx' = ctx
  BY <1>1, <1>2, <1>7, ClosesFirst DEF Calling
<1>8. CASE /\ open_sessions[x] = << >>
           /\ ctx' = [ctx EXCEPT ![x] = NoCtx] /\ Return(t)
  <2>1. Types /\ StackInv /\ IsFiniteSet(Frames)
    BY DEF IInv, Types
  <2>2. p \notin Frames' /\ Moves(p)
        /\ stack' \in [Threads -> Seq(FrameSet)] /\ IsFiniteSet(Frames')
    BY <1>1, <1>3, <1>8, <2>1, ReturnEffect
  <2>3. StackInv'
    BY <1>1, <1>8, <2>1, ReturnStack
  <2>4. /\ ctx' \in [Ctxs -> CtxSet] /\ ctx'[x] = NoCtx
        /\ \A y \in Ctxs : y # x => ctx'[y] = ctx[y]
    BY <1>8, <2>1, NoCtxIs DEF Types
  <2>5. Types'
    BY <1>2, <2>1, <2>2, <2>4, TypesKeep DEF Types
  <2>6. /\ \A k \in Keys : SessInv(k)'
        /\ \A y \in Ctxs : SessOf(y)' = SessOf(y)
    BY <1>2, <1>4, <1>5, <2>2, DropSess
  <2>7. /\ \A q \in Frames : F(q).x = x => q = p
        /\ ctx[x].ref_count = 0 /\ ctx[x].ta # NoTa /\ ctx[x].is_releasing
    BY <1>4, <1>5, <1>6, DestroyAlone
  <2>8. ~Listed(x)
    BY <2>7 DEF IInv, CtxInv
  <2>9. CtxInv(x)'
    <3>1. SessOf(x)' = {}
      BY <2>6, <2>7, NoneLeft
    <3>2. \A q \in Frames' : F(q)'.x # x
      BY <2>2, <2>7 DEF Moves
    <3>3. ~Listed(x)'
      BY <1>2, <2>8 DEF Listed
    <3>4. open_sessions'[x] = << >>
      BY <1>2, <1>8
    <3> QED BY <2>4, <3>1, <3>2, <3>3, <3>4, CtxFreed
  <2>10. \A y \in Ctxs : CtxInv(y)'
    <3> SUFFICES ASSUME NEW y \in Ctxs, y # x PROVE CtxInv(y)'
      BY <2>9
    <3>1. Listed(y)' <=> Listed(y)
      BY <1>2 DEF Listed
    <3> QED BY <1>2, <1>6, <2>2, <2>4, <2>6, <3>1, CtxOther
  <2>11. OneListed'
    <3>1. \A y \in Ctxs : Listed(y)' => Listed(y) /\ ctx'[y].ta = ctx[y].ta
      BY <1>2, <2>4, <2>8 DEF Listed
    <3> QED BY <3>1, ListedKeep DEF IInv
  <2>12. (\A y \in Ctxs : BusyInv(y)') /\ SingleInv'
    <3>1. ~ctx[x].busy
      <4>1. \A q \in In(x) : ~F(q).held
        BY <1>4, <2>7 DEF In
      <4> QED BY <4>1 DEF IInv, BusyInv
    <3>2. ctx[x].busy \in BOOLEAN /\ NoCtx.busy \in BOOLEAN
      BY <2>1, NoCtxIs DEF Types, CtxSet
    <3>3. \A y \in Ctxs : ctx'[y].busy = ctx[y].busy
      BY <2>4, <3>1, <3>2, NoCtxIs
    <3>4. \A y \in Ctxs : ctx'[y].ta = ctx[y].ta \/ ~ctx[y].busy
      BY <2>4, <3>1
    <3> QED BY <1>2, <1>4, <2>2, <3>3, <3>4, CalmBusy
  <2> QED BY <2>3, <2>5, <2>6, <2>10, <2>11, <2>12 DEF IInv
<1> QED BY <1>4, <1>6, <1>7, <1>8 DEF Destroy

(* tee_ta_complete_user_ta_session, when the TA does not load. *)
LEMMA LoadFailsStep ==
  ASSUME IInv, NEW t \in Threads, LoadFails(t)
  PROVE  IInv'
<1>1. stack[t] # << >> /\ Top(t).pc = "load"
  BY DEF LoadFails, At
<1>2. /\ open_sessions' = open_sessions /\ known' = known
      /\ si_thread' = si_thread /\ si_count' = si_count
  BY DEF LoadFails, locks
<1>3. PICK p : p = <<t, Len(stack[t])>>
  OBVIOUS
<1>4. /\ F(p) = Top(t) /\ F(p) \in FrameSet /\ Shape(F(p)) /\ F(p).x \in Ctxs /\ ~F(p).held
      /\ p \in Frames /\ F(p).key[2] # 0 /\ F(p).key \in Keys
  BY <1>1, <1>3, AtWork DEF InContext, Running, Ending
<1>5. F(p).pc = "load" /\ F(p).op = "open" /\ F(p).ta \in Tas
  BY <1>1, <1>4 DEF Shape
<1>6. PICK x \in Ctxs : x = F(p).x
  BY <1>4
<1>7. PICK k \in Keys : k = F(p).key
  BY <1>4
<1>8. Types /\ StackInv /\ IsFiniteSet(Frames)
  BY DEF IInv, Types
<1>9. PICK g : g = [F(p) EXCEPT !.x = 0, !.pc = "init_fail"]
  OBVIOUS
<1>10. /\ ctx' = [ctx EXCEPT ![x] = NoCtx] /\ tee_ctxes' = Without(tee_ctxes, x)
       /\ sess' = [sess EXCEPT ![k].ctx = 0] /\ Become(t, g)
  BY <1>4, <1>6, <1>7, <1>9 DEF LoadFails
<1>11. /\ g \in FrameSet /\ g.key = k /\ g.x = 0 /\ g.op = "open" /\ ~g.held
       /\ g.pc = "init_fail" /\ g.ta = F(p).ta
  <2>1. 0 \in 0 .. MaxCtx /\ "init_fail" \in Pcs
    BY ManagerAssumption DEF Pcs
  <2>2. g \in FrameSet
    BY <1>4, <1>9, <2>1 DEF FrameSet
  <2> QED BY <1>4, <1>5, <1>7, <1>9, <2>2 DEF FrameSet
<1>12. Shape(g)
  BY <1>4, <1>5, <1>7, <1>11 DEF Shape, InContext, Running, Ending
<1>13. /\ p \in Frames' /\ F(p)' = g /\ Moves(p)
       /\ stack' \in [Threads -> Seq(FrameSet)] /\ IsFiniteSet(Frames')
  BY <1>1, <1>3, <1>8, <1>10, <1>11, BecomeEffect
<1>14. StackInv'
  BY <1>1, <1>4, <1>7, <1>8, <1>10, <1>11, <1>12, BecomeStack
<1>15. /\ ctx' \in [Ctxs -> CtxSet] /\ ctx'[x] = NoCtx
       /\ \A y \in Ctxs : y # x => ctx'[y] = ctx[y]
  BY <1>8, <1>10, NoCtxIs DEF Types
<1>16. /\ sess' \in [Keys -> SessSet]
       /\ sess'[k].ctx = 0 /\ sess'[k].ref_count = sess[k].ref_count
       /\ sess'[k].lock_thread = sess[k].lock_thread /\ sess'[k].unlink = sess[k].unlink
       /\ \A j \in Keys : j # k => sess'[j] = sess[j]
  <2>1. sess \in [Keys -> SessSet] /\ 0 \in 0 .. MaxCtx
    BY <1>8, ManagerAssumption DEF Types
  <2> QED BY <1>10, <2>1 DEF SessSet
<1>17. /\ tee_ctxes' \in Seq(Ctxs) /\ NoRepeats(tee_ctxes')
       /\ \A y : Listed(y)' <=> Listed(y) /\ y # x
  BY <1>8, <1>10, Unlisted
<1>18. Types'
  BY <1>2, <1>8, <1>13, <1>15, <1>16, <1>17 DEF Types
<1>19. \A j \in Keys : Exists(j)' <=> Exists(j)
  BY <1>2 DEF Exists
<1>20. Locks(F(p)) /\ Locks(g)
  BY <1>5, <1>11 DEF Locks
<1>21. SessInv(k)'
  <2>1. SessInv(k)
    BY DEF IInv
  <2> QED BY <1>2, <1>4, <1>5, <1>7, <1>8, <1>11, <1>12, <1>13, <1>16, <1>19, <1>20, <2>1, SessStay
<1>22. \A j \in Keys : SessInv(j)'
  BY <1>2, <1>7, <1>11, <1>13, <1>16, <1>19, <1>21, SessOthers
<1>23. /\ \A q \in Frames : F(q).x = x => q = p
       /\ open_sessions[x] = << >> /\ SessOf(x) = {k}
  BY <1>4, <1>5, <1>6, <1>7, LoadAlone
<1>24. \A y \in Ctxs : y # x => SessOf(y)' = SessOf(y)
  <2>1. sess[k].ctx = x
    BY <1>23 DEF SessOf
  <2>2. 0 \notin Ctxs
    BY ManagerAssumption DEF Ctxs
  <2> QED BY <1>16, <1>19, <2>1, <2>2 DEF SessOf
<1>25. CtxInv(x)'
  <2>1. SessOf(x)' = {}
    <3>1. x # 0
      BY ManagerAssumption DEF Ctxs
    <3>2. \A j \in Keys : Exists(j) /\ sess[j].ctx = x => j = k
      BY <1>23 DEF SessOf
    <3>3. \A j \in Keys : ~(Exists(j)' /\ sess'[j].ctx = x)
      BY <1>16, <1>19, <3>1, <3>2
    <3> QED BY <3>3 DEF SessOf
  <2>2. \A q \in Frames' : F(q)'.x # x
    <3>1. x # 0
      BY ManagerAssumption DEF Ctxs
    <3> QED BY <1>11, <1>13, <1>23, <3>1 DEF Moves
  <2>3. ~Listed(x)' /\ open_sessions'[x] = << >>
    BY <1>2, <1>17, <1>23
  <2> QED BY <1>15, <2>1, <2>2, <2>3, CtxFreed
<1>26. \A y \in Ctxs : CtxInv(y)'
  <2> SUFFICES ASSUME NEW y \in Ctxs, y # x PROVE CtxInv(y)'
    BY <1>25
  <2>1. g.x # y
    BY <1>11, ManagerAssumption DEF Ctxs
  <2> QED BY <1>2, <1>6, <1>13, <1>15, <1>17, <1>24, <2>1, CtxOther
<1>27. OneListed'
  <2>1. \A y \in Ctxs : Listed(y)' => Listed(y) /\ ctx'[y].ta = ctx[y].ta
    BY <1>15, <1>17
  <2> QED BY <2>1, ListedKeep DEF IInv
<1>28. (\A y \in Ctxs : BusyInv(y)') /\ SingleInv'
  <2>1. ~ctx[x].busy
    <3>1. \A q \in In(x) : ~F(q).held
      BY <1>4, <1>23 DEF In
    <3> QED BY <3>1 DEF IInv, BusyInv
  <2>2. ctx[x].busy \in BOOLEAN /\ NoCtx.busy \in BOOLEAN
    BY <1>8, NoCtxIs DEF Types, CtxSet
  <2>3. \A y \in Ctxs : ctx'[y].busy = ctx[y].busy
    BY <1>15, <2>1, <2>2, NoCtxIs
  <2>4. \A y \in Ctxs : ctx'[y].ta = ctx[y].ta \/ ~ctx[y].busy
    BY <1>15, <2>1
  <2> QED BY <1>2, <1>4, <1>11, <1>13, <2>3, <2>4, CalmBusy
<1> QED BY <1>14, <1>18, <1>22, <1>26, <1>27, <1>28 DEF IInv

----------------------------------------------------------------------------
(* The life of a session. *)

(* The context whose list a session is on stays while it is worked on, and  *)
(* is loaded.                                                               *)
LEMMA ListOwner ==
  ASSUME IInv, NEW y \in Ctxs, NEW p \in Frames, F(p).key[1] = y
  PROVE  /\ ctx[y].ta # NoTa
         /\ \A q \in Frames : F(q).x = y => F(q).pc # "load"
<1>1. y # 0
  BY ManagerAssumption DEF Ctxs
<1>2. PICK r \in Frames : F(r).pc \in Calling /\ F(r).x = y
  BY <1>1, CallerOf
<1>3. ctx[y].ta # NoTa
  BY <1>2, InUse
<1>4. ASSUME NEW q \in Frames, F(q).x = y, F(q).pc = "load" PROVE FALSE
  <2>1. r = q
    BY <1>2, <1>4, LoadAlone
  <2> QED BY <1>2, <1>4, <2>1 DEF Calling
<1> QED BY <1>3, <1>4

(* A context a step is not about, but for its list of sessions. *)
LEMMA CtxOfList ==
  ASSUME IInv, NEW p, Moves(p), IsFiniteSet(Frames'), p \in Frames, NEW y \in Ctxs,
         ctx'[y] = ctx[y], Listed(y)' <=> Listed(y), SessOf(y)' = SessOf(y),
         F(p).key[1] # y => open_sessions'[y] = open_sessions[y],
         F(p).x # y, p \in Frames' => F(p)'.x # y
  PROVE  CtxInv(y)'
<1>1. CtxInv(y) /\ IsFiniteSet(Frames)
  BY DEF IInv, Types
<1>2. p \notin Going(y) /\ p \notin Going(y)'
  BY DEF Going
<1>3. CASE F(p).key[1] # y
  BY <1>3, CtxOther
<1>4. CASE F(p).key[1] = y
  <2>1. /\ ctx[y].ta # NoTa
        /\ \A q \in Frames : F(q).x = y => F(q).pc # "load"
    BY <1>4, ListOwner
  <2> QED BY <1>1, <1>2, <2>1, CtxKeep
<1> QED BY <1>3, <1>4

(* A session is taken off its list. *)
LEMMA ListShrinks ==
  ASSUME Types, NEW k \in Keys,
         open_sessions' = [open_sessions EXCEPT ![k[1]] = Without(@, k[2])]
  PROVE  /\ open_sessions' \in [Lists -> Seq(Ids)]
         /\ \A l \in Lists : NoRepeats(open_sessions'[l])
         /\ ~Exists(k)'
         /\ \A j \in Keys : j # k => (Exists(j)' <=> Exists(j))
         /\ \A l \in Lists : l # k[1] => open_sessions'[l] = open_sessions[l]
<1>1. PICK l \in Lists : l = k[1]
  BY DEF Keys
<1>2. PICK i \in Ids : i = k[2]
  BY DEF Keys
<1>3. PICK q : q = Without(open_sessions[l], i)
  OBVIOUS
<1>4. open_sessions[l] \in Seq(Ids) /\ NoRepeats(open_sessions[l])
  BY DEF Types
<1>5. /\ q \in Seq(Ids) /\ NoRepeats(q)
      /\ \A d : d \in Elements(q) <=> d \in Elements(open_sessions[l]) /\ d # i
  BY <1>3, <1>4, WithoutEffect
<1>6. open_sessions' = [open_sessions EXCEPT ![l] = q]
  BY <1>1, <1>2, <1>3
<1>7. /\ open_sessions' \in [Lists -> Seq(Ids)] /\ open_sessions'[l] = q
      /\ \A m \in Lists : m # l => open_sessions'[m] = open_sessions[m]
  BY <1>5, <1>6 DEF Types
<1>8. \A m \in Lists : NoRepeats(open_sessions'[m])
  BY <1>5, <1>7 DEF Types
<1>9. ~Exists(k)'
  BY <1>1, <1>2, <1>5, <1>7 DEF Exists
<1>10. ASSUME NEW j \in Keys, j # k PROVE Exists(j)' <=> Exists(j)
  <2>1. j[1] \in Lists /\ j = <<j[1], j[2]>> /\ k = <<k[1], k[2]>>
    BY DEF Keys
  <2>2. CASE j[1] # l
    BY <1>7, <2>1, <2>2 DEF Exists
  <2>3. CASE j[1] = l
    <3>1. j[2] # i
      BY <1>1, <1>2, <1>10, <2>1, <2>3
    <3> QED BY <1>5, <1>7, <2>3, <3>1 DEF Exists
  <2> QED BY <2>2, <2>3
<1> QED BY <1>1, <1>7, <1>8, <1>9, <1>10

(* The session that is not there. *)
LEMMA NoSessIs ==
  NoSess \in SessSet /\ NoSess.ctx = 0
<1>1. PICK b \in BOOLEAN : b = FALSE
  OBVIOUS
<1>2. NoSess = [ctx |-> 0, ref_count |-> 0, lock_thread |-> NoThread, unlink |-> b]
  BY <1>1 DEF NoSess
<1>3. 0 \in 0 .. MaxCtx
  BY ManagerAssumption
<1> QED BY <1>2, <1>3 DEF SessSet

(* The count of a set that loses one of its elements. *)
LEMMA OneLess ==
  ASSUME NEW S, IsFiniteSet(S), NEW e \in S
  PROVE  Cardinality(S \ {e}) = Cardinality(S) - 1 /\ Cardinality(S) \in Nat
BY FS_RemoveElement, FS_CardinalityType

(* A call that is to unlink its session: what it has. *)
LEMMA AtUnlink ==
  ASSUME IInv, NEW t \in Threads, stack[t] # << >>, NEW p, p = <<t, Len(stack[t])>>,
         Top(t).pc \in {"unlink", "unlinking"}
  PROVE  /\ F(p) = Top(t) /\ F(p) \in FrameSet /\ Shape(F(p)) /\ p \in Frames /\ p[1] = t
         /\ F(p).x # 0 /\ F(p).x \in Ctxs /\ F(p).op = "close" /\ F(p).key[2] # 0
         /\ F(p).key \in Keys /\ Locks(F(p)) /\ p \in On(F(p).key)
         /\ sess[F(p).key].ctx = F(p).x
         /\ ~(F(p).key[1] = 0 /\ F(p).key[2] \in known)
<1>1. /\ F(p) = Top(t) /\ F(p) \in FrameSet /\ Shape(F(p)) /\ p \in Frames /\ p[1] = t
      /\ F(p).x # 0 /\ F(p).x \in Ctxs /\ F(p).key[2] # 0 /\ F(p).key \in Keys
  BY AtWork DEF InContext, Running, Ending
<1>2. F(p).op = "close"
  BY <1>1 DEF Shape, Ending
<1>3. Locks(F(p)) /\ p \in On(F(p).key)
  BY <1>1, <1>2 DEF Locks, On
<1>4. SessInv(F(p).key)
  BY <1>1 DEF IInv
<1>5. sess[F(p).key].ctx = F(p).x
  BY <1>3, <1>4 DEF SessInv
<1>6. ~(F(p).key[1] = 0 /\ F(p).key[2] \in known)
  BY <1>2, <1>3, <1>4 DEF SessInv
<1> QED BY <1>1, <1>2, <1>3, <1>5, <1>6

(* tee_ta_unlink_session and free, with the last reference. *)
LEMMA Frees ==
  ASSUME IInv, NEW t \in Threads, stack[t] # << >>, Top(t).pc \in {"unlink", "unlinking"},
         sess[Top(t).key].ref_count = 1, FreeSession(t), ctx' = ctx, tee_ctxes' = tee_ctxes,
         si_thread' = si_thread, si_count' = si_count, known' = known
  PROVE  IInv'
<1>1. PICK p : p = <<t, Len(stack[t])>>
  OBVIOUS
<1>2. /\ F(p) = Top(t) /\ F(p) \in FrameSet /\ Shape(F(p)) /\ p \in Frames
      /\ F(p).x # 0 /\ F(p).x \in Ctxs /\ F(p).op = "close" /\ F(p).key[2] # 0
      /\ F(p).key \in Keys /\ Locks(F(p)) /\ p \in On(F(p).key)
      /\ sess[F(p).key].ctx = F(p).x
      /\ ~(F(p).key[1] = 0 /\ F(p).key[2] \in known)
  BY <1>1, AtUnlink
<1>3. PICK k \in Keys : k = F(p).key
  BY <1>2
<1>4. PICK x \in Ctxs : x = F(p).x
  BY <1>2
<1>5. Types /\ StackInv /\ IsFiniteSet(Frames)
  BY DEF IInv, Types
<1>6. PICK c \in {"clear", "drop"} : c = IF F(p).held THEN "clear" ELSE "drop"
  OBVIOUS
<1>7. PICK g : g = [F(p) EXCEPT !.key = <<k[1], 0>>, !.pc = c]
  OBVIOUS
<1>8. /\ open_sessions' = [open_sessions EXCEPT ![k[1]] = Without(@, k[2])]
      /\ sess' = [sess EXCEPT ![k] = NoSess] /\ Become(t, g)
  BY <1>2, <1>3, <1>6, <1>7 DEF FreeSession
<1>9. /\ g \in FrameSet /\ g.key = <<k[1], 0>> /\ g.x = x /\ g.op = "close"
      /\ g.held = F(p).held /\ g.pc = c
  <2>1. <<k[1], 0>> \in Lists \X (Ids \cup {0}) /\ c \in Pcs
    BY DEF Keys, Pcs
  <2>2. g \in FrameSet
    BY <1>2, <1>7, <2>1 DEF FrameSet
  <2> QED BY <1>2, <1>4, <1>7, <2>2 DEF FrameSet
<1>10. Shape(g)
  <2>1. x # 0
    BY <1>2, <1>4
  <2>2. g.held <=> c = "clear"
    BY <1>6, <1>9
  <2> QED BY <1>9, <2>1, <2>2 DEF Shape, InContext, Running, Ending
<1>11. /\ p \in Frames' /\ F(p)' = g /\ Moves(p)
       /\ stack' \in [Threads -> Seq(FrameSet)] /\ IsFiniteSet(Frames')
  BY <1>1, <1>5, <1>8, <1>9, BecomeEffect
<1>12. StackInv'
  BY <1>2, <1>3, <1>5, <1>8, <1>9, <1>10, BecomeStack
<1>13. /\ open_sessions' \in [Lists -> Seq(Ids)]
       /\ \A l \in Lists : NoRepeats(open_sessions'[l])
       /\ ~Exists(k)'
       /\ \A j \in Keys : j # k => (Exists(j)' <=> Exists(j))
       /\ \A l \in Lists : l # k[1] => open_sessions'[l] = open_sessions[l]
  BY <1>5, <1>8, ListShrinks
<1>14. /\ sess' \in [Keys -> SessSet] /\ sess'[k] = NoSess
       /\ \A j \in Keys : j # k => sess'[j] = sess[j]
  BY <1>5, <1>8, NoSessIs DEF Types
<1>15. Types'
  BY <1>5, <1>11, <1>13, <1>14 DEF Types
<1>16. SessInv(k)'
  <2>1. ASSUME NEW q \in On(k), q # p PROVE FALSE
    <3>1. SessInv(k)
      BY DEF IInv
    <3>2. F(q).pc # "get"
      BY <1>2, <1>3, <2>1, <3>1 DEF SessInv
    <3>3. q \in Users(k)
      BY <2>1, <3>2 DEF On, Users
    <3>4. \A r \in Users(k) : r = p
      BY <1>2, <1>3, Counted
    <3> QED BY <2>1, <3>3, <3>4
  <2>2. \A q \in On(k) : q = p
    BY <2>1
  <2>3. g.key # k
    BY <1>2, <1>3, <1>9
  <2>4. ~(k[1] = 0 /\ k[2] \in known')
    BY <1>2, <1>3
  <2> QED BY <1>5, <1>11, <1>13, <1>14, <2>2, <2>3, <2>4, SessFreed
<1>17. \A j \in Keys : SessInv(j)'
  BY <1>3, <1>9, <1>11, <1>13, <1>14, <1>16, SessOthers
<1>18. \A y \in Ctxs : Listed(y)' <=> Listed(y)
  BY DEF Listed
<1>19. Exists(k)
  BY <1>2, <1>3 DEF IInv, SessInv
<1>20. CtxInv(x)'
  <2>1. ctx[x].ta # NoTa /\ ctx[x].ref_count \in Nat /\ ctx[x].ref_count > 0
    BY <1>2, <1>4, InUse
  <2>2. SessOf(x)' = SessOf(x) \ {k} /\ k \in SessOf(x)
    <3>1. x # 0 /\ sess[k].ctx = x
      BY <1>2, <1>3, <1>4
    <3> QED BY <1>13, <1>14, <1>19, <3>1, NoSessIs DEF SessOf
  <2>3. Cardinality(SessOf(x)') = Cardinality(SessOf(x)) - 1 /\ Cardinality(SessOf(x)) \in Nat
    <3>1. IsFiniteSet(SessOf(x))
      <4>1. SessOf(x) \subseteq Keys
        BY DEF SessOf
      <4> QED BY <4>1, FiniteTable, FS_Subset
    <3> QED BY <2>2, <3>1, OneLess
  <2>4. /\ Cardinality(Going(x)') = Cardinality(Going(x)) + 1 /\ Cardinality(Going(x)) \in Nat
    <3>1. p \notin Going(x)
      BY <1>2 DEF Going
    <3>2. p \in Going(x)'
      BY <1>9, <1>11 DEF Going
    <3> QED BY <1>5, <1>11, <3>1, <3>2, InMoves
  <2>5. ctx[x].ref_count = Cardinality(SessOf(x)) + Cardinality(Going(x))
    BY DEF IInv, CtxInv
  <2>6. ctx'[x].ref_count = Cardinality(SessOf(x)') + Cardinality(Going(x)')
    BY <2>3, <2>4, <2>5
  <2>7. ASSUME NEW q \in Frames', F(q)'.x = x
        PROVE  F(q)'.pc # "destroy" /\ F(q)'.pc # "load"
    <3>1. CASE q = p
      BY <1>9, <1>11, <3>1
    <3>2. CASE q # p
      <4>1. q \in Frames /\ F(q)' = F(q)
        BY <1>11, <2>7, <3>2 DEF Moves
      <4>2. F(p).pc # "destroy" /\ F(p).pc # "load"
        BY <1>2
      <4> QED BY <1>2, <1>4, <2>7, <4>1, <4>2, InService
    <3> QED BY <3>1, <3>2
  <2>8. Listed(x)' <=> ~ctx'[x].is_releasing
    BY <1>18, <2>1 DEF IInv, CtxInv
  <2> QED BY <2>1, <2>6, <2>7, <2>8, CtxPlain
<1>21. \A y \in Ctxs : CtxInv(y)'
  <2> SUFFICES ASSUME NEW y \in Ctxs, y # x PROVE CtxInv(y)'
    BY <1>20
  <2>1. SessOf(y)' = SessOf(y)
    <3>1. sess[k].ctx = x /\ y # 0
      BY <1>2, <1>3, <1>4, ManagerAssumption DEF Ctxs
    <3> QED BY <1>13, <1>14, <3>1, NoSessIs DEF SessOf
  <2>2. F(p).key[1] # y => open_sessions'[y] = open_sessions[y]
    <3>1. y \in Lists
      BY ManagerAssumption DEF Ctxs, Lists
    <3> QED BY <1>3, <1>13, <3>1
  <2> QED BY <1>2, <1>4, <1>9, <1>11, <1>18, <2>1, <2>2, CtxOfList
<1>22. OneListed'
  BY <1>18, ListedKeep DEF IInv
<1>23. (\A y \in Ctxs : BusyInv(y)') /\ SingleInv'
  BY <1>2, <1>4, <1>9, <1>11, CalmBusy
<1> QED BY <1>12, <1>15, <1>17, <1>21, <1>22, <1>23 DEF IInv

(* tee_ta_unlink_session. *)
LEMMA UnlinkSessionStep ==
  ASSUME IInv, NEW t \in Threads, UnlinkSession(t)
  PROVE  IInv'
<1>1. stack[t] # << >> /\ Top(t).pc = "unlink"
  BY DEF UnlinkSession, At
<1>2. /\ ctx' = ctx /\ tee_ctxes' = tee_ctxes
      /\ si_thread' = si_thread /\ si_count' = si_count /\ known' = known
  BY DEF UnlinkSession, locks
<1>3. CASE sess[Top(t).key].ref_count = 1 /\ FreeSession(t)
  BY <1>1, <1>2, <1>3, Frees
<1>4. CASE /\ sess' = [sess EXCEPT ![Top(t).key].unlink = TRUE]
           /\ Goto(t, "unlinking") /\ open_sessions' = open_sessions
  <2>1. PICK p : p = <<t, Len(stack[t])>>
    OBVIOUS
  <2>2. /\ F(p) = Top(t) /\ F(p) \in FrameSet /\ Shape(F(p)) /\ p \in Frames
        /\ F(p).x # 0 /\ F(p).x \in Ctxs /\ F(p).op = "close" /\ F(p).key[2] # 0
        /\ F(p).key \in Keys /\ Locks(F(p)) /\ p \in On(F(p).key)
        /\ sess[F(p).key].ctx = F(p).x
    BY <1>1, <2>1, AtUnlink
  <2>3. PICK k \in Keys : k = F(p).key
    BY <2>2
  <2>4. Types /\ StackInv /\ IsFiniteSet(Frames)
    BY DEF IInv, Types
  <2>5. PICK g : g = [F(p) EXCEPT !.pc = "unlinking"]
    OBVIOUS
  <2>6. /\ g \in FrameSet /\ g.key = F(p).key /\ g.x = F(p).x /\ g.op = F(p).op
        /\ g.held = F(p).held /\ g.pc = "unlinking"
    BY <2>2, <2>5 DEF FrameSet, Pcs
  <2>7. Shape(g)
    BY <2>2, <2>6 DEF Shape, InContext, Running, Ending
  <2>8. Become(t, g)
    BY <1>4, <2>2, <2>5 DEF Goto
  <2>9. /\ p \in Frames' /\ F(p)' = g /\ Moves(p)
        /\ stack' \in [Threads -> Seq(FrameSet)] /\ IsFiniteSet(Frames')
    BY <1>1, <2>1, <2>4, <2>6, <2>8, BecomeEffect
  <2>10. StackInv'
    BY <1>1, <2>2, <2>4, <2>6, <2>7, <2>8, BecomeStack
  <2>11. PICK b \in BOOLEAN : b
    OBVIOUS
  <2>12. PICK r : r = [sess[k] EXCEPT !.unlink = b]
    OBVIOUS
  <2>13. /\ r \in SessSet /\ r.ctx = sess[k].ctx /\ r.ref_count = sess[k].ref_count
         /\ r.lock_thread = sess[k].lock_thread
    BY <2>4, <2>12 DEF Types, SessSet
  <2>14. sess' = [sess EXCEPT ![k] = r]
    BY <1>4, <2>2, <2>3, <2>11, <2>12
  <2>15. /\ sess' \in [Keys -> SessSet] /\ sess'[k] = r
         /\ \A j \in Keys : j # k => sess'[j] = sess[j]
    BY <2>4, <2>13, <2>14 DEF Types
  <2>16. Types'
    BY <1>2, <1>4, <2>4, <2>9, <2>15, TypesKeep DEF Types
  <2>17. \A j \in Keys : Exists(j)' <=> Exists(j)
    BY <1>4 DEF Exists
  <2>18. SessInv(k)'
    <3>1. SessInv(k)
      BY DEF IInv
    <3>2. Locks(g)
      BY <2>2, <2>6 DEF Locks
    <3>3. /\ sess'[k].lock_thread = sess[k].lock_thread /\ sess'[k].ref_count = sess[k].ref_count
          /\ sess'[k].ctx = g.x
      BY <2>2, <2>3, <2>6, <2>13, <2>15
    <3> QED BY <1>2, <2>2, <2>3, <2>4, <2>6, <2>7, <2>9, <2>17, <3>1, <3>2, <3>3, SessStay
  <2>19. \A j \in Keys : SessInv(j)'
    BY <1>2, <2>3, <2>6, <2>9, <2>15, <2>17, <2>18, SessOthers
  <2>20. (\A y \in Ctxs : CtxInv(y)') /\ OneListed'
    <3>1. \A y \in Ctxs : p \in Going(y) <=> p \in Going(y)'
      BY <2>2, <2>6, <2>9 DEF Going
    <3>2. \A j \in Keys : sess'[j].ctx = sess[j].ctx
      BY <2>13, <2>15
    <3>3. F(p).pc # "destroy"
      BY <1>1, <2>2
    <3> QED BY <1>2, <1>4, <2>6, <2>9, <3>1, <3>2, <3>3, CalmCtx
  <2>21. (\A y \in Ctxs : BusyInv(y)') /\ SingleInv'
    BY <1>2, <2>2, <2>6, <2>9, CalmBusy
  <2> QED BY <2>10, <2>16, <2>19, <2>20, <2>21 DEF IInv
<1> QED BY <1>3, <1>4 DEF UnlinkSession

(* Woken in tee_ta_unlink_session. *)
LEMMA UnlinkWokenStep ==
  ASSUME IInv, NEW t \in Threads, UnlinkWoken(t)
  PROVE  IInv'
<1>1. stack[t] # << >> /\ Top(t).pc = "unlinking"
  BY DEF UnlinkWoken, At
<1>2. /\ ctx' = ctx /\ tee_ctxes' = tee_ctxes
      /\ si_thread' = si_thread /\ si_count' = si_count /\ known' = known
  BY DEF UnlinkWoken, locks
<1>3. CASE sess[Top(t).key].ref_count = 1 /\ FreeSession(t)
  BY <1>1, <1>2, <1>3, Frees
<1>4. CASE open_sessions' = open_sessions /\ sess' = sess /\ stack' = stack
  BY <1>2, <1>4, OnlyWaits
<1> QED BY <1>3, <1>4 DEF UnlinkWoken

(* tee_ta_init_session gives the new session up. *)
LEMMA InitFailsStep ==
  ASSUME IInv, NEW t \in Threads, InitFails(t)
  PROVE  IInv'
<1>1. stack[t] # << >> /\ Top(t).pc = "init_fail"
  BY DEF InitFails, At
<1>2. /\ ctx' = ctx /\ tee_ctxes' = tee_ctxes /\ Return(t)
      /\ si_thread' = si_thread /\ si_count' = si_count /\ known' = known
  BY DEF InitFails, locks
<1>3. PICK p : p = <<t, Len(stack[t])>>
  OBVIOUS
<1>4. /\ p \in Frames /\ F(p) = Top(t) /\ F(p) \in FrameSet /\ Shape(F(p))
      /\ F(p).key[2] # 0 => F(p).key \in Keys
      /\ Types /\ StackInv /\ IsFiniteSet(Frames)
  BY <1>1, <1>3, TopFacts
<1>5. /\ F(p).pc = "init_fail" /\ F(p).op = "open" /\ F(p).key[2] # 0 /\ F(p).x = 0 /\ ~F(p).held
  BY <1>1, <1>4 DEF Shape, InContext, Running, Ending
<1>6. PICK k \in Keys : k = F(p).key
  BY <1>4, <1>5
<1>7. /\ open_sessions' = [open_sessions EXCEPT ![k[1]] = Without(@, k[2])]
      /\ sess' = [sess EXCEPT ![k] = NoSess]
  BY <1>4, <1>6 DEF InitFails
<1>8. /\ p \notin Frames' /\ Moves(p)
      /\ stack' \in [Threads -> Seq(FrameSet)] /\ IsFiniteSet(Frames')
  BY <1>1, <1>2, <1>3, <1>4, ReturnEffect
<1>9. StackInv'
  BY <1>1, <1>2, <1>4, ReturnStack
<1>10. /\ open_sessions' \in [Lists -> Seq(Ids)]
       /\ \A l \in Lists : NoRepeats(open_sessions'[l])
       /\ ~Exists(k)'
       /\ \A j \in Keys : j # k => (Exists(j)' <=> Exists(j))
       /\ \A l \in Lists : l # k[1] => open_sessions'[l] = open_sessions[l]
  BY <1>4, <1>7, ListShrinks
<1>11. /\ sess' \in [Keys -> SessSet] /\ sess'[k] = NoSess
       /\ \A j \in Keys : j # k => sess'[j] = sess[j]
  BY <1>4, <1>7, NoSessIs DEF Types
<1>12. Types'
  BY <1>2, <1>4, <1>8, <1>10, <1>11 DEF Types
<1>13. SessInv(k) /\ p \in On(k) /\ Locks(F(p))
  BY <1>4, <1>5, <1>6 DEF IInv, On, Locks
<1>14. SessInv(k)'
  <2>1. \A q \in On(k) : q = p
    <3> SUFFICES ASSUME NEW q \in On(k), q # p PROVE FALSE
      OBVIOUS
    <3>1. F(p).op = "close"
      BY <1>5, <1>13 DEF SessInv
    <3> QED BY <1>5, <3>1
  <2>2. ~(k[1] = 0 /\ k[2] \in known')
    BY <1>2, <1>5, <1>13 DEF SessInv
  <2> QED BY <1>4, <1>8, <1>10, <1>11, <2>1, <2>2, SessFreed
<1>15. \A j \in Keys : SessInv(j)'
  BY <1>2, <1>6, <1>8, <1>10, <1>11, <1>14, SessOthers
<1>16. \A y \in Ctxs : Listed(y)' <=> Listed(y)
  BY <1>2 DEF Listed
<1>17. ASSUME NEW y \in Ctxs PROVE CtxInv(y)'
  <2>1. y # 0 /\ y \in Lists
    BY ManagerAssumption DEF Ctxs, Lists
  <2>2. sess[k].ctx = 0
    BY <1>5, <1>13 DEF SessInv
  <2>3. SessOf(y)' = SessOf(y)
    BY <1>10, <1>11, <2>1, <2>2, NoSessIs DEF SessOf
  <2>4. F(p).key[1] # y => open_sessions'[y] = open_sessions[y]
    BY <1>6, <1>10, <2>1
  <2>5. F(p).x # y
    BY <1>5, <2>1
  <2> QED BY <1>2, <1>4, <1>8, <1>16, <2>3, <2>4, <2>5, CtxOfList
<1>18. OneListed'
  BY <1>2, <1>16, ListedKeep DEF IInv
<1>19. (\A y \in Ctxs : BusyInv(y)') /\ SingleInv'
  BY <1>2, <1>5, <1>8, CalmBusy
<1> QED BY <1>9, <1>12, <1>15, <1>17, <1>18, <1>19 DEF IInv

----------------------------------------------------------------------------
(* Opening a session. *)

(* new_session_id gives an id that is free. *)
LEMMA NewIdFree ==
  ASSUME Types, NEW l \in Lists, NewSessionId(l) # 0
  PROVE  NewSessionId(l) \in Ids /\ ~Exists(<<l, NewSessionId(l)>>)
<1> DEFINE last == IF open_sessions[l] = << >> THEN 0
                   ELSE open_sessions[l][Len(open_sessions[l])]
           After(i) == ((last + i) % MaxId) + 1
           free == {i \in 0 .. MaxId - 1 : ~Exists(<<l, After(i)>>)}
<1>1. NewSessionId(l) = IF free = {} THEN 0
                        ELSE After(CHOOSE i \in free : \A j \in free : i <= j)
  BY DEF NewSessionId
<1>2. last \in Nat
  <2>1. PICK q \in Seq(Ids) : q = open_sessions[l]
    BY DEF Types
  <2>2. q # << >> => q[Len(q)] \in Ids
    OBVIOUS
  <2> QED BY <2>1, <2>2 DEF Ids
<1>3. \A i \in Nat : After(i) \in Ids
  <2>1. \A m \in Nat : (m % MaxId) + 1 \in Ids
    BY ManagerAssumption DEF Ids
  <2> QED BY <1>2, <2>1
<1>4. free # {} /\ free \in SUBSET Nat
  <2>1. free # {}
    <3>1. CASE free = {}
      BY <1>1, <3>1
    <3> QED BY <3>1
  <2>2. 0 .. MaxId - 1 \subseteq Nat
    BY ManagerAssumption
  <2> QED BY <2>1, <2>2
<1>5. \E i \in free : \A j \in free : i <= j
  BY <1>4, LeastExists
<1>6. PICK i \in free : NewSessionId(l) = After(i)
  BY <1>1, <1>4, <1>5
<1>7. i \in Nat /\ ~Exists(<<l, After(i)>>)
  BY <1>4
<1> QED BY <1>3, <1>6, <1>7

(* A session is put on a list. *)
LEMMA ListGrows ==
  ASSUME Types, NEW k \in Keys, ~Exists(k),
         open_sessions' = [open_sessions EXCEPT ![k[1]] = Append(@, k[2])]
  PROVE  /\ open_sessions' \in [Lists -> Seq(Ids)]
         /\ \A l \in Lists : NoRepeats(open_sessions'[l])
         /\ Exists(k)'
         /\ \A j \in Keys : j # k => (Exists(j)' <=> Exists(j))
         /\ \A l \in Lists : l # k[1] => open_sessions'[l] = open_sessions[l]
<1>1. PICK l \in Lists : l = k[1]
  BY DEF Keys
<1>2. PICK i \in Ids : i = k[2]
  BY DEF Keys
<1>3. PICK q : q = Append(open_sessions[l], i)
  OBVIOUS
<1>4. open_sessions[l] \in Seq(Ids) /\ NoRepeats(open_sessions[l])
  BY DEF Types
<1>5. i \notin Elements(open_sessions[l])
  BY <1>1, <1>2 DEF Exists
<1>6. /\ q \in Seq(Ids) /\ NoRepeats(q)
      /\ \A d : d \in Elements(q) <=> d \in Elements(open_sessions[l]) \/ d = i
  BY <1>3, <1>4, <1>5, AppendEffect
<1>7. open_sessions' = [open_sessions EXCEPT ![l] = q]
  BY <1>1, <1>2, <1>3
<1>8. /\ open_sessions' \in [Lists -> Seq(Ids)] /\ open_sessions'[l] = q
      /\ \A m \in Lists : m # l => open_sessions'[m] = open_sessions[m]
  BY <1>6, <1>7 DEF Types
<1>9. \A m \in Lists : NoRepeats(open_sessions'[m])
  BY <1>6, <1>8 DEF Types
<1>10. Exists(k)'
  BY <1>1, <1>2, <1>6, <1>8 DEF Exists
<1>11. ASSUME NEW j \in Keys, j # k PROVE Exists(j)' <=> Exists(j)
  <2>1. j[1] \in Lists /\ j = <<j[1], j[2]>> /\ k = <<k[1], k[2]>>
    BY DEF Keys
  <2>2. CASE j[1] # l
    BY <1>8, <2>1, <2>2 DEF Exists
  <2>3. CASE j[1] = l
    <3>1. j[2] # i
      BY <1>1, <1>2, <1>11, <2>1, <2>3
    <3> QED BY <1>6, <1>8, <2>3, <3>1 DEF Exists
  <2> QED BY <2>2, <2>3
<1> QED BY <1>1, <1>8, <1>9, <1>10, <1>11

(* tee_ta_context_find finds a registered context of the TA, if there is    *)
(* one.                                                                     *)
LEMMA ContextOfIs ==
  ASSUME Types, NEW ta
  PROVE  \/ ContextOf(ta) = 0 /\ \A y \in Ctxs : Listed(y) => ctx[y].ta # ta
         \/ /\ ContextOf(ta) \in Ctxs /\ Listed(ContextOf(ta))
            /\ ctx[ContextOf(ta)].ta = ta
<1>1. CASE Registered(ta) = {}
  <2>1. ContextOf(ta) = 0
    BY <1>1 DEF ContextOf
  <2>2. \A y \in Ctxs : Listed(y) => ctx[y].ta # ta
    BY <1>1 DEF Registered, Listed, Elements
  <2> QED BY <2>1, <2>2
<1>2. CASE Registered(ta) # {}
  <2>1. Registered(ta) \in SUBSET Nat
    BY DEF Registered, Types
  <2>2. \E i \in Registered(ta) : \A j \in Registered(ta) : i <= j
    BY <1>2, <2>1, LeastExists
  <2>3. PICK i \in Registered(ta) : ContextOf(ta) = tee_ctxes[i]
    BY <1>2, <2>2 DEF ContextOf
  <2>4. i \in 1 .. Len(tee_ctxes) /\ ctx[tee_ctxes[i]].ta = ta
    BY DEF Registered
  <2>5. tee_ctxes[i] \in Ctxs
    BY <2>4 DEF Types
  <2> QED BY <2>3, <2>4, <2>5 DEF Listed, Elements
<1> QED BY <1>1, <1>2

(* A context that was just made. *)
Made(r, ta) ==
  /\ r \in CtxSet /\ r.ta = ta /\ r.ref_count = 1 /\ ~r.busy
  /\ r.is_initializing /\ ~r.is_releasing

(* tee_ta_init_user_ta_session takes a free context, or there is none. *)
LEMMA NewContextIs ==
  ASSUME Types, NEW t, NEW f, f.ta \in Tas, NewContext(t, f)
  PROVE  \/ /\ Become(t, [f EXCEPT !.pc = "init_fail"])
            /\ ctx' = ctx /\ tee_ctxes' = tee_ctxes
         \/ \E x \in Ctxs, r \in CtxSet :
               /\ ctx[x].ta = NoTa /\ Made(r, f.ta) /\ ctx' = [ctx EXCEPT ![x] = r]
               /\ tee_ctxes' = Append(tee_ctxes, x)
               /\ Become(t, [f EXCEPT !.x = x, !.pc = "load"])
<1> DEFINE free == {x \in Ctxs : ctx[x].ta = NoTa}
<1>1. CASE free = {}
  BY <1>1 DEF NewContext
<1>2. CASE free # {}
  <2>1. free \in SUBSET Nat
    BY DEF Ctxs
  <2>2. \E x \in free : \A y \in free : x <= y
    BY <1>2, <2>1, LeastExists
  <2>3. PICK x : x = CHOOSE y \in free : \A z \in free : y <= z
    OBVIOUS
  <2>4. x \in free
    BY <2>2, <2>3
  <2>5. PICK r : r = [NoCtx EXCEPT !.ta = f.ta, !.ref_count = 1, !.is_initializing = TRUE]
    OBVIOUS
  <2>6. /\ ctx' = [ctx EXCEPT ![x] = r] /\ tee_ctxes' = Append(tee_ctxes, x)
        /\ Become(t, [f EXCEPT !.x = x, !.pc = "load"])
    BY <1>2, <2>3, <2>5 DEF NewContext
  <2>7. Made(r, f.ta)
    <3>1. PICK b \in BOOLEAN : b = TRUE
      OBVIOUS
    <3>2. PICK n : n = NoCtx
      OBVIOUS
    <3>3. /\ n \in CtxSet /\ ~n.busy /\ ~n.is_releasing
      BY <3>2, NoCtxIs
    <3>4. r = [n EXCEPT !.ta = f.ta, !.ref_count = 1, !.is_initializing = b]
      BY <2>5, <3>1, <3>2
    <3>5. /\ r \in CtxSet /\ r.ta = f.ta /\ r.ref_count = 1 /\ r.is_initializing = b
          /\ r.busy = n.busy /\ r.is_releasing = n.is_releasing
      BY <3>3, <3>4 DEF CtxSet
    <3> QED BY <3>1, <3>3, <3>5 DEF Made
  <2>8. r \in CtxSet
    BY <2>7 DEF Made
  <2> QED BY <2>4, <2>6, <2>7, <2>8
<1> QED BY <1>1, <1>2

(* What looking for a context comes to: nothing yet, a new context, or a    *)
(* reference to the one that is there.                                      *)
Found(g, ta) ==
  \/ /\ g.pc \in {"find", "init_fail"} /\ g.x = 0
     /\ ctx' = ctx /\ tee_ctxes' = tee_ctxes
  \/ /\ g.pc = "load" /\ g.x \in Ctxs /\ ctx[g.x].ta = NoTa
     /\ \E r : Made(r, ta) /\ ctx' = [ctx EXCEPT ![g.x] = r]
     /\ tee_ctxes' = Append(tee_ctxes, g.x)
     /\ \A y \in Ctxs : "SINGLE_INSTANCE" \in Flags[ta] /\ Listed(y) => ctx[y].ta # ta
  \/ /\ g.pc = "busy" /\ g.x \in Ctxs /\ Listed(g.x) /\ ctx[g.x].ta = ta /\ ~ctx[g.x].is_initializing
     /\ ctx' = [ctx EXCEPT ![g.x].ref_count = @ + 1] /\ tee_ctxes' = tee_ctxes

(* The frame of an open that looked for a context. *)
LEMMA OpenGoesOn ==
  ASSUME NEW g, g.op = "open", g.ta \in Tas, ~g.held, g.key[2] # 0,
         (g.pc \in {"find", "init_fail"} /\ g.x = 0) \/ (g.pc \in {"load", "busy"} /\ g.x # 0)
  PROVE  Shape(g)
BY DEF Shape, InContext, Running, Ending

(* tee_ta_init_session_with_context and what follows. *)
LEMMA FindContextIs ==
  ASSUME IInv, NEW t \in Threads, NEW f \in FrameSet, f.op = "open", f.ta \in Tas, f.x = 0,
         ~f.held, f.key[2] # 0, FindContext(t, f)
  PROVE  \E g \in FrameSet :
            /\ Become(t, g) /\ Shape(g) /\ g.key = f.key /\ g.op = "open" /\ ~g.held
            /\ g.ta = f.ta /\ Found(g, f.ta)
<1>1. PICK x : x = ContextOf(f.ta)
  OBVIOUS
<1>2. Types
  BY DEF IInv
<1>3. \/ x = 0 /\ \A y \in Ctxs : Listed(y) => ctx[y].ta # f.ta
      \/ x \in Ctxs /\ Listed(x) /\ ctx[x].ta = f.ta
  BY <1>1, <1>2, ContextOfIs
<1>5. ASSUME NEW c \in {"find", "init_fail"}
      PROVE  [f EXCEPT !.pc = c] = [f EXCEPT !.x = 0, !.pc = c]
  BY DEF FrameSet
<1>6. ASSUME NEW c \in {"find", "init_fail"}, Become(t, [f EXCEPT !.pc = c]),
             ctx' = ctx, tee_ctxes' = tee_ctxes
      PROVE  \E g \in FrameSet :
                /\ Become(t, g) /\ Shape(g) /\ g.key = f.key /\ g.op = "open" /\ ~g.held
                /\ g.ta = f.ta /\ Found(g, f.ta)
  <2>1. PICK g : g = [f EXCEPT !.x = 0, !.pc = c]
    OBVIOUS
  <2>2. 0 \in 0 .. MaxCtx
    BY ManagerAssumption
  <2>3. /\ g \in FrameSet /\ Shape(g) /\ g.key = f.key /\ g.op = "open" /\ ~g.held
        /\ g.ta = f.ta /\ g.x = 0 /\ g.pc = c
    <3>1. g \in FrameSet
      BY <1>6, <2>1, <2>2, FrameOn DEF Pcs
    <3>2. /\ g.key = f.key /\ g.op = "open" /\ g.held = f.held
          /\ g.ta = f.ta /\ g.x = 0 /\ g.pc = c
      BY <1>6, <2>1, <2>2 DEF FrameSet
    <3>3. Shape(g)
      BY <1>6, <2>1, <2>2, <3>2, OpenGoesOn
    <3> QED BY <3>1, <3>2, <3>3
  <2>4. Become(t, g)
    BY <1>5, <1>6, <2>1
  <2>5. Found(g, f.ta)
    BY <1>6, <2>3 DEF Found
  <2> QED BY <2>3, <2>4, <2>5
<1>7. ASSUME NewContext(t, f),
             \A y \in Ctxs : "SINGLE_INSTANCE" \in Flags[f.ta] /\ Listed(y) => ctx[y].ta # f.ta
      PROVE  \E g \in FrameSet :
                /\ Become(t, g) /\ Shape(g) /\ g.key = f.key /\ g.op = "open" /\ ~g.held
                /\ g.ta = f.ta /\ Found(g, f.ta)
  <2>1. CASE /\ Become(t, [f EXCEPT !.pc = "init_fail"])
             /\ ctx' = ctx /\ tee_ctxes' = tee_ctxes
    BY <1>6, <2>1
  <2>2. CASE \E z \in Ctxs, r \in CtxSet :
               /\ ctx[z].ta = NoTa /\ Made(r, f.ta) /\ ctx' = [ctx EXCEPT ![z] = r]
               /\ tee_ctxes' = Append(tee_ctxes, z)
               /\ Become(t, [f EXCEPT !.x = z, !.pc = "load"])
    <3>1. PICK z \in Ctxs, r \in CtxSet :
               /\ ctx[z].ta = NoTa /\ Made(r, f.ta) /\ ctx' = [ctx EXCEPT ![z] = r]
               /\ tee_ctxes' = Append(tee_ctxes, z)
               /\ Become(t, [f EXCEPT !.x = z, !.pc = "load"])
      BY <2>2
    <3>2. PICK g : g = [f EXCEPT !.x = z, !.pc = "load"]
      OBVIOUS
    <3>3. z \in 0 .. MaxCtx /\ z # 0
      BY ManagerAssumption DEF Ctxs
    <3>4. /\ g \in FrameSet /\ Shape(g) /\ g.key = f.key /\ g.op = "open" /\ ~g.held
          /\ g.ta = f.ta /\ g.x = z /\ g.pc = "load"
      <4>1. g \in FrameSet
        BY <3>2, <3>3, FrameOn DEF Pcs
      <4>2. /\ g.key = f.key /\ g.op = "open" /\ g.held = f.held
            /\ g.ta = f.ta /\ g.x = z /\ g.pc = "load"
        BY <3>2, <3>3 DEF FrameSet
      <4>3. Shape(g)
        BY <3>2, <3>3, <4>2, OpenGoesOn
      <4> QED BY <4>1, <4>2, <4>3
    <3>5. Found(g, f.ta)
      BY <1>7, <3>1, <3>4 DEF Found
    <3> QED BY <3>1, <3>2, <3>4, <3>5
  <2> QED BY <1>2, <1>7, <2>1, <2>2, NewContextIs
<1>8. CASE x = 0
  BY <1>1, <1>3, <1>7, <1>8, ManagerAssumption DEF FindContext, Ctxs
<1>9. CASE x # 0
  <2>1. x \in Ctxs /\ Listed(x) /\ ctx[x].ta = f.ta
    BY <1>3, <1>9
  <2>2. CASE ctx[x].is_initializing
    <3>1. /\ Become(t, [f EXCEPT !.pc = "find"])
          /\ ctx' = ctx /\ tee_ctxes' = tee_ctxes
      BY <1>1, <1>9, <2>2 DEF FindContext
    <3> QED BY <1>6, <3>1
  <2>3. CASE ~ctx[x].is_initializing /\ ~Has(x, "SINGLE_INSTANCE")
    <3>1. NewContext(t, f)
      BY <1>1, <1>9, <2>3 DEF FindContext
    <3>2. "SINGLE_INSTANCE" \notin Flags[f.ta]
      BY <2>1, <2>3 DEF Has
    <3> QED BY <1>7, <3>1, <3>2
  <2>4. CASE /\ ~ctx[x].is_initializing /\ Has(x, "SINGLE_INSTANCE")
             /\ ~Has(x, "MULTI_SESSION") /\ ctx[x].ref_count > 0
    <3>1. /\ Become(t, [f EXCEPT !.pc = "init_fail"])
          /\ ctx' = ctx /\ tee_ctxes' = tee_ctxes
      BY <1>1, <1>9, <2>4 DEF FindContext
    <3> QED BY <1>6, <3>1
  <2>5. CASE /\ ~ctx[x].is_initializing /\ Has(x, "SINGLE_INSTANCE")
             /\ ~(~Has(x, "MULTI_SESSION") /\ ctx[x].ref_count > 0)
    <3>1. /\ ctx' = [ctx EXCEPT ![x].ref_count = @ + 1]
          /\ Become(t, [f EXCEPT !.x = x, !.pc = "busy"]) /\ tee_ctxes' = tee_ctxes
      BY <1>1, <1>9, <2>5 DEF FindContext
    <3>2. PICK g : g = [f EXCEPT !.x = x, !.pc = "busy"]
      OBVIOUS
    <3>3. x \in 0 .. MaxCtx /\ x # 0
      BY <2>1, ManagerAssumption DEF Ctxs
    <3>4. /\ g \in FrameSet /\ Shape(g) /\ g.key = f.key /\ g.op = "open" /\ ~g.held
          /\ g.ta = f.ta /\ g.x = x /\ g.pc = "busy"
      <4>1. g \in FrameSet
        BY <3>2, <3>3, FrameOn DEF Pcs
      <4>2. /\ g.key = f.key /\ g.op = "open" /\ g.held = f.held
            /\ g.ta = f.ta /\ g.x = x /\ g.pc = "busy"
        BY <3>2, <3>3 DEF FrameSet
      <4>3. Shape(g)
        BY <3>2, <3>3, <4>2, OpenGoesOn
      <4> QED BY <4>1, <4>2, <4>3
    <3>5. Found(g, f.ta)
      BY <2>1, <2>5, <3>1, <3>4 DEF Found
    <3> QED BY <3>1, <3>2, <3>4, <3>5
  <2> QED BY <2>2, <2>3, <2>4, <2>5
<1> QED BY <1>8, <1>9

(* The open has found, made or failed to get a context for its session k:   *)
(* what the contexts see of it.                                             *)
FoundFor(p, g, k) ==
  /\ p \in Frames /\ F(p).x = 0 /\ ~F(p).held /\ F(p).key[1] = k[1]
  /\ Moves(p) /\ IsFiniteSet(Frames') /\ p \in Frames' /\ F(p)' = g
  /\ g \in FrameSet /\ ~g.held /\ g.key = k
  /\ sess'[k].ctx = g.x /\ Exists(k)' /\ ~(Exists(k) /\ sess[k].ctx # 0)
  /\ \A j \in Keys : j # k => sess'[j] = sess[j] /\ (Exists(j)' <=> Exists(j))
  /\ \A l \in Lists : l # k[1] => open_sessions'[l] = open_sessions[l]
  /\ si_thread' = si_thread /\ si_count' = si_count

(* The other contexts. *)
LEMMA FoundOther ==
  ASSUME IInv, NEW p, NEW g, NEW k \in Keys, FoundFor(p, g, k), NEW y \in Ctxs, y # g.x,
         ctx'[y] = ctx[y], Listed(y)' <=> Listed(y)
  PROVE  CtxInv(y)'
<1>1. y # 0 /\ y \in Lists
  BY ManagerAssumption DEF Ctxs, Lists
<1>2. SessOf(y)' = SessOf(y)
  <2>1. k \notin SessOf(y)
    BY <1>1 DEF SessOf, FoundFor
  <2>2. k \notin SessOf(y)'
    BY DEF SessOf, FoundFor
  <2>3. \A j \in Keys : j # k => (j \in SessOf(y)' <=> j \in SessOf(y))
    BY DEF SessOf, FoundFor
  <2>4. SessOf(y) \subseteq Keys /\ SessOf(y)' \subseteq Keys
    BY DEF SessOf
  <2> QED BY <2>1, <2>2, <2>3, <2>4
<1>3. F(p).key[1] # y => open_sessions'[y] = open_sessions[y]
  BY <1>1 DEF FoundFor
<1>4. /\ p \in Frames /\ F(p).x # y /\ Moves(p) /\ IsFiniteSet(Frames')
      /\ p \in Frames' => F(p)'.x # y
  BY <1>1 DEF FoundFor
<1> QED BY <1>2, <1>3, <1>4, CtxOfList

(* The sessions of the context that was found. *)
LEMMA FoundSess ==
  ASSUME IInv, NEW p, NEW g, NEW k \in Keys, FoundFor(p, g, k), g.x \in Ctxs
  PROVE  /\ SessOf(g.x)' = SessOf(g.x) \cup {k} /\ k \notin SessOf(g.x)
         /\ Cardinality(SessOf(g.x)') = Cardinality(SessOf(g.x)) + 1
         /\ Cardinality(SessOf(g.x)) \in Nat
<1>1. g.x # 0
  BY ManagerAssumption DEF Ctxs
<1>2. k \notin SessOf(g.x)
  BY <1>1 DEF SessOf, FoundFor
<1>3. k \in SessOf(g.x)'
  BY DEF SessOf, FoundFor
<1>4. \A j \in Keys : j # k => (j \in SessOf(g.x)' <=> j \in SessOf(g.x))
  BY DEF SessOf, FoundFor
<1>5. SessOf(g.x) \subseteq Keys /\ SessOf(g.x)' \subseteq Keys
  BY DEF SessOf
<1>6. SessOf(g.x)' = SessOf(g.x) \cup {k}
  BY <1>2, <1>3, <1>4, <1>5
<1>7. IsFiniteSet(SessOf(g.x))
  BY <1>5, FiniteTable, FS_Subset
<1>8. /\ Cardinality(SessOf(g.x) \cup {k}) = Cardinality(SessOf(g.x)) + 1
      /\ Cardinality(SessOf(g.x)) \in Nat
  BY <1>2, <1>7, FS_AddElement, FS_CardinalityType
<1> QED BY <1>2, <1>6, <1>8

(* A new context. *)
LEMMA FoundNew ==
  ASSUME IInv, NEW p, NEW g, NEW k \in Keys, FoundFor(p, g, k), NEW ta \in Tas,
         g.pc = "load", NEW x \in Ctxs, x = g.x, ctx[x].ta = NoTa, NEW r, Made(r, ta),
         ctx' = [ctx EXCEPT ![x] = r], tee_ctxes' = Append(tee_ctxes, x),
         \A y \in Ctxs : "SINGLE_INSTANCE" \in Flags[ta] /\ Listed(y) => ctx[y].ta # ta
  PROVE  /\ ctx' \in [Ctxs -> CtxSet] /\ tee_ctxes' \in Seq(Ctxs) /\ NoRepeats(tee_ctxes')
         /\ \A y \in Ctxs : CtxInv(y)'
         /\ OneListed' /\ (\A y \in Ctxs : BusyInv(y)') /\ SingleInv'
<1>1. Types /\ IsFiniteSet(Frames) /\ CtxInv(x)
  BY DEF IInv, Types
<1>2. /\ ctx' \in [Ctxs -> CtxSet] /\ ctx'[x] = r
      /\ \A y \in Ctxs : y # x => ctx'[y] = ctx[y]
  BY <1>1 DEF Types, Made
<1>3. ~Listed(x) /\ ctx[x] = NoCtx /\ open_sessions[x] = << >>
  BY <1>1 DEF CtxInv
<1>4. /\ tee_ctxes' \in Seq(Ctxs) /\ NoRepeats(tee_ctxes')
      /\ \A y : Listed(y)' <=> Listed(y) \/ y = x
  <2>1. tee_ctxes \in Seq(Ctxs) /\ NoRepeats(tee_ctxes) /\ x \notin Elements(tee_ctxes)
    BY <1>1, <1>3 DEF Types, Listed
  <2>2. /\ Append(tee_ctxes, x) \in Seq(Ctxs) /\ NoRepeats(Append(tee_ctxes, x))
        /\ \A d : d \in Elements(Append(tee_ctxes, x)) <=> d \in Elements(tee_ctxes) \/ d = x
    BY <2>1, AppendEffect
  <2> QED BY <2>2 DEF Listed
<1>5. \A q \in Frames : F(q).x # x
  BY InUse
<1>6. /\ p \in Frames' /\ F(p)' = g /\ Moves(p) /\ IsFiniteSet(Frames') /\ p \in Frames
      /\ ~F(p).held /\ ~g.held
  BY DEF FoundFor
<1>7. In(x)' = {p}
  BY <1>5, <1>6 DEF In, Moves
<1>8. Going(x)' = {}
  <2>1. Going(x)' \subseteq In(x)'
    BY DEF Going, In
  <2>2. p \notin Going(x)'
    BY <1>6 DEF Going
  <2> QED BY <1>7, <2>1, <2>2
<1>9. Cardinality(SessOf(x)') + Cardinality(Going(x)') = 1
  <2>1. SessOf(x) = {}
    BY <1>3, NoCtxIs, NoneLeft
  <2>2. Cardinality(SessOf(x)') = Cardinality(SessOf(x)) + 1
    BY FoundSess
  <2> QED BY <1>8, <2>1, <2>2, FS_EmptySet
<1>10. open_sessions'[x] = << >>
  <2>1. k[1] # x
    BY <1>6, ListOwner DEF FoundFor
  <2>2. x \in Lists
    BY ManagerAssumption DEF Ctxs, Lists
  <2> QED BY <1>3, <2>1, <2>2 DEF FoundFor
<1>11. CtxInv(x)'
  <2>1. /\ ctx'[x].ta # NoTa /\ ctx'[x].ref_count = 1 /\ ctx'[x].is_initializing
        /\ ~ctx'[x].is_releasing
    BY <1>2, ManagerAssumption DEF Made
  <2>2. Listed(x)'
    BY <1>4
  <2>3. \A q \in In(x)' : F(q)'.pc # "destroy"
    BY <1>6, <1>7
  <2> QED BY <1>9, <1>10, <2>1, <2>2, <2>3 DEF CtxInv
<1>12. \A y \in Ctxs : CtxInv(y)'
  <2> SUFFICES ASSUME NEW y \in Ctxs, y # x PROVE CtxInv(y)'
    BY <1>11
  <2> QED BY <1>2, <1>4, FoundOther
<1>13. OneListed'
  <2> SUFFICES ASSUME NEW y \in Ctxs, NEW z \in Ctxs, Listed(y)', Listed(z)',
                      ctx'[y].ta = ctx'[z].ta, "SINGLE_INSTANCE" \in Flags[ctx'[y].ta], y # z
               PROVE  FALSE
    BY DEF OneListed
  <2>1. ctx'[x].ta = ta
    BY <1>2 DEF Made
  <2>2. CASE y # x /\ z # x
    BY <1>2, <1>4, <2>2 DEF IInv, OneListed
  <2>3. CASE y = x
    BY <1>2, <1>4, <2>1, <2>3
  <2>4. CASE z = x
    BY <1>2, <1>4, <2>1, <2>4
  <2> QED BY <2>2, <2>3, <2>4
<1>14. (\A y \in Ctxs : BusyInv(y)') /\ SingleInv'
  <2>1. ~ctx[x].busy /\ ~ctx'[x].busy
    BY <1>2, <1>3, NoCtxIs DEF Made
  <2>2. ctx[x].busy \in BOOLEAN /\ ctx'[x].busy \in BOOLEAN
    BY <1>1, <1>2 DEF Types, CtxSet
  <2>3. \A y \in Ctxs : ctx'[y].busy = ctx[y].busy
    BY <1>2, <2>1, <2>2
  <2>4. \A y \in Ctxs : ctx'[y].ta = ctx[y].ta \/ ~ctx[y].busy
    BY <1>2, <2>1
  <2>5. si_thread' = si_thread /\ si_count' = si_count
    BY DEF FoundFor
  <2> QED BY <1>6, <2>3, <2>4, <2>5, CalmBusy
<1> QED BY <1>2, <1>4, <1>12, <1>13, <1>14

(* A reference to a context that is there. *)
LEMMA FoundTaken ==
  ASSUME IInv, NEW p, NEW g, NEW k \in Keys, FoundFor(p, g, k),
         g.pc = "busy", NEW x \in Ctxs, x = g.x, Listed(x), ~ctx[x].is_initializing,
         ctx' = [ctx EXCEPT ![x].ref_count = @ + 1], tee_ctxes' = tee_ctxes
  PROVE  /\ ctx' \in [Ctxs -> CtxSet]
         /\ \A y \in Ctxs : CtxInv(y)'
         /\ OneListed' /\ (\A y \in Ctxs : BusyInv(y)') /\ SingleInv'
<1>1. Types /\ IsFiniteSet(Frames) /\ CtxInv(x)
  BY DEF IInv, Types
<1>2. PICK n \in Nat : n = ctx[x].ref_count
  BY <1>1 DEF Types, CtxSet
<1>3. PICK r : r = [ctx[x] EXCEPT !.ref_count = n + 1]
  OBVIOUS
<1>4. /\ r \in CtxSet /\ r.ta = ctx[x].ta /\ r.ref_count = n + 1 /\ r.busy = ctx[x].busy
      /\ r.is_releasing = ctx[x].is_releasing
  <2>1. ctx[x] \in CtxSet /\ n + 1 \in Nat
    BY <1>1 DEF Types
  <2> QED BY <1>3, <2>1 DEF CtxSet
<1>5. ctx' = [ctx EXCEPT ![x] = r]
  BY <1>2, <1>3
<1>6. /\ ctx' \in [Ctxs -> CtxSet] /\ ctx'[x] = r
      /\ \A y \in Ctxs : y # x => ctx'[y] = ctx[y]
  BY <1>1, <1>4, <1>5 DEF Types
<1>7. \A y \in Ctxs : Listed(y)' <=> Listed(y)
  BY DEF Listed
<1>8. ctx[x].ta # NoTa /\ ~ctx[x].is_releasing
  BY <1>1 DEF CtxInv
<1>9. /\ p \in Frames' /\ F(p)' = g /\ Moves(p) /\ IsFiniteSet(Frames') /\ p \in Frames
      /\ ~F(p).held /\ ~g.held /\ F(p).x = 0
  BY DEF FoundFor
<1>10. CtxInv(x)'
  <2>1. ASSUME NEW q \in Frames', F(q)'.x = x
        PROVE  F(q)'.pc # "destroy" /\ F(q)'.pc # "load"
    <3>1. CASE q = p
      BY <1>9, <3>1
    <3>2. CASE q # p
      <4>1. q \in Frames /\ F(q)' = F(q) /\ F(q).x = x
        BY <1>9, <2>1, <3>2 DEF Moves
      <4>2. F(q).pc # "destroy"
        BY <1>8, <4>1, DestroyAlone
      <4>3. F(q).pc # "load"
        BY <4>1, LoadAlone
      <4> QED BY <4>1, <4>2, <4>3
    <3> QED BY <3>1, <3>2
  <2>2. Cardinality(Going(x)') = Cardinality(Going(x)) /\ Cardinality(Going(x)) \in Nat
    <3>1. x # 0
      BY ManagerAssumption DEF Ctxs
    <3>2. p \notin Going(x) /\ p \notin Going(x)'
      BY <1>9, <3>1 DEF Going
    <3> QED BY <1>1, <1>9, <3>2, InMoves
  <2>3. /\ Cardinality(SessOf(x)') = Cardinality(SessOf(x)) + 1
        /\ Cardinality(SessOf(x)) \in Nat
    BY FoundSess
  <2>4. n = Cardinality(SessOf(x)) + Cardinality(Going(x))
    BY <1>1, <1>2 DEF CtxInv
  <2>5. ctx'[x].ref_count = n + 1 /\ ctx'[x].ta = ctx[x].ta
    <3>1. PICK c : c = ctx'[x]
      OBVIOUS
    <3>2. c = r
      BY <1>6, <3>1
    <3>3. c.ref_count = n + 1 /\ c.ta = ctx[x].ta
      BY <1>4, <3>2
    <3> QED BY <3>1, <3>3
  <2>6. ctx'[x].ref_count = Cardinality(SessOf(x)') + Cardinality(Going(x)')
    BY <2>2, <2>3, <2>4, <2>5
  <2>7. ctx'[x].ref_count # 0 /\ ctx'[x].ta # NoTa
    BY <1>8, <2>5
  <2>8. Listed(x)' <=> ~ctx'[x].is_releasing
    BY <1>4, <1>6, <1>7, <1>8
  <2> QED BY <2>1, <2>6, <2>7, <2>8, CtxPlain
<1>11. \A y \in Ctxs : CtxInv(y)'
  <2> SUFFICES ASSUME NEW y \in Ctxs, y # x PROVE CtxInv(y)'
    BY <1>10
  <2> QED BY <1>6, <1>7, FoundOther
<1>12. \A y \in Ctxs : ctx'[y].busy = ctx[y].busy /\ ctx'[y].ta = ctx[y].ta
  BY <1>4, <1>6
<1>13. OneListed'
  BY <1>7, <1>12, ListedKeep DEF IInv
<1>14. (\A y \in Ctxs : BusyInv(y)') /\ SingleInv'
  <2>1. si_thread' = si_thread /\ si_count' = si_count
    BY DEF FoundFor
  <2> QED BY <1>9, <1>12, <2>1, CalmBusy
<1> QED BY <1>6, <1>11, <1>13, <1>14

(* Whatever came of it. *)
LEMMA FoundCtx ==
  ASSUME IInv, NEW p, NEW g, NEW k \in Keys, FoundFor(p, g, k), NEW ta \in Tas, Found(g, ta)
  PROVE  /\ ctx' \in [Ctxs -> CtxSet] /\ tee_ctxes' \in Seq(Ctxs) /\ NoRepeats(tee_ctxes')
         /\ \A y \in Ctxs : CtxInv(y)'
         /\ OneListed' /\ (\A y \in Ctxs : BusyInv(y)') /\ SingleInv'
<1>1. ctx \in [Ctxs -> CtxSet] /\ tee_ctxes \in Seq(Ctxs) /\ NoRepeats(tee_ctxes)
  BY DEF IInv, Types
<1>2. CASE g.x = 0 /\ ctx' = ctx /\ tee_ctxes' = tee_ctxes
  <2>1. \A y \in Ctxs : Listed(y)' <=> Listed(y)
    BY <1>2 DEF Listed
  <2>2. \A y \in Ctxs : CtxInv(y)'
    <3> SUFFICES ASSUME NEW y \in Ctxs PROVE CtxInv(y)'
      OBVIOUS
    <3>1. y # g.x
      BY <1>2, ManagerAssumption DEF Ctxs
    <3> QED BY <1>2, <2>1, <3>1, FoundOther
  <2>3. OneListed'
    BY <1>2, <2>1, ListedKeep DEF IInv
  <2>4. (\A y \in Ctxs : BusyInv(y)') /\ SingleInv'
    <3>1. /\ si_thread' = si_thread /\ si_count' = si_count
          /\ p \in Frames' /\ F(p)' = g /\ Moves(p) /\ IsFiniteSet(Frames') /\ p \in Frames
          /\ ~F(p).held /\ ~g.held
      BY DEF FoundFor
    <3> QED BY <1>2, <3>1, CalmBusy
  <2> QED BY <1>1, <1>2, <2>2, <2>3, <2>4
<1>3. CASE /\ g.pc = "load" /\ g.x \in Ctxs /\ ctx[g.x].ta = NoTa
           /\ \E r : Made(r, ta) /\ ctx' = [ctx EXCEPT ![g.x] = r]
           /\ tee_ctxes' = Append(tee_ctxes, g.x)
           /\ \A y \in Ctxs : "SINGLE_INSTANCE" \in Flags[ta] /\ Listed(y) => ctx[y].ta # ta
  <2>1. PICK r : Made(r, ta) /\ ctx' = [ctx EXCEPT ![g.x] = r]
    BY <1>3
  <2> QED BY <1>3, <2>1, FoundNew
<1>4. CASE /\ g.pc = "busy" /\ g.x \in Ctxs /\ Listed(g.x) /\ ~ctx[g.x].is_initializing
           /\ ctx' = [ctx EXCEPT ![g.x].ref_count = @ + 1] /\ tee_ctxes' = tee_ctxes
  BY <1>1, <1>4, FoundTaken
<1> QED BY <1>2, <1>3, <1>4 DEF Found

(* The frame at the top of a stack that was changed there. *)
LEMMA TopNext ==
  ASSUME Types, NEW t \in Threads, stack[t] # << >>, NEW g \in FrameSet, Become(t, g)
  PROVE  stack'[t][Len(stack'[t])] = g
<1>1. PICK s \in Seq(FrameSet) : s = stack[t]
  BY DEF Types
<1>2. Len(s) \in 1 .. Len(s)
  BY <1>1
<1>3. PICK r : r = [s EXCEPT ![Len(s)] = g]
  OBVIOUS
<1>4. r \in Seq(FrameSet) /\ Len(r) = Len(s) /\ r[Len(s)] = g
  BY <1>2, <1>3
<1>5. stack'[t] = r
  BY <1>1, <1>3 DEF Become, Types
<1> QED BY <1>4, <1>5

(* tee_ta_init_session_with_context again, after waiting. *)
LEMMA FindAgainStep ==
  ASSUME IInv, NEW t \in Threads, FindAgain(t)
  PROVE  IInv'
<1>1. stack[t] # << >> /\ Top(t).pc = "find"
  BY DEF FindAgain, At
<1>2. /\ open_sessions' = open_sessions /\ known' = known
      /\ si_thread' = si_thread /\ si_count' = si_count
  BY DEF FindAgain, locks
<1>3. PICK p : p = <<t, Len(stack[t])>>
  OBVIOUS
<1>4. /\ p \in Frames /\ F(p) = Top(t) /\ F(p) \in FrameSet /\ Shape(F(p))
      /\ F(p).key[2] # 0 => F(p).key \in Keys
      /\ Types /\ StackInv /\ IsFiniteSet(Frames)
  BY <1>1, <1>3, TopFacts
<1>5. /\ F(p).pc = "find" /\ F(p).op = "open" /\ F(p).key[2] # 0 /\ F(p).x = 0 /\ ~F(p).held
      /\ F(p).ta \in Tas
  BY <1>1, <1>4 DEF Shape, InContext, Running, Ending
<1>6. PICK k \in Keys : k = F(p).key
  BY <1>4, <1>5
<1>7. PICK ta \in Tas : ta = F(p).ta
  BY <1>5
<1>8. PICK f \in FrameSet : f = F(p)
  BY <1>4
<1>9. FindContext(t, f)
  BY <1>4, <1>8 DEF FindAgain
<1>10. PICK g \in FrameSet :
         /\ Become(t, g) /\ Shape(g) /\ g.key = k /\ g.op = "open" /\ ~g.held
         /\ Found(g, ta)
  <2>1. \E g \in FrameSet :
            /\ Become(t, g) /\ Shape(g) /\ g.key = f.key /\ g.op = "open" /\ ~g.held
            /\ g.ta = f.ta /\ Found(g, f.ta)
    BY <1>5, <1>8, <1>9, FindContextIs
  <2> QED BY <1>6, <1>7, <1>8, <2>1
<1>11. /\ p \in Frames' /\ F(p)' = g /\ Moves(p)
       /\ stack' \in [Threads -> Seq(FrameSet)] /\ IsFiniteSet(Frames')
  BY <1>1, <1>3, <1>4, <1>10, BecomeEffect
<1>12. StackInv'
  BY <1>1, <1>4, <1>6, <1>10, BecomeStack
<1>13. sess' = [sess EXCEPT ![k].ctx = g.x]
  <2>1. stack'[t][Len(stack'[t])] = g
    BY <1>1, <1>4, <1>10, TopNext
  <2>2. sess' = [sess EXCEPT ![Top(t).key].ctx = stack'[t][Len(stack'[t])].x]
    BY DEF FindAgain
  <2> QED BY <1>4, <1>6, <2>1, <2>2
<1>14. /\ sess' \in [Keys -> SessSet]
       /\ sess'[k].ctx = g.x /\ sess'[k].ref_count = sess[k].ref_count
       /\ sess'[k].lock_thread = sess[k].lock_thread /\ sess'[k].unlink = sess[k].unlink
       /\ \A j \in Keys : j # k => sess'[j] = sess[j]
  <2>1. sess \in [Keys -> SessSet] /\ g.x \in 0 .. MaxCtx
    BY <1>4 DEF Types, FrameSet
  <2> QED BY <1>13, <2>1 DEF SessSet
<1>15. \A j \in Keys : Exists(j)' <=> Exists(j)
  BY <1>2 DEF Exists
<1>16. SessInv(k) /\ p \in On(k) /\ Locks(F(p)) /\ Locks(g)
  <2>1. g.pc \notin {"get", "lock"}
    BY <1>10 DEF Found
  <2> QED BY <1>4, <1>5, <1>6, <1>10, <2>1 DEF IInv, On, Locks
<1>17. SessInv(k)'
  BY <1>2, <1>4, <1>5, <1>6, <1>10, <1>11, <1>14, <1>15, <1>16, SessStay
<1>18. \A j \in Keys : SessInv(j)'
  BY <1>2, <1>6, <1>10, <1>11, <1>14, <1>15, <1>17, SessOthers
<1>19. FoundFor(p, g, k)
  <2>1. Exists(k) /\ sess[k].ctx = 0
    BY <1>5, <1>16 DEF SessInv
  <2>2. F(p).key[1] = k[1]
    BY <1>6
  <2> QED BY <1>2, <1>4, <1>5, <1>10, <1>11, <1>14, <1>15, <2>1, <2>2 DEF FoundFor
<1>20. /\ ctx' \in [Ctxs -> CtxSet] /\ tee_ctxes' \in Seq(Ctxs) /\ NoRepeats(tee_ctxes')
       /\ \A y \in Ctxs : CtxInv(y)'
       /\ OneListed' /\ (\A y \in Ctxs : BusyInv(y)') /\ SingleInv'
  BY <1>10, <1>19, FoundCtx
<1>21. Types'
  BY <1>2, <1>4, <1>11, <1>14, <1>20 DEF Types
<1> QED BY <1>12, <1>18, <1>20, <1>21 DEF IInv

(* tee_ta_init_session finds no id: nothing happened. *)
LEMMA GivesUp ==
  ASSUME IInv, NEW t \in Threads, stack[t] # << >>, Top(t).pc = "init", Return(t),
         open_sessions' = open_sessions, sess' = sess, ctx' = ctx, tee_ctxes' = tee_ctxes,
         si_thread' = si_thread, si_count' = si_count, known' = known
  PROVE  IInv'
<1>1. PICK p : p = <<t, Len(stack[t])>>
  OBVIOUS
<1>2. /\ p \in Frames /\ F(p) = Top(t) /\ Shape(F(p))
      /\ Types /\ StackInv /\ IsFiniteSet(Frames)
  BY <1>1, TopFacts
<1>3. F(p).pc = "init" /\ F(p).key[2] = 0 /\ ~F(p).held
  BY <1>2 DEF Shape, Running
<1>4. /\ p \notin Frames' /\ Moves(p)
      /\ stack' \in [Threads -> Seq(FrameSet)] /\ IsFiniteSet(Frames')
  BY <1>1, <1>2, ReturnEffect
<1>5. StackInv'
  BY <1>2, ReturnStack
<1>6. Types'
  BY <1>2, <1>4, TypesKeep DEF Types
<1>7. \A k \in Keys : SessInv(k)'
  BY <1>2, <1>3, <1>4, DropSess
<1>8. (\A y \in Ctxs : CtxInv(y)') /\ OneListed'
  <2>1. \A y \in Ctxs : p \in Going(y) <=> p \in Going(y)'
    BY <1>3, <1>4 DEF Going
  <2> QED BY <1>2, <1>3, <1>4, <2>1, CalmCtx
<1>9. (\A y \in Ctxs : BusyInv(y)') /\ SingleInv'
  BY <1>3, <1>4, CalmBusy
<1> QED BY <1>5, <1>6, <1>7, <1>8, <1>9 DEF IInv

(* tee_ta_init_session. *)
LEMMA InitSessionStep ==
  ASSUME IInv, NEW t \in Threads, InitSession(t)
  PROVE  IInv'
<1>1. stack[t] # << >> /\ Top(t).pc = "init"
  BY DEF InitSession, At
<1>2. known' = known /\ si_thread' = si_thread /\ si_count' = si_count
  BY DEF InitSession, locks
<1>3. PICK p : p = <<t, Len(stack[t])>>
  OBVIOUS
<1>4. /\ p \in Frames /\ F(p) = Top(t) /\ F(p) \in FrameSet /\ Shape(F(p)) /\ p[1] = t
      /\ F(p).key \in Lists \X (Ids \cup {0})
      /\ Types /\ StackInv /\ IsFiniteSet(Frames)
  BY <1>1, <1>3, TopFacts
<1>5. /\ F(p).pc = "init" /\ F(p).op = "open" /\ F(p).key[2] = 0 /\ F(p).x = 0 /\ ~F(p).held
      /\ F(p).ta \in Tas
  BY <1>1, <1>4 DEF Shape, InContext, Running, Ending
<1>6. PICK l \in Lists : l = F(p).key[1]
  BY <1>4
<1>7. PICK id : id = NewSessionId(l)
  OBVIOUS
<1>8. CASE id = 0
  <2>1. /\ Return(t) /\ open_sessions' = open_sessions /\ sess' = sess /\ ctx' = ctx
        /\ tee_ctxes' = tee_ctxes
    BY <1>4, <1>6, <1>7, <1>8 DEF InitSession
  <2> QED BY <1>1, <1>2, <2>1, GivesUp
<1>9. CASE id # 0
  <2>1. id \in Ids /\ ~Exists(<<l, id>>)
    BY <1>4, <1>7, <1>9, NewIdFree
  <2>2. PICK k \in Keys : k = <<l, id>>
    BY <2>1 DEF Keys
  <2>3. k[1] = l /\ k[2] = id /\ k[2] # 0
    BY <1>9, <2>2
  <2>4. PICK f : f = [F(p) EXCEPT !.key = k]
    OBVIOUS
  <2>5. /\ open_sessions' = [open_sessions EXCEPT ![k[1]] = Append(@, k[2])]
        /\ FindContext(t, f)
        /\ sess' = [sess EXCEPT ![k] = [ctx |-> stack'[t][Len(stack'[t])].x, ref_count |-> 1,
                                        lock_thread |-> t, unlink |-> FALSE]]
    BY <1>4, <1>6, <1>7, <1>9, <2>2, <2>3, <2>4 DEF InitSession
  <2>6. /\ f \in FrameSet /\ f.op = "open" /\ f.key = k /\ f.x = 0 /\ ~f.held
        /\ f.ta = F(p).ta
    <3>1. k \in Lists \X (Ids \cup {0})
      BY DEF Keys
    <3> QED BY <1>4, <1>5, <2>4, <3>1 DEF FrameSet
  <2>7. PICK ta \in Tas : ta = F(p).ta
    BY <1>5
  <2>8. PICK g \in FrameSet :
          /\ Become(t, g) /\ Shape(g) /\ g.key = k /\ g.op = "open" /\ ~g.held
          /\ Found(g, ta)
    <3>1. \E g \in FrameSet :
              /\ Become(t, g) /\ Shape(g) /\ g.key = f.key /\ g.op = "open" /\ ~g.held
              /\ g.ta = f.ta /\ Found(g, f.ta)
      BY <1>5, <2>3, <2>5, <2>6, FindContextIs
    <3> QED BY <2>6, <2>7, <3>1
  <2>9. /\ p \in Frames' /\ F(p)' = g /\ Moves(p)
        /\ stack' \in [Threads -> Seq(FrameSet)] /\ IsFiniteSet(Frames')
    BY <1>1, <1>3, <1>4, <2>8, BecomeEffect
  <2>10. StackInv'
    <3>1. g.key[1] = Top(t).key[1]
      BY <1>4, <1>6, <2>3, <2>8
    <3> QED BY <1>1, <1>4, <2>8, <3>1, BecomeStack
  <2>11. PICK s : s = [ctx |-> g.x, ref_count |-> 1, lock_thread |-> t, unlink |-> FALSE]
    OBVIOUS
  <2>12. sess' = [sess EXCEPT ![k] = s]
    <3>1. stack'[t][Len(stack'[t])] = g
      BY <1>1, <1>4, <2>8, TopNext
    <3> QED BY <2>5, <2>11, <3>1
  <2>13. s \in SessSet /\ s.ctx = g.x
    <3>1. PICK b \in BOOLEAN : b = FALSE
      OBVIOUS
    <3>2. s = [ctx |-> g.x, ref_count |-> 1, lock_thread |-> t, unlink |-> b]
      BY <2>11, <3>1
    <3>3. g.x \in 0 .. MaxCtx
      BY DEF FrameSet
    <3> QED BY <3>2, <3>3 DEF SessSet
  <2>14. /\ sess' \in [Keys -> SessSet] /\ sess'[k] = s
         /\ \A j \in Keys : j # k => sess'[j] = sess[j]
    BY <1>4, <2>12, <2>13 DEF Types
  <2>15. /\ open_sessions' \in [Lists -> Seq(Ids)]
         /\ \A m \in Lists : NoRepeats(open_sessions'[m])
         /\ Exists(k)' /\ ~Exists(k)
         /\ \A j \in Keys : j # k => (Exists(j)' <=> Exists(j))
         /\ \A m \in Lists : m # k[1] => open_sessions'[m] = open_sessions[m]
    BY <1>4, <2>1, <2>2, <2>5, ListGrows
  <2>16. SessInv(k)'
    <3>1. SessInv(k)
      BY DEF IInv
    <3>2. Locks(g)
      <4>1. g.pc \notin {"get", "lock"}
        BY <2>8 DEF Found
      <4> QED BY <2>8, <4>1 DEF Locks
    <3>3. sess'[k] = [ctx |-> F(p)'.x, ref_count |-> 1, lock_thread |-> p[1], unlink |-> FALSE]
      BY <1>4, <2>9, <2>11, <2>14
    <3> QED BY <1>2, <1>4, <2>8, <2>9, <2>15, <3>1, <3>2, <3>3, SessMade
  <2>17. \A j \in Keys : SessInv(j)'
    BY <1>2, <1>5, <2>8, <2>9, <2>14, <2>15, <2>16, SessOthers
  <2>18. FoundFor(p, g, k)
    <3>1. F(p).key[1] = k[1]
      BY <1>6, <2>3
    <3>2. sess'[k].ctx = g.x
      BY <2>13, <2>14
    <3> QED BY <1>2, <1>4, <1>5, <2>8, <2>9, <2>14, <2>15, <3>1, <3>2 DEF FoundFor
  <2>19. /\ ctx' \in [Ctxs -> CtxSet] /\ tee_ctxes' \in Seq(Ctxs) /\ NoRepeats(tee_ctxes')
         /\ \A y \in Ctxs : CtxInv(y)'
         /\ OneListed' /\ (\A y \in Ctxs : BusyInv(y)') /\ SingleInv'
    BY <2>8, <2>18, FoundCtx
  <2>20. Types'
    BY <1>2, <1>4, <2>9, <2>14, <2>15, <2>19 DEF Types
  <2> QED BY <2>10, <2>17, <2>19, <2>20 DEF IInv
<1> QED BY <1>8, <1>9

----------------------------------------------------------------------------
(* The invariant holds at all times. *)

(* It holds with no session, no context and no call. *)
LEMMA InitHolds ==
  ASSUME Init
  PROVE  IInv /\ known \subseteq Ids
<1>1. Frames = {}
  BY DEF Init, Frames
<1>2. Cardinality({}) = 0 /\ IsFiniteSet({})
  BY FS_EmptySet
<1>3. /\ open_sessions = [l \in Lists |-> << >>] /\ sess = [k \in Keys |-> NoSess]
      /\ ctx = [x \in Ctxs |-> NoCtx] /\ tee_ctxes = << >>
      /\ si_thread = NoThread /\ si_count = 0 /\ known = {}
      /\ stack = [t \in Threads |-> << >>]
  BY DEF Init
<1>4. \A k : On(k) = {} /\ Users(k) = {}
  BY <1>1 DEF On, Users
<1>5. \A x : In(x) = {} /\ Going(x) = {}
  BY <1>1 DEF In, Going
<1>6. Elements(<< >>) = {} /\ NoRepeats(<< >>)
  BY DEF Elements, NoRepeats
<1>7. \A k \in Keys : ~Exists(k)
  BY <1>3, <1>6 DEF Exists, Keys
<1>8. Types
  <2>1. << >> \in Seq(Ids) /\ << >> \in Seq(Ctxs) /\ << >> \in Seq(FrameSet)
    OBVIOUS
  <2>2. IsFiniteSet(Frames)
    BY <1>1, <1>2
  <2> QED BY <1>3, <1>6, <2>1, <2>2, NoSessIs, NoCtxIs DEF Types
<1>9. StackInv
  BY <1>1 DEF StackInv
<1>10. ASSUME NEW k \in Keys PROVE SessInv(k)
  <2>1. sess[k] = NoSess /\ sess[k].ref_count = 0 /\ sess[k].lock_thread = NoThread
    BY <1>3 DEF NoSess
  <2>2. ~sess[k].unlink
    BY <1>3 DEF NoSess
  <2> QED BY <1>2, <1>3, <1>4, <1>7, <2>1, <2>2 DEF SessInv
<1>11. ASSUME NEW x \in Ctxs PROVE CtxInv(x)
  <2>1. SessOf(x) = {}
    BY <1>7 DEF SessOf
  <2>2. ~Listed(x)
    BY <1>3, <1>6 DEF Listed
  <2>3. ctx[x] = NoCtx /\ open_sessions[x] = << >>
    BY <1>3, ManagerAssumption DEF Ctxs, Lists
  <2>4. ctx[x].ref_count = 0 /\ ctx[x].ta = NoTa
    BY <2>3, NoCtxIs
  <2>5. Cardinality(SessOf(x)) + Cardinality(Going(x)) = 0
    <3>1. Cardinality(SessOf(x)) = 0 /\ Cardinality(Going(x)) = 0
      BY <1>2, <1>5, <2>1
    <3> QED BY <3>1
  <2>6. In(x) = {}
    BY <1>5
  <2> QED BY <2>2, <2>3, <2>4, <2>5, <2>6 DEF CtxInv
<1>12. ASSUME NEW x \in Ctxs PROVE BusyInv(x)
  <2>1. ~ctx[x].busy
    BY <1>3, NoCtxIs
  <2> QED BY <1>5, <2>1 DEF BusyInv
<1>13. OneListed
  BY <1>3, <1>6 DEF OneListed, Listed
<1>14. SingleInv
  <2>1. Single = {}
    BY <1>1 DEF Single
  <2> QED BY <1>2, <1>3, <2>1 DEF SingleInv
<1> QED BY <1>3, <1>8, <1>9, <1>10, <1>11, <1>12, <1>13, <1>14 DEF IInv

(* The ids the normal world is told are those of sessions. *)
LEMMA KnownStep ==
  ASSUME IInv, known \subseteq Ids, NEW t \in Threads, PutSession(t) \/ EntryCloseSession(t)
  PROVE  known' \subseteq Ids
<1>1. CASE PutSession(t)
  <2>1. stack[t] # << >> /\ Top(t).pc = "put"
    BY <1>1 DEF PutSession, At
  <2>2. /\ Top(t).key \in Lists \X (Ids \cup {0}) /\ Shape(Top(t))
    BY <2>1, TopFacts
  <2>3. Top(t).key[2] # 0
    BY <2>1, <2>2 DEF Shape
  <2>4. Top(t).key[2] \in Ids
    BY <2>2, <2>3
  <2> QED BY <1>1, <2>4 DEF PutSession
<1>2. CASE EntryCloseSession(t)
  BY <1>2 DEF EntryCloseSession
<1> QED BY <1>1, <1>2

(* The invariant is inductive. *)
LEMMA Inductive ==
  Spec => [](IInv /\ known \subseteq Ids)
<1>1. Init => IInv /\ known \subseteq Ids
  BY InitHolds
<1>2. IInv /\ known \subseteq Ids /\ [Next]_vars => (IInv /\ known \subseteq Ids)'
  <2> SUFFICES ASSUME IInv, known \subseteq Ids, [Next]_vars
               PROVE  IInv' /\ known' \subseteq Ids
    OBVIOUS
  <2>1. CASE vars' = vars
    <3>1. /\ open_sessions' = open_sessions /\ sess' = sess /\ ctx' = ctx
          /\ tee_ctxes' = tee_ctxes /\ si_thread' = si_thread /\ si_count' = si_count
          /\ stack' = stack /\ known' = known
      BY <2>1 DEF vars
    <3> QED BY <3>1, OnlyWaits
  <2>2. CASE Next
    <3>1. PICK t \in Threads : \/ Step(t) \/ Entry(t) \/ LoadFails(t)
                               \/ TaCall(t) \/ TaReturn(t) \/ TaPanic(t)
      BY <2>2 DEF Next
    <3>2. CASE PutSession(t)
      BY <3>2, PutSessionStep, KnownStep
    <3>3. CASE Entry(t)
      <4>1. CASE EntryCloseSession(t)
        BY <3>3, <4>1, EntryStep, KnownStep
      <4>2. CASE ~EntryCloseSession(t)
        <5>1. known' = known
          BY <3>3, <4>2 DEF Entry, EntryOpenSession, EntryInvokeCommand, EntryCancel
        <5> QED BY <3>3, <5>1, EntryStep
      <4> QED BY <4>1, <4>2
    <3>4. CASE GetSession(t) \/ LockSession(t) \/ UnlinkSession(t) \/ UnlinkWoken(t)
      <4>1. known' = known
        BY <3>4 DEF GetSession, LockSession, UnlinkSession, UnlinkWoken
      <4> QED BY <3>4, <4>1, GetSessionStep, LockSessionStep, UnlinkSessionStep, UnlinkWokenStep
    <3>5. CASE \/ InitSession(t) \/ FindAgain(t) \/ LoadDone(t) \/ LoadFails(t) \/ InitFails(t)
      <4>1. known' = known
        BY <3>5 DEF InitSession, FindAgain, LoadDone, LoadFails, InitFails
      <4> QED BY <3>5, <4>1, InitSessionStep, FindAgainStep, LoadDoneStep, LoadFailsStep,
                 InitFailsStep
    <3>6. CASE SetBusy(t) \/ Release(t) \/ ReleaseState(t) \/ ClearBusy(t)
      <4>1. known' = known
        BY <3>6 DEF SetBusy, Release, ReleaseState, ClearBusy
      <4> QED BY <3>6, <4>1, SetBusyStep, ReleaseStep, ReleaseStateStep, ClearBusyStep
    <3>7. CASE CloseSession(t) \/ Drop(t) \/ Destroy(t)
      <4>1. known' = known
        BY <3>7 DEF CloseSession, Drop, Destroy
      <4> QED BY <3>7, <4>1, CloseSessionStep, DropStep, DestroyStep
    <3>8. CASE TaCall(t) \/ TaReturn(t) \/ TaPanic(t)
      <4>1. known' = known
        BY <3>8 DEF TaCall, TaReturn, TaPanic
      <4> QED BY <3>8, <4>1, TaCallStep, TaReturnStep, TaPanicStep
    <3> QED BY <3>1, <3>2, <3>3, <3>4, <3>5, <3>6, <3>7, <3>8 DEF Step
  <2> QED BY <2>1, <2>2
<1> QED BY <1>1, <1>2, PTL DEF Spec

----------------------------------------------------------------------------
(* The theorems. *)

(* A session has a reference for every call on it and no more: one that     *)
(* nobody calls can be unlinked (inc_session_ref_count,                     *)
(* dec_session_ref_count), and its lock belongs to a call on it.            *)
THEOREM SessionRefs == Spec => []SessionRefsExact
<1>1. IInv => SessionRefsExact
  <2> SUFFICES ASSUME IInv, NEW k \in Keys
               PROVE  LET users == {p \in Frames : F(p).key = k /\ HoldsSession(F(p))}
                      IN /\ sess[k].ref_count = Cardinality(users)
                         /\ sess[k].lock_thread # NoThread =>
                               \E p \in users : p[1] = sess[k].lock_thread
    BY DEF SessionRefsExact
  <2>1. k[2] # 0
    BY ManagerAssumption DEF Keys, Ids
  <2>2. {p \in Frames : F(p).key = k /\ HoldsSession(F(p))} = Users(k)
    BY <2>1 DEF HoldsSession, Users
  <2>3. SessInv(k)
    BY DEF IInv
  <2>4. sess[k].ref_count = Cardinality(Users(k))
    BY <2>3 DEF SessInv
  <2>5. sess[k].lock_thread # NoThread => \E p \in Users(k) : p[1] = sess[k].lock_thread
    BY <2>3 DEF SessInv, On, Users, Locks
  <2> QED BY <2>2, <2>4, <2>5
<1> QED BY <1>1, Inductive, PTL

(* A context has a reference for every session that uses it, and for every   *)
(* close that has freed its session and not yet counted down (close_session);*)
(* without any it is kept alive, or being destroyed.                        *)
THEOREM CtxRefs == Spec => []CtxRefsExact
<1>1. IInv => CtxRefsExact
  <2> SUFFICES ASSUME IInv, NEW x \in Ctxs
               PROVE  /\ ctx[x].ref_count =
                            Cardinality({k \in Keys : Exists(k) /\ sess[k].ctx = x})
                            + Cardinality({p \in Frames : F(p).x = x /\ F(p).key[2] = 0
                                                         /\ F(p).pc \in {"clear", "drop"}})
                      /\ ctx[x].ta # NoTa /\ ctx[x].ref_count = 0 =>
                            KeepAlive(x) \/ \E p \in Frames : F(p).x = x /\ F(p).pc = "destroy"
    BY DEF CtxRefsExact
  <2>1. CtxInv(x)
    BY DEF IInv
  <2>2. ctx[x].ref_count = Cardinality(SessOf(x)) + Cardinality(Going(x))
    BY <2>1 DEF CtxInv
  <2>3. ctx[x].ta # NoTa /\ ctx[x].ref_count = 0 =>
          KeepAlive(x) \/ \E p \in Frames : F(p).x = x /\ F(p).pc = "destroy"
    BY <2>1 DEF CtxInv, In
  <2> QED BY <2>2, <2>3 DEF SessOf, Going
<1> QED BY <1>1, Inductive, PTL

(* What the invariant says of freed memory. *)
LEMMA NotFreed == IInv => NoUseAfterFree
<1> SUFFICES ASSUME IInv PROVE NoUseAfterFree
  OBVIOUS
<1>1. Types /\ StackInv
  BY DEF IInv
<1>2. ASSUME NEW p \in Frames
      PROVE  /\ HoldsSession(F(p)) => Exists(F(p).key)
             /\ F(p).x # 0 => ctx[F(p).x].ta # NoTa
             /\ F(p).key[1] # 0 => ctx[F(p).key[1]].ta # NoTa
  <2>1. /\ F(p).key \in Lists \X (Ids \cup {0})
        /\ F(p).key[2] # 0 => F(p).key \in Keys
        /\ F(p).x # 0 => F(p).x \in Ctxs
    BY <1>1, FrameFacts
  <2>2. HoldsSession(F(p)) => Exists(F(p).key)
    <3> SUFFICES ASSUME F(p).key \in Keys PROVE Exists(F(p).key)
      BY <2>1 DEF HoldsSession
    <3>1. SessInv(F(p).key) /\ p \in On(F(p).key)
      BY DEF IInv, On
    <3> QED BY <3>1 DEF SessInv
  <2>3. F(p).x # 0 => ctx[F(p).x].ta # NoTa
    BY <2>1, InUse
  <2>4. F(p).key[1] # 0 => F(p).key[1] \in Ctxs
    BY <2>1, ManagerAssumption DEF Lists, Ctxs
  <2>5. F(p).key[1] # 0 => ctx[F(p).key[1]].ta # NoTa
    BY <2>4, ListOwner
  <2> QED BY <2>2, <2>3, <2>5
<1>3. ASSUME NEW k \in Keys, Exists(k), sess[k].ctx # 0
      PROVE  ctx[sess[k].ctx].ta # NoTa
  <2>1. PICK x \in Ctxs : x = sess[k].ctx
    BY <1>1, <1>3, ManagerAssumption DEF Types, SessSet, Ctxs
  <2>2. k \in SessOf(x)
    BY <1>3, <2>1 DEF SessOf
  <2>3. ctx[x].ref_count # 0
    BY <2>2, NoneLeft
  <2>4. ctx[x].ta = NoTa => ctx[x] = NoCtx
    BY DEF IInv, CtxInv
  <2> QED BY <2>1, <2>3, <2>4, NoCtxIs
<1> QED BY <1>2, <1>3 DEF NoUseAfterFree

LEMMA NotFreedNext == IInv' => NoUseAfterFree'
BY NotFreed, PTL

(* No call works on a session or in a context that has been freed, and no   *)
(* session refers to a context that has (tee_ta_unlink_session waits for    *)
(* the other references; close_session destroys with the last one).         *)
THEOREM NothingUsedFreed == Spec => []NoUseAfterFree
BY NotFreed, Inductive, PTL

(* Of the contexts of a single-instance TA all but one are on their way out *)
(* (tee_ta_init_session_with_context takes the one that is registered, and  *)
(* waits while it is being initialized).                                    *)
THEOREM SingleInstance == Spec => []OneInstance
<1>1. IInv => OneInstance
  <2> SUFFICES ASSUME IInv, NEW x \in Ctxs, NEW y \in Ctxs, x # y, ctx[x].ta = ctx[y].ta,
                      ctx[x].ta # NoTa, "SINGLE_INSTANCE" \in Flags[ctx[x].ta],
                      ~ctx[x].is_releasing, ~ctx[y].is_releasing
               PROVE  FALSE
    BY DEF OneInstance
  <2>1. Listed(x) /\ Listed(y)
    BY DEF IInv, CtxInv
  <2> QED BY <2>1 DEF IInv, OneListed
<1> QED BY <1>1, Inductive, PTL

(* One call at a time runs in a context, and the single-instance TAs run on *)
(* one thread, whose calls in them are counted (tee_ta_try_set_busy,        *)
(* tee_ta_clear_busy).                                                      *)
THEOREM Excluded == Spec => []Exclusive
<1>1. IInv => Exclusive
  <2> SUFFICES ASSUME IInv PROVE Exclusive
    OBVIOUS
  <2>1. ASSUME NEW x \in Ctxs
        PROVE  Cardinality({p \in Frames : F(p).x = x /\ F(p).held})
                 = IF ctx[x].busy THEN 1 ELSE 0
    <3>1. PICK S : S = {p \in Frames : F(p).x = x /\ F(p).held}
      OBVIOUS
    <3>2. BusyInv(x)
      BY DEF IInv
    <3>3. \A p, q \in S : p = q
      BY <3>1, <3>2 DEF BusyInv, In
    <3>4. ctx[x].busy <=> S # {}
      BY <3>1, <3>2 DEF BusyInv, In
    <3>5. CASE ctx[x].busy
      <4>1. PICK p : p \in S
        BY <3>4, <3>5
      <4>2. S = {p}
        BY <3>3, <4>1
      <4>3. Cardinality(S) = 1
        BY <4>2, FS_Singleton
      <4> QED BY <3>1, <3>5, <4>3
    <3>6. CASE ~ctx[x].busy
      <4>1. Cardinality(S) = 0
        BY <3>4, <3>6, FS_EmptySet
      <4> QED BY <3>1, <3>6, <4>1
    <3> QED BY <3>5, <3>6
  <2>2. /\ \A p \in Single : p[1] = si_thread
        /\ si_count = Cardinality(Single)
        /\ si_thread = NoThread <=> si_count = 0
    BY DEF IInv, SingleInv
  <2>3. Single = {p \in Frames : F(p).held /\ Has(F(p).x, "SINGLE_INSTANCE")}
    BY DEF Single
  <2> QED BY <2>1, <2>2, <2>3 DEF Exclusive
<1> QED BY <1>1, Inductive, PTL

(* A context that is gone owns no session (release_utc_state closed them).  *)
THEOREM NothingOwned == Spec => []GoneOwnsNothing
<1>1. IInv => GoneOwnsNothing
  BY DEF IInv, CtxInv, GoneOwnsNothing
<1> QED BY <1>1, Inductive, PTL

(* The steps that leave the TA of every context there is. *)
LEMMA KeepsTa ==
  ASSUME IInv, NEW t \in Threads, NEW x \in Ctxs, ctx[x].ta # NoTa,
         \/ Step(t) \/ Entry(t) \/ TaCall(t) \/ TaReturn(t) \/ TaPanic(t), ~Destroy(t)
  PROVE  ctx'[x].ta = ctx[x].ta
<1>1. Types /\ ctx \in [Ctxs -> CtxSet]
  BY DEF IInv, Types
<1>2. CASE ctx' = ctx
  BY <1>2
<1>3. CASE InitSession(t) \/ FindAgain(t)
  <2>1. CASE ctx' = ctx
    BY <2>1
  <2>2. PICK f : (f.ta \in Tas /\ FindContext(t, f)) \/ ctx' = ctx
    <3>1. stack[t] # << >> /\ Top(t).pc \in {"init", "find"}
      BY <1>3 DEF InitSession, FindAgain, At
    <3>2. Top(t) \in FrameSet /\ Shape(Top(t))
      BY <3>1, TopFacts
    <3>3. Top(t).ta \in Tas
      BY <3>1, <3>2 DEF Shape
    <3>4. CASE FindAgain(t)
      BY <3>3, <3>4 DEF FindAgain
    <3>5. CASE InitSession(t)
      <4>1. PICK k : FindContext(t, [Top(t) EXCEPT !.key = k]) \/ ctx' = ctx
        BY <3>5 DEF InitSession
      <4>2. PICK f : f = [Top(t) EXCEPT !.key = k]
        OBVIOUS
      <4>3. f.ta = Top(t).ta
        BY <3>2, <4>2 DEF FrameSet
      <4> QED BY <3>3, <4>1, <4>2, <4>3
    <3> QED BY <1>3, <3>4, <3>5
  <2>3. CASE f.ta \in Tas /\ FindContext(t, f)
    <3>1. CASE NewContext(t, f)
      <4>1. CASE ctx' = ctx
        BY <4>1
      <4>2. CASE \E y \in Ctxs, r \in CtxSet : ctx[y].ta = NoTa /\ ctx' = [ctx EXCEPT ![y] = r]
        BY <1>1, <4>2
      <4> QED BY <1>1, <2>3, <3>1, <4>1, <4>2, NewContextIs
    <3>2. CASE \E y : ctx' = [ctx EXCEPT ![y].ref_count = @ + 1]
      <4>1. PICK y : ctx' = [ctx EXCEPT ![y].ref_count = @ + 1]
        BY <3>2
      <4> QED BY <1>1, <4>1 DEF CtxSet
    <3>3. CASE ctx' = ctx
      BY <3>3
    <3> QED BY <2>3, <3>1, <3>2, <3>3 DEF FindContext
  <2> QED BY <2>1, <2>2, <2>3
<1>4. CASE LoadDone(t)
  BY <1>1, <1>4 DEF LoadDone, CtxSet
<1>5. CASE SetBusy(t)
  <2>1. CASE ctx' = [ctx EXCEPT ![Top(t).x].busy = TRUE]
    BY <1>1, <2>1 DEF CtxSet
  <2> QED BY <1>2, <1>5, <2>1 DEF SetBusy
<1>6. CASE ClearBusy(t)
  BY <1>1, <1>6 DEF ClearBusy, CtxSet
<1>7. CASE Release(t)
  <2>1. CASE ctx' = [ctx EXCEPT ![Top(t).x].is_releasing = TRUE]
    BY <1>1, <2>1 DEF CtxSet
  <2> QED BY <1>2, <1>7, <2>1 DEF Release
<1>8. CASE Drop(t)
  BY <1>1, <1>8 DEF Drop, CtxSet
<1>9. CASE TaReturn(t)
  BY <1>1, <1>9 DEF TaReturn, CtxSet
<1>10. CASE TaPanic(t)
  BY <1>1, <1>10 DEF TaPanic, CtxSet
<1>11. CASE GetSession(t) \/ LockSession(t) \/ PutSession(t) \/ UnlinkSession(t) \/ UnlinkWoken(t)
  BY <1>2, <1>11 DEF GetSession, LockSession, PutSession, UnlinkSession, UnlinkWoken
<1>12. CASE InitFails(t) \/ ReleaseState(t) \/ CloseSession(t) \/ TaCall(t)
  BY <1>2, <1>12 DEF InitFails, ReleaseState, CloseSession, TaCall
<1>13. CASE Entry(t)
  BY <1>2, <1>13 DEF Entry, EntryOpenSession, EntryInvokeCommand, EntryCloseSession, EntryCancel
<1> QED BY <1>3, <1>4, <1>5, <1>6, <1>7, <1>8, <1>9, <1>10, <1>11, <1>12, <1>13 DEF Step

(* A keep-alive instance goes only after a panic, and a keep-crashed one    *)
(* never does, unless it did not load (close_session, maybe_release_ta_ctx, *)
(* tee_ta_complete_user_ta_session).                                        *)
THEOREM StaysAlive == Spec => KeptAlive
<1>1. IInv /\ [Next]_vars =>
        [\A x \in Ctxs :
           ctx[x].ta # NoTa /\ KeepAlive(x) /\ ctx'[x].ta = NoTa =>
               \/ ctx[x].is_initializing
               \/ ctx[x].panicked /\ ~KeepCrashed(x)]_vars
  <2> SUFFICES ASSUME IInv, Next, NEW x \in Ctxs, ctx[x].ta # NoTa, KeepAlive(x), ctx'[x].ta = NoTa
               PROVE  \/ ctx[x].is_initializing
                      \/ ctx[x].panicked /\ ~KeepCrashed(x)
    OBVIOUS
  <2>1. PICK t \in Threads : \/ Step(t) \/ Entry(t) \/ LoadFails(t)
                             \/ TaCall(t) \/ TaReturn(t) \/ TaPanic(t)
    BY DEF Next
  <2>2. ctx \in [Ctxs -> CtxSet]
    BY DEF IInv, Types
  <2>3. PICK p : p = <<t, Len(stack[t])>>
    OBVIOUS
  <2>4. CASE LoadFails(t)
    <3>1. stack[t] # << >> /\ Top(t).pc = "load"
      BY <2>4 DEF LoadFails, At
    <3>2. F(p) = Top(t) /\ p \in Frames
      BY <2>3, <3>1, TopFacts
    <3>3. ctx' = [ctx EXCEPT ![Top(t).x] = NoCtx]
      BY <2>4 DEF LoadFails
    <3>4. F(p).x = x
      BY <2>2, <3>2, <3>3
    <3> QED BY <3>1, <3>2, <3>4, LoadAlone
  <2>5. CASE Destroy(t)
    <3>1. stack[t] # << >> /\ Top(t).pc = "destroy"
      BY <2>5 DEF Destroy, At
    <3>2. F(p) = Top(t) /\ p \in Frames
      BY <2>3, <3>1, TopFacts
    <3>3. ctx' = [ctx EXCEPT ![Top(t).x] = NoCtx]
      BY <2>5 DEF Destroy
    <3>4. F(p).x = x
      BY <2>2, <3>2, <3>3
    <3>5. p \in In(x)
      BY <3>2, <3>4 DEF In
    <3> QED BY <3>1, <3>2, <3>5 DEF IInv, CtxInv
  <2>6. CASE ~LoadFails(t) /\ ~Destroy(t)
    BY <2>1, <2>6, KeepsTa
  <2> QED BY <2>4, <2>5, <2>6
<1> QED BY <1>1, Inductive, PTL DEF Spec, KeptAlive


----------------------------------------------------------------------------
(* The queue of sleepers. *)

(* A recursion over a bounded range has a solution. *)
Recursion(f, n, S, b, step) ==
  /\ f \in [0 .. n -> S] /\ f[0] = b
  /\ \A i \in 1 .. n : f[i] = step[<<i, f[i - 1]>>]
StepsIn(n, S, step) == step \in [(1 .. n) \X S -> S]

LEMMA RecursionSolved ==
  ASSUME NEW N \in Nat, NEW S, NEW b \in S, NEW step, StepsIn(N, S, step)
  PROVE  \E f : Recursion(f, N, S, b, step)
<1> USE DEF StepsIn
<1> DEFINE Solves(f, n) == /\ f \in [0 .. n -> S] /\ f[0] = b
                           /\ \A i \in 1 .. n : f[i] = step[<<i, f[i - 1]>>]
           Bad == {n \in 0 .. N : ~\E f : Solves(f, n)}
<1>1. Bad = {}
  <2> SUFFICES ASSUME Bad # {} PROVE FALSE
    OBVIOUS
  <2>1. PICK n \in Bad : \A m \in Bad : n <= m
    <3>1. Bad \in SUBSET Nat
      OBVIOUS
    <3> HIDE DEF Bad
    <3> QED BY <3>1, LeastExists
  <2>2. n \in 0 .. N /\ ~\E f : Solves(f, n)
    OBVIOUS
  <2>3. n # 0
    <3>1. PICK f : f = [i \in 0 .. 0 |-> b]
      OBVIOUS
    <3>2. Solves(f, 0)
      BY <3>1
    <3> QED BY <2>2, <3>2
  <2>4. n - 1 \in 0 .. N /\ n - 1 \notin Bad /\ n \in 1 .. N
    <3> HIDE DEF Bad
    <3> QED BY <2>1, <2>2, <2>3
  <2>5. PICK f : Solves(f, n - 1)
    <3> HIDE DEF Solves
    <3> QED BY <2>4
  <2>6. PICK g : g = [i \in 0 .. n |-> IF i = n THEN step[<<n, f[n - 1]>>] ELSE f[i]]
    OBVIOUS
  <2>7. f[n - 1] \in S
    BY <2>4, <2>5
  <2>8. step[<<n, f[n - 1]>>] \in S
    BY <2>4, <2>7
  <2>9. g \in [0 .. n -> S]
    BY <2>4, <2>5, <2>6, <2>8
  <2>10. g[0] = b
    BY <2>3, <2>4, <2>5, <2>6
  <2>11. ASSUME NEW i \in 1 .. n PROVE g[i] = step[<<i, g[i - 1]>>]
    <3>1. g[i - 1] = f[i - 1]
      BY <2>4, <2>6
    <3>2. CASE i = n
      <4>1. g[n] = step[<<n, f[n - 1]>>]
        BY <2>4, <2>6
      <4> QED BY <3>1, <3>2, <4>1
    <3>3. CASE i # n
      <4>1. i \in 1 .. n - 1 /\ g[i] = f[i]
        BY <2>4, <2>6, <3>3
      <4> QED BY <2>5, <3>1, <4>1
    <3> QED BY <3>2, <3>3
  <2>12. Solves(g, n)
    BY <2>9, <2>10, <2>11
  <2> QED BY <2>2, <2>12
<1>2. \E f : Solves(f, N)
  <2> HIDE DEF Solves
  <2> QED BY <1>1
<1> QED BY <1>2 DEF Recursion

(* Who is on the queue is on it once. *)
OneEach(q) == \A d, e \in Elements(q) : d.thread = e.thread => d = e

(* condvar_broadcast wakes those who wait for cv and no others. *)
LEMMA BroadcastEffect ==
  ASSUME NEW S, NEW q \in Seq(S), NoRepeats(q), NEW cv
  PROVE  /\ Broadcast(q, cv) \in Seq(S) /\ NoRepeats(Broadcast(q, cv))
         /\ \A d : d \in Elements(Broadcast(q, cv)) <=> d \in Elements(q) /\ d.cv # cv
<1> DEFINE N == Len(q)
           Turn(i, r) == IF q[i].cv = cv THEN r ELSE Append(r, q[i])
           Kept(f) == [i \in 0 .. N |-> IF i = 0 THEN << >>
                         ELSE IF q[i].cv = cv THEN f[i - 1] ELSE Append(f[i - 1], q[i])]
<1>1. N \in Nat /\ \A i \in 1 .. N : q[i] \in S
  OBVIOUS
<1>2. PICK kept : kept = CHOOSE f : f = Kept(f)
  OBVIOUS
<1>3. Broadcast(q, cv) = kept[N]
  BY <1>2 DEF Broadcast
<1>4. \E f : f = Kept(f)
  <2>1. PICK step : step = [p \in (1 .. N) \X Seq(S) |-> Turn(p[1], p[2])]
    OBVIOUS
  <2>2. ASSUME NEW i \in 1 .. N, NEW r \in Seq(S) PROVE Turn(i, r) \in Seq(S)
    BY <1>1
  <2>3. step \in [(1 .. N) \X Seq(S) -> Seq(S)]
    <3> HIDE DEF Turn, N
    <3> QED BY <2>1, <2>2
  <2>4. << >> \in Seq(S)
    OBVIOUS
  <2>5. PICK f \in [0 .. N -> Seq(S)] :
           f[0] = << >> /\ \A i \in 1 .. N : f[i] = step[<<i, f[i - 1]>>]
    <3>1. StepsIn(N, Seq(S), step)
      BY <2>3 DEF StepsIn
    <3>2. PICK T, b : T = Seq(S) /\ b = << >>
      OBVIOUS
    <3> HIDE DEF Turn, N, Kept
    <3>3. \E f : Recursion(f, N, T, b, step)
      BY <1>1, <2>4, <3>1, <3>2, RecursionSolved
    <3> QED BY <3>2, <3>3 DEF Recursion
  <2>6. ASSUME NEW i \in 1 .. N PROVE f[i] = Turn(i, f[i - 1])
    <3>1. f[i - 1] \in Seq(S)
      BY <1>1, <2>5
    <3>2. <<i, f[i - 1]>> \in (1 .. N) \X Seq(S)
      BY <3>1
    <3> HIDE DEF Turn, N
    <3> QED BY <2>1, <2>5, <3>2
  <2>7. ASSUME NEW i \in 0 .. N PROVE f[i] = Kept(f)[i]
    <3>1. CASE i = 0
      BY <2>5, <3>1
    <3>2. CASE i \in 1 .. N
      <4>1. i # 0 /\ f[i] = Turn(i, f[i - 1])
        <5> HIDE DEF Turn
        <5> QED BY <1>1, <2>6, <3>2
      <4>2. Kept(f)[i] = Turn(i, f[i - 1])
        BY <4>1
      <4> QED BY <4>1, <4>2
    <3> QED BY <1>1, <3>1, <3>2
  <2>8. f = Kept(f)
    BY <2>5, <2>7
  <2> QED BY <2>8
<1>5. kept = Kept(kept)
  <2> HIDE DEF Kept
  <2> QED BY <1>2, <1>4
<1>6. /\ kept[0] = << >>
      /\ \A i \in 1 .. N : kept[i] = Turn(i, kept[i - 1])
  <2>1. \A i \in 0 .. N : kept[i] = Kept(kept)[i]
    BY <1>5
  <2> QED BY <1>1, <2>1
<1> DEFINE Good(n) == /\ kept[n] \in Seq(S) /\ NoRepeats(kept[n])
                      /\ \A d : d \in Elements(kept[n]) <=>
                                  \E i \in 1 .. n : d = q[i] /\ q[i].cv # cv
           Bad == {n \in 0 .. N : ~Good(n)}
<1>7. Bad = {}
  <2> SUFFICES ASSUME Bad # {} PROVE FALSE
    OBVIOUS
  <2>1. PICK n \in Bad : \A m \in Bad : n <= m
    <3>1. Bad \in SUBSET Nat
      BY <1>1
    <3> HIDE DEF Bad
    <3> QED BY <3>1, LeastExists
  <2>2. n # 0
    <3>1. Elements(<< >>) = {} /\ NoRepeats(<< >>)
      BY DEF Elements, NoRepeats
    <3>2. Good(0)
      BY <1>6, <3>1
    <3> QED BY <3>2
  <2>3. n \in 1 .. N /\ n - 1 \in 0 .. N /\ n - 1 \notin Bad
    <3>1. n \in 0 .. N
      OBVIOUS
    <3> HIDE DEF Bad
    <3> QED BY <1>1, <2>1, <2>2, <3>1
  <2>4. Good(n - 1)
    <3> HIDE DEF Good
    <3> QED BY <2>3
  <2>5. kept[n] = Turn(n, kept[n - 1])
    BY <1>6, <2>3
  <2>6. \A i : i \in 1 .. n <=> i \in 1 .. n - 1 \/ i = n
    BY <1>1, <2>3
  <2>7. CASE q[n].cv = cv
    <3>1. Good(n)
      BY <2>4, <2>5, <2>6, <2>7
    <3> QED BY <3>1
  <2>8. CASE q[n].cv # cv
    <3>1. q[n] \notin Elements(kept[n - 1])
      <4>1. \A i \in 1 .. n - 1 : q[i] # q[n]
        BY <1>1, <2>3 DEF NoRepeats
      <4> QED BY <2>4, <4>1
    <3>2. PICK r \in Seq(S) : r = kept[n - 1] /\ NoRepeats(r)
      BY <2>4
    <3>3. q[n] \in S
      BY <1>1, <2>3
    <3>4. /\ kept[n] \in Seq(S) /\ NoRepeats(kept[n])
          /\ \A d : d \in Elements(kept[n]) <=> d \in Elements(r) \/ d = q[n]
      BY <2>5, <2>8, <3>1, <3>2, <3>3, AppendEffect
    <3>5. ASSUME NEW d PROVE d \in Elements(kept[n]) <=>
                                  \E i \in 1 .. n : d = q[i] /\ q[i].cv # cv
      BY <2>4, <2>6, <2>8, <3>2, <3>4
    <3>6. Good(n)
      BY <3>4, <3>5
    <3> QED BY <3>6
  <2> QED BY <2>7, <2>8
<1>8. Good(N)
  <2> HIDE DEF Good
  <2> QED BY <1>1, <1>7
<1>9. ASSUME NEW d PROVE d \in Elements(kept[N]) <=> d \in Elements(q) /\ d.cv # cv
  <2>1. d \in Elements(q) <=> \E i \in 1 .. N : d = q[i]
    BY DEF Elements
  <2> HIDE DEF N
  <2> QED BY <1>8, <2>1
<1> QED BY <1>3, <1>8, <1>9

(* condvar_signal wakes the first of those who wait for cv. *)
LEMMA SignalEffect ==
  ASSUME NEW S, NEW q \in Seq(S), NoRepeats(q), NEW cv
  PROVE  /\ Signal(q, cv) \in Seq(S) /\ NoRepeats(Signal(q, cv))
         /\ (\A e \in Elements(q) : e.cv # cv) => Signal(q, cv) = q
         /\ (\E e \in Elements(q) : e.cv = cv) =>
               \E e \in Elements(q) : /\ e.cv = cv
                                      /\ \A d : d \in Elements(Signal(q, cv)) <=>
                                                  d \in Elements(q) /\ d # e
<1>1. CASE Waiters(q, cv) = {}
  <2>1. \A e \in Elements(q) : e.cv # cv
    BY <1>1 DEF Waiters, Elements
  <2> QED BY <1>1, <2>1 DEF Signal
<1>2. CASE Waiters(q, cv) # {}
  <2>1. Waiters(q, cv) \in SUBSET Nat
    BY DEF Waiters
  <2>2. \E i \in Waiters(q, cv) : \A j \in Waiters(q, cv) : i <= j
    BY <1>2, <2>1, LeastExists
  <2>3. PICK i \in Waiters(q, cv) :
           Signal(q, cv) = SubSeq(q, 1, i - 1) \o SubSeq(q, i + 1, Len(q))
    BY <1>2, <2>2 DEF Signal
  <2>4. i \in 1 .. Len(q) /\ q[i].cv = cv /\ q[i] \in Elements(q)
    BY DEF Waiters, Elements
  <2>5. i = CHOOSE j \in 1 .. Len(q) : q[j] = q[i]
    BY <2>4 DEF NoRepeats
  <2>6. Without(q, q[i]) = Signal(q, cv)
    BY <2>3, <2>4, <2>5 DEF Without
  <2> QED BY <2>4, <2>6, WithoutEffect
<1> QED BY <1>1, <1>2

----------------------------------------------------------------------------
(* Who sleeps, where, and who will wake it. *)
Cvs == {"single_instance", "init", "busy", "lock", "refc"} \X Lists \X (Ids \cup {0})
Sleepers == [thread : Threads, cv : Cvs]
OnCv(cv) == {e \in Elements(wq) : e.cv = cv}

(* The frame of a sleeper is at the step that waits for what it waits for;  *)
(* nobody waits for a busy flag: see NoneBusy.                              *)
Dozes(e) ==
  /\ stack[e.thread] # << >>
  /\ \/ e.cv = SiCv /\ Top(e.thread).pc = "busy" /\ Has(Top(e.thread).x, "SINGLE_INSTANCE")
     \/ e.cv = InitCv /\ Top(e.thread).pc = "find"
     \/ e.cv = LockCv(Top(e.thread).key) /\ Top(e.thread).pc = "lock"
     \/ e.cv = RefcCv(Top(e.thread).key) /\ Top(e.thread).pc = "unlinking"

QueueInv ==
  /\ wq \in Seq(Sleepers) /\ NoRepeats(wq) /\ OneEach(wq)
  /\ \A e \in Elements(wq) : Dozes(e)

(* The single-instance lock is not free while threads sleep for it, unless  *)
(* one is awake to take it.                                                 *)
ReadySingle(u) == Awake(u) /\ At(u, "busy") /\ Has(Top(u).x, "SINGLE_INSTANCE")
SiWake == OnCv(SiCv) # {} /\ si_thread = NoThread => \E u \in Threads : ReadySingle(u)
SiOthers == \A e \in OnCv(SiCv) : e.thread # si_thread

(* So it is with a session, which is not going either.                      *)
ReadyLock(u, k) == Awake(u) /\ At(u, "lock") /\ Top(u).key = k
LockWake(k) ==
  OnCv(LockCv(k)) # {} =>
    /\ ~sess[k].unlink
    /\ sess[k].lock_thread = NoThread => \E u \in Threads : ReadyLock(u, k)

(* Who waits to free a session has marked it, and is not its only user.     *)
RefcWake(k) == OnCv(RefcCv(k)) # {} => sess[k].ref_count >= 2
UnlinkMarked == \A p \in Frames : F(p).pc = "unlinking" => sess[F(p).key].unlink

(* Who waits for a TA to be loaded waits for a thread that loads it.        *)
InitWake ==
  \A e \in OnCv(InitCv) : \E p \in Frames : F(p).pc = "load" /\ F(p).ta = Top(e.thread).ta
LoadInv ==
  /\ \A p \in Frames : F(p).pc = "load" => ctx[F(p).x].ta = F(p).ta
  /\ \A x \in Ctxs : ctx[x].is_initializing => \E p \in In(x) : F(p).pc = "load"

(* A multi-instance TA has one session per instance.                        *)
MultiInv ==
  \A x \in Ctxs : ctx[x].ta # NoTa /\ ~Has(x, "SINGLE_INSTANCE") => ctx[x].ref_count <= 1

WInv ==
  /\ QueueInv /\ SiWake /\ SiOthers /\ InitWake /\ UnlinkMarked
  /\ \A k \in Keys : LockWake(k) /\ RefcWake(k)
  /\ LoadInv /\ MultiInv

----------------------------------------------------------------------------
(* Acts(t): a step of thread t. *)
Acts(t) == \/ Step(t) \/ Entry(t) \/ LoadFails(t) \/ TaCall(t) \/ TaReturn(t) \/ TaPanic(t)

(* A step works on the top of one stack. *)
LEMMA Shifts ==
  ASSUME NEW t \in Threads, Acts(t)
  PROVE  \/ stack' = stack
         \/ stack[t] # << >> /\ \E g : Become(t, g)
         \/ \E g : Push(t, g)
         \/ stack[t] # << >> /\ Return(t)
<1>1. CASE stack[t] # << >> /\ \E f : FindContext(t, f)
  BY <1>1 DEF FindContext, NewContext
<1>2. CASE InitSession(t) \/ FindAgain(t)
  BY <1>1, <1>2 DEF InitSession, FindAgain, At
<1>3. CASE GetSession(t) \/ LockSession(t) \/ PutSession(t)
  BY <1>3 DEF GetSession, LockSession, PutSession, At, Goto
<1>4. CASE UnlinkSession(t) \/ UnlinkWoken(t) \/ InitFails(t)
  BY <1>4 DEF UnlinkSession, UnlinkWoken, InitFails, FreeSession, At, Goto
<1>5. CASE SetBusy(t)
  BY <1>5 DEF SetBusy, Entered, Refused, At
<1>6. CASE LoadDone(t) \/ LoadFails(t) \/ Release(t) \/ ReleaseState(t) \/ ClearBusy(t)
  BY <1>6 DEF LoadDone, LoadFails, Release, ReleaseState, ClearBusy, CloseFirst, At, Goto
<1>7. CASE CloseSession(t) \/ Drop(t) \/ Destroy(t)
  BY <1>7 DEF CloseSession, Drop, Destroy, CloseFirst, At, Goto
<1>8. CASE Entry(t)
  BY <1>8 DEF Entry, EntryOpenSession, EntryInvokeCommand, EntryCloseSession, EntryCancel
<1>9. CASE TaCall(t) \/ TaReturn(t) \/ TaPanic(t)
  BY <1>9 DEF TaCall, TaReturn, TaPanic, At
<1> QED BY <1>2, <1>3, <1>4, <1>5, <1>6, <1>7, <1>8, <1>9 DEF Acts, Step

LEMMA Local ==
  ASSUME IInv, IInv', NEW t \in Threads, Acts(t)
  PROVE  /\ \A u \in Threads : u # t => stack'[u] = stack[u]
         /\ \E p : /\ p[1] = t /\ Moves(p)
                   /\ p \in Frames => p = <<t, Len(stack[t])>> /\ stack[t] # << >>
<1>1. Types /\ Types'
  BY DEF IInv
<1>2. stack \in [Threads -> Seq(FrameSet)] /\ stack' \in [Threads -> Seq(FrameSet)]
  BY <1>1 DEF Types
<1>3. CASE stack' = stack
  <2>1. PICK p : p = <<t, 0>>
    OBVIOUS
  <2>2. Frames' = Frames /\ \A q : F(q)' = F(q)
    BY <1>3 DEF Frames, F
  <2>3. p \notin Frames
    BY <2>1, FrameIs
  <2>4. p[1] = t /\ Moves(p)
    BY <2>1, <2>2 DEF Moves
  <2> QED BY <1>3, <2>3, <2>4
<1>4. CASE stack[t] # << >> /\ \E g : Become(t, g)
  <2>1. PICK g : Become(t, g)
    BY <1>4
  <2>2. g \in FrameSet
    <3>1. PICK s \in Seq(FrameSet) : s = stack[t]
      BY <1>2
    <3>2. PICK n \in Nat : n = Len(s) /\ n \in 1 .. n
      BY <1>4, <3>1
    <3>3. PICK r : r = [s EXCEPT ![n] = g]
      OBVIOUS
    <3>4. stack'[t] = r /\ r[n] = g /\ DOMAIN r = 1 .. n
      BY <1>2, <2>1, <3>1, <3>2, <3>3 DEF Become
    <3>5. PICK r2 \in Seq(FrameSet) : r2 = stack'[t]
      BY <1>2
    <3>6. DOMAIN r2 = 1 .. Len(r2) /\ \A i \in DOMAIN r2 : r2[i] \in FrameSet
      OBVIOUS
    <3> QED BY <3>2, <3>4, <3>5, <3>6
  <2>3. \A u \in Threads : u # t => stack'[u] = stack[u]
    BY <1>2, <2>1 DEF Become
  <2>4. PICK p : p = <<t, Len(stack[t])>>
    OBVIOUS
  <2>5. p[1] = t /\ Moves(p)
    BY <1>1, <1>4, <2>1, <2>2, <2>4, BecomeEffect
  <2> QED BY <1>4, <2>3, <2>4, <2>5
<1>5. CASE \E g : Push(t, g)
  <2>1. PICK g : Push(t, g)
    BY <1>5
  <2>2. g \in FrameSet
    <3>1. PICK s \in Seq(FrameSet) : s = stack[t]
      BY <1>2
    <3>2. stack'[t] = Append(s, g)
      BY <1>2, <2>1, <3>1 DEF Push
    <3>3. PICK r \in Seq(FrameSet) : r = Append(s, g)
      BY <1>2, <3>2
    <3>4. Len(s) \in Nat /\ DOMAIN s = 1 .. Len(s)
      OBVIOUS
    <3>5. PICK T : T = FrameSet \cup {g}
      OBVIOUS
    <3>6. s \in Seq(T) /\ g \in T
      BY <3>5
    <3>7. Len(r) = Len(s) + 1 /\ r[Len(s) + 1] = g
      BY <3>3, <3>6
    <3>8. Len(s) + 1 \in 1 .. Len(r)
      BY <3>4, <3>7
    <3> QED BY <3>3, <3>7, <3>8
  <2>3. \A u \in Threads : u # t => stack'[u] = stack[u]
    BY <1>2, <2>1 DEF Push
  <2>4. PICK p : p = <<t, Len(stack[t]) + 1>>
    OBVIOUS
  <2>5. p[1] = t /\ Moves(p) /\ p \notin Frames
    BY <1>1, <2>1, <2>2, <2>4, PushEffect
  <2> QED BY <2>3, <2>5
<1>6. CASE stack[t] # << >> /\ Return(t)
  <2>1. PICK p : p = <<t, Len(stack[t])>>
    OBVIOUS
  <2> QED BY <1>1, <1>6, <2>1, ReturnEffect
<1> QED BY <1>3, <1>4, <1>5, <1>6, Shifts

(* A context that stays has the same TA. *)
LEMMA TaConst ==
  ASSUME IInv, NEW t \in Threads, Acts(t), NEW x \in Ctxs,
         ctx[x].ta # NoTa, ctx'[x].ta # NoTa
  PROVE  ctx'[x].ta = ctx[x].ta
<1>1. ctx \in [Ctxs -> CtxSet] /\ NoCtx.ta = NoTa
  BY DEF IInv, Types, NoCtx
<1>2. CASE LoadFails(t)
  <2>1. ctx' = [ctx EXCEPT ![Top(t).x] = NoCtx]
    BY <1>2 DEF LoadFails
  <2> QED BY <1>1, <2>1
<1>3. CASE Destroy(t)
  <2>1. CASE ctx' = [ctx EXCEPT ![Top(t).x] = NoCtx]
    BY <1>1, <2>1
  <2> QED BY <1>3, <2>1 DEF Destroy
<1>4. CASE ~LoadFails(t) /\ ~Destroy(t)
  BY <1>4, KeepsTa DEF Acts
<1> QED BY <1>2, <1>3, <1>4

(* What another thread is doing stays. *)
LEMMA TopStays ==
  ASSUME IInv, IInv', NEW t \in Threads, Acts(t), NEW u \in Threads, u # t, stack[u] # << >>
  PROVE  /\ stack'[u] # << >> /\ Top(u)' = Top(u)
         /\ Top(u).x # 0 => Top(u).x \in Ctxs /\ ctx'[Top(u).x].ta = ctx[Top(u).x].ta
<1>1. stack'[u] = stack[u]
  BY Local
<1>2. Top(u)' = Top(u)
  BY <1>1 DEF Top
<1>3. PICK p : p = <<u, Len(stack[u])>>
  OBVIOUS
<1>4. /\ p \in Frames /\ F(p) = Top(u) /\ (F(p).x # 0 => F(p).x \in Ctxs)
      /\ Len(stack[u]) \in 1 .. Len(stack[u])
  <2>1. Len(stack[u]) \in 1 .. Len(stack[u])
    BY DEF IInv, Types
  <2> QED BY <1>3, <2>1, TopFacts
<1>5. p \in Frames' /\ F(p)' = F(p)
  BY <1>1, <1>3, <1>4 DEF Frames, F
<1>6. F(p).x # 0 => ctx[F(p).x].ta # NoTa /\ ctx'[F(p).x].ta # NoTa
  BY <1>4, <1>5, NotFreed, NotFreedNext DEF NoUseAfterFree
<1> QED BY <1>1, <1>2, <1>4, <1>6, TaConst

(* The threads asleep, and those awake. *)
LEMMA AwakeIs ==
  ASSUME NEW t
  PROVE  Awake(t) <=> \A e \in Elements(wq) : e.thread # t
BY DEF Awake, Elements

LEMMA AwakeNext ==
  ASSUME NEW t
  PROVE  Awake(t)' <=> \A e \in Elements(wq') : e.thread # t
BY DEF Awake, Elements

LEMMA Wakeful ==
  ASSUME QueueInv, NEW t \in Threads,
         stack[t] = << >> \/ Top(t).pc \notin {"busy", "find", "lock", "unlinking"}
  PROVE  Awake(t)
BY AwakeIs DEF QueueInv, Dozes

LEMMA Steps ==
  ASSUME QueueInv, NEW t \in Threads, Acts(t)
  PROVE  Awake(t)
<1>1. CASE LockSession(t) \/ UnlinkWoken(t) \/ FindAgain(t) \/ SetBusy(t)
  BY <1>1 DEF LockSession, UnlinkWoken, FindAgain, SetBusy
<1>2. CASE \/ GetSession(t) \/ PutSession(t) \/ UnlinkSession(t) \/ InitSession(t)
           \/ LoadDone(t) \/ InitFails(t)
  BY <1>2, Wakeful DEF GetSession, PutSession, UnlinkSession, InitSession, LoadDone,
                       InitFails, At
<1>3. CASE \/ Release(t) \/ ReleaseState(t) \/ ClearBusy(t) \/ CloseSession(t) \/ Drop(t)
           \/ Destroy(t)
  BY <1>3, Wakeful DEF Release, ReleaseState, ClearBusy, CloseSession, Drop, Destroy, At
<1>4. CASE Entry(t)
  BY <1>4, Wakeful DEF Entry, EntryOpenSession, EntryInvokeCommand, EntryCloseSession, EntryCancel
<1>5. CASE LoadFails(t) \/ TaCall(t) \/ TaReturn(t) \/ TaPanic(t)
  BY <1>5, Wakeful DEF LoadFails, TaCall, TaReturn, TaPanic, At
<1> QED BY <1>1, <1>2, <1>3, <1>4, <1>5 DEF Acts, Step

(* The condition variables are different ones. *)
LEMMA CvFacts ==
  /\ SiCv \in Cvs /\ InitCv \in Cvs /\ SiCv # InitCv
  /\ \A k \in Keys : /\ LockCv(k) \in Cvs /\ RefcCv(k) \in Cvs
                     /\ LockCv(k) \notin {SiCv, InitCv} /\ RefcCv(k) \notin {SiCv, InitCv}
  /\ \A k, j \in Keys : /\ LockCv(k) # RefcCv(j)
                        /\ LockCv(k) = LockCv(j) => k = j
                        /\ RefcCv(k) = RefcCv(j) => k = j
  /\ \A x : BusyCv(x) \notin {SiCv, InitCv}
  /\ \A x : \A k \in Keys : BusyCv(x) \notin {LockCv(k), RefcCv(k)}
BY ManagerAssumption DEF SiCv, InitCv, LockCv, RefcCv, BusyCv, Cvs, Keys, Lists, Ids

(* A multi-instance TA that a thread is about to enter is not busy: its     *)
(* only session is locked by that thread.                                   *)
LEMMA NoneBusy ==
  ASSUME IInv, MultiInv, NEW t \in Threads, At(t, "busy"), ~Has(Top(t).x, "SINGLE_INSTANCE")
  PROVE  ~ctx[Top(t).x].busy
<1> SUFFICES ASSUME ctx[Top(t).x].busy PROVE FALSE
  OBVIOUS
<1>1. stack[t] # << >> /\ Top(t).pc = "busy"
  BY DEF At
<1>2. PICK p : p = <<t, Len(stack[t])>>
  OBVIOUS
<1>3. /\ F(p) = Top(t) /\ F(p).x # 0 /\ F(p).x \in Ctxs /\ F(p).key[2] # 0
      /\ ~F(p).held /\ p \in Frames /\ p[1] = t
  BY <1>1, <1>2, AtWork DEF InContext, Running
<1>4. PICK x \in Ctxs : x = F(p).x
  BY <1>3
<1>5. CtxInv(x) /\ BusyInv(x) /\ IsFiniteSet(Frames)
  BY DEF IInv, Types
<1>6. PICK q \in Frames : F(q).x = x /\ F(q).held
  BY <1>3, <1>4, <1>5 DEF BusyInv, In
<1>7. /\ ctx[x].ta # NoTa /\ Locks(F(p)) /\ F(p).key \in SessOf(x) /\ p \in On(F(p).key)
      /\ F(p).key \in Keys
  BY <1>3, <1>4, InUse
<1>8. /\ F(q).key[2] # 0 => Locks(F(q)) /\ F(q).key \in SessOf(x) /\ q \in On(F(q).key)
      /\ F(q).key[2] = 0 => F(q).pc = "destroy" \/ q \in Going(x)
      /\ Shape(F(q))
  BY <1>6, InUse, FrameFacts DEF IInv
<1>9. Going(x) \in SUBSET Frames /\ SessOf(x) \in SUBSET Keys
  BY DEF Going, SessOf
<1>10. /\ Cardinality(SessOf(x)) \in Nat /\ Cardinality(SessOf(x)) > 0
       /\ Cardinality(Going(x)) \in Nat
  BY <1>5, <1>7, <1>9, FiniteTable, CountPositive, FS_Subset, FS_CardinalityType
<1>11. Cardinality(SessOf(x)) + Cardinality(Going(x)) <= 1
  BY <1>3, <1>4, <1>5, <1>7 DEF CtxInv, MultiInv
<1>12. Cardinality(SessOf(x)) = 1 /\ Cardinality(Going(x)) = 0
  BY <1>10, <1>11
<1>13. CASE F(q).key[2] # 0
  <2>1. F(q).key = F(p).key
    BY <1>7, <1>8, <1>9, <1>12, <1>13, FiniteTable, CountOne
  <2>2. p = q
    BY <1>7, <1>8, <1>13, <2>1 DEF IInv, SessInv
  <2> QED BY <1>3, <1>6, <2>2
<1>14. CASE F(q).key[2] = 0
  <2>1. F(q).pc # "destroy"
    BY <1>6, <1>8 DEF Shape, Running
  <2>2. Cardinality(Going(x)) > 0
    BY <1>5, <1>8, <1>9, <1>14, <2>1, CountPositive
  <2> QED BY <1>12, <2>2
<1> QED BY <1>13, <1>14

----------------------------------------------------------------------------
(* What a step does to the queue. *)

(* q: the queue, with some of the sleepers gone.                            *)
Quieter(q) == q \in Seq(Sleepers) /\ NoRepeats(q) /\ Elements(q) \subseteq Elements(wq)

LEMMA Wakes ==
  ASSUME NEW q, Quieter(q), NEW cv
  PROVE  Quieter(Signal(q, cv)) /\ Quieter(Broadcast(q, cv))
<1>1. q \in Seq(Sleepers) /\ NoRepeats(q)
  BY DEF Quieter
<1>2. /\ Signal(q, cv) \in Seq(Sleepers) /\ NoRepeats(Signal(q, cv))
      /\ (\A e \in Elements(q) : e.cv # cv) => Signal(q, cv) = q
      /\ (\E e \in Elements(q) : e.cv = cv) =>
            \E e \in Elements(q) : /\ e.cv = cv
                                   /\ \A d : d \in Elements(Signal(q, cv)) <=>
                                               d \in Elements(q) /\ d # e
  BY <1>1, SignalEffect
<1>3. Elements(Signal(q, cv)) \subseteq Elements(q)
  BY <1>2
<1>4. /\ Broadcast(q, cv) \in Seq(Sleepers) /\ NoRepeats(Broadcast(q, cv))
      /\ \A d : d \in Elements(Broadcast(q, cv)) <=> d \in Elements(q) /\ d.cv # cv
  BY <1>1, BroadcastEffect
<1> QED BY <1>2, <1>3, <1>4 DEF Quieter

LEMMA WakesRef ==
  ASSUME NEW q, Quieter(q), NEW k
  PROVE  Quieter(DecRef(k, q))
BY Wakes DEF DecRef

(* A sleeper that stays dozes on: others have left its frame alone.         *)
LEMMA DozesOn ==
  ASSUME IInv, IInv', QueueInv, NEW t \in Threads, Acts(t), NEW e \in Elements(wq)
  PROVE  Dozes(e)' /\ e.thread # t /\ e.thread \in Threads /\ e \in Sleepers
<1>1. e \in Sleepers /\ e.thread \in Threads /\ e.cv \in Cvs
  <2>1. PICK i \in 1 .. Len(wq) : e = wq[i]
    BY DEF Elements
  <2>2. wq[i] \in Sleepers
    BY DEF QueueInv
  <2> QED BY <2>1, <2>2 DEF Sleepers
<1>2. e.thread # t
  BY Steps, AwakeIs
<1>3. Dozes(e)
  BY DEF QueueInv
<1>4. PICK u \in Threads : u = e.thread /\ u # t /\ stack[u] # << >>
  BY <1>1, <1>2, <1>3 DEF Dozes
<1>5. /\ stack'[u] # << >> /\ Top(u)' = Top(u)
      /\ Top(u).x # 0 => ctx'[Top(u).x].ta = ctx[Top(u).x].ta
  BY <1>4, TopStays
<1>6. Top(u).pc = "busy" => Top(u).x # 0
  <2>1. PICK p : p = <<u, Len(stack[u])>>
    OBVIOUS
  <2> QED BY <1>4, <2>1, TopFacts DEF Shape, InContext
<1>7. Has(Top(u).x, "SINGLE_INSTANCE") /\ Top(u).pc = "busy" =>
        "SINGLE_INSTANCE" \in Flags[ctx'[Top(u).x].ta]
  BY <1>5, <1>6 DEF Has
<1> QED BY <1>1, <1>2, <1>3, <1>4, <1>5, <1>7 DEF Dozes, Has

(* Only the thread that steps may join the queue, from the step that waits. *)
WaitsAt(t, cv) ==
  /\ cv = SiCv => At(t, "busy")
  /\ cv = InitCv => At(t, "init") \/ At(t, "find")
  /\ \A k \in Keys : cv = LockCv(k) => Top(t).pc \in {"get", "lock"} /\ Top(t).key = k
  /\ \A k \in Keys : cv = RefcCv(k) => Top(t).pc \in {"unlink", "unlinking"} /\ Top(t).key = k
Joins(t) ==
  \A e \in Elements(wq') : e \in Elements(wq) \/ (e.thread = t /\ WaitsAt(t, e.cv))

LEMMA QueueShrinks ==
  ASSUME IInv, IInv', QueueInv, NEW t \in Threads, Acts(t), Quieter(wq')
  PROVE  QueueInv' /\ Joins(t)
<1>1. wq' \in Seq(Sleepers) /\ NoRepeats(wq') /\ Elements(wq') \subseteq Elements(wq)
  BY DEF Quieter
<1>2. \A e \in Elements(wq') : Dozes(e)'
  BY <1>1, DozesOn
<1>3. OneEach(wq')
  BY <1>1 DEF QueueInv, OneEach
<1>4. Elements(wq)' = Elements(wq')
  BY DEF Elements
<1>5. NoRepeats(wq)' /\ OneEach(wq)'
  BY <1>1, <1>3 DEF NoRepeats, OneEach, Elements
<1>6. QueueInv'
  BY <1>1, <1>2, <1>4, <1>5 DEF QueueInv, Cvs, Sleepers, Lists, Ids
<1> QED BY <1>1, <1>6 DEF Joins

LEMMA QueueGrows ==
  ASSUME IInv, IInv', QueueInv, NEW t \in Threads, Acts(t), NEW q, Quieter(q),
         NEW cv \in Cvs, NEW e, e = [thread |-> t, cv |-> cv], wq' = Append(q, e), Dozes(e)',
         WaitsAt(t, cv)
  PROVE  /\ QueueInv' /\ Joins(t)
         /\ \A d : d \in Elements(wq') <=> d \in Elements(q) \/ d = e
<1>1. q \in Seq(Sleepers) /\ NoRepeats(q) /\ Elements(q) \subseteq Elements(wq)
  BY DEF Quieter
<1>2. e \in Sleepers /\ e.thread = t
  BY DEF Sleepers
<1>3. \A d \in Elements(wq) : d.thread # t
  BY DozesOn
<1>4. e \notin Elements(q)
  BY <1>1, <1>2, <1>3
<1>5. /\ wq' \in Seq(Sleepers) /\ NoRepeats(wq')
      /\ \A d : d \in Elements(wq') <=> d \in Elements(q) \/ d = e
  BY <1>1, <1>2, <1>4, AppendEffect
<1>6. \A d \in Elements(wq') : Dozes(d)'
  BY <1>1, <1>5, DozesOn
<1>7. OneEach(wq')
  BY <1>1, <1>2, <1>3, <1>5 DEF QueueInv, OneEach
<1>8. Elements(wq)' = Elements(wq')
  BY DEF Elements
<1>9. NoRepeats(wq)' /\ OneEach(wq)'
  BY <1>5, <1>7 DEF NoRepeats, OneEach, Elements
<1>10. QueueInv'
  BY <1>5, <1>6, <1>8, <1>9 DEF QueueInv, Cvs, Sleepers, Lists, Ids
<1>11. e.cv = cv
  OBVIOUS
<1> QED BY <1>1, <1>2, <1>5, <1>10, <1>11 DEF Joins

LEMMA BecomeTop ==
  ASSUME Types, Types', NEW t \in Threads, stack[t] # << >>, NEW g, Become(t, g)
  PROVE  stack'[t] # << >> /\ Top(t)' = g
<1>1. stack \in [Threads -> Seq(FrameSet)] /\ stack' \in [Threads -> Seq(FrameSet)]
  BY DEF Types
<1>2. PICK s \in Seq(FrameSet) : s = stack[t]
  BY <1>1
<1>3. PICK n \in Nat : n = Len(s) /\ n \in 1 .. n
  BY <1>2
<1>4. PICK r : r = [s EXCEPT ![n] = g]
  OBVIOUS
<1>5. stack'[t] = r /\ r[n] = g /\ DOMAIN r = 1 .. n
  BY <1>1, <1>2, <1>3, <1>4 DEF Become
<1>6. PICK r2 \in Seq(FrameSet) : r2 = stack'[t]
  BY <1>1
<1>7. DOMAIN r2 = 1 .. Len(r2) /\ Len(r2) \in Nat
  OBVIOUS
<1>8. Len(r2) = n
  BY <1>3, <1>5, <1>6, <1>7
<1> QED BY <1>3, <1>5, <1>6, <1>8 DEF Top

LEMMA FindContextQueue ==
  ASSUME IInv, IInv', QueueInv, NEW t \in Threads, Acts(t), stack[t] # << >>, NEW f \in FrameSet,
         FindContext(t, f), At(t, "init") \/ At(t, "find")
  PROVE  /\ QueueInv' /\ Joins(t)
         /\ \/ wq' = wq
            \/ /\ \A d : d \in Elements(wq') <=>
                             d \in Elements(wq) \/ d = [thread |-> t, cv |-> InitCv]
               /\ ContextOf(f.ta) # 0 /\ ctx[ContextOf(f.ta)].is_initializing
               /\ Top(t)'.ta = f.ta /\ stack'[t] # << >>
<1>1. Quieter(wq)
  BY DEF Quieter, QueueInv
<1>2. CASE wq' = wq
  BY <1>1, <1>2, QueueShrinks
<1>3. CASE wq' # wq
  <2>1. /\ Become(t, [f EXCEPT !.pc = "find"]) /\ Wait(t, InitCv)
        /\ ContextOf(f.ta) # 0 /\ ctx[ContextOf(f.ta)].is_initializing
    BY <1>3 DEF FindContext
  <2>2. PICK g : g = [f EXCEPT !.pc = "find"]
    OBVIOUS
  <2>3. g.pc = "find" /\ g.ta = f.ta
    BY <2>2 DEF FrameSet
  <2>4. stack'[t] # << >> /\ Top(t)' = g
    BY <2>1, <2>2, BecomeTop DEF IInv
  <2>5. PICK e : e = [thread |-> t, cv |-> InitCv]
    OBVIOUS
  <2>6. Dozes(e)'
    BY <2>3, <2>4, <2>5 DEF Dozes
  <2>7. InitCv \in Cvs /\ wq' = Append(wq, e) /\ WaitsAt(t, InitCv)
    BY <2>1, <2>5, CvFacts DEF Wait, WaitsAt, InitCv, SiCv, LockCv, RefcCv
  <2>8. /\ QueueInv' /\ Joins(t)
        /\ \A d : d \in Elements(wq') <=> d \in Elements(wq) \/ d = e
    BY <1>1, <2>5, <2>6, <2>7, QueueGrows
  <2> QED BY <2>1, <2>3, <2>4, <2>5, <2>8
<1> QED BY <1>2, <1>3

(* A thread that waits where it stands, or where it goes.                   *)
LEMMA QueueWaits ==
  ASSUME IInv, IInv', QueueInv, NEW t \in Threads, Acts(t), stack[t] # << >>,
         NEW q, Quieter(q), NEW cv \in Cvs, wq' = Append(q, [thread |-> t, cv |-> cv]),
         NEW g, Become(t, g) \/ (stack' = stack /\ g = Top(t)),
         \/ cv = SiCv /\ g.pc = "busy" /\ Has(g.x, "SINGLE_INSTANCE")' /\ At(t, "busy")
         \/ /\ cv = LockCv(g.key) /\ g.pc = "lock" /\ Top(t).pc \in {"get", "lock"}
            /\ g.key = Top(t).key /\ g.key \in Keys
         \/ /\ cv = RefcCv(g.key) /\ g.pc = "unlinking" /\ Top(t).pc \in {"unlink", "unlinking"}
            /\ g.key = Top(t).key /\ g.key \in Keys
  PROVE  /\ QueueInv' /\ Joins(t)
         /\ \A d : d \in Elements(wq') <=> d \in Elements(q) \/ d = [thread |-> t, cv |-> cv]
<1>1. stack'[t] # << >> /\ Top(t)' = g
  <2>1. CASE Become(t, g)
    BY <2>1, BecomeTop DEF IInv
  <2>2. CASE stack' = stack /\ g = Top(t)
    BY <2>2 DEF Top
  <2> QED BY <2>1, <2>2
<1>2. PICK e : e = [thread |-> t, cv |-> cv]
  OBVIOUS
<1>3. e.thread = t /\ e.cv = cv
  BY <1>2
<1>4. Dozes(e)'
  BY <1>1, <1>3 DEF Dozes, LockCv, RefcCv, SiCv, InitCv, Has
<1>5. wq' = Append(q, e) /\ WaitsAt(t, cv)
  BY <1>2, CvFacts DEF WaitsAt
<1> QED BY <1>2, <1>4, <1>5, QueueGrows

LEMMA GetSessionQueue ==
  ASSUME IInv, IInv', QueueInv, NEW t \in Threads, GetSession(t)
  PROVE  QueueInv' /\ Joins(t)
<1>1. Acts(t) /\ stack[t] # << >> /\ Top(t).pc = "get" /\ Quieter(wq)
  BY DEF Acts, Step, GetSession, At, QueueInv, Quieter
<1>2. CASE wq' = wq
  BY <1>1, <1>2, QueueShrinks
<1>3. CASE wq' # wq
  <2>1. Goto(t, "lock") /\ Wait(t, LockCv(Top(t).key))
    BY <1>3 DEF GetSession
  <2>2. PICK g : g = [Top(t) EXCEPT !.pc = "lock"]
    OBVIOUS
  <2>3. PICK p : p = <<t, Len(stack[t])>>
    OBVIOUS
  <2>4. Top(t) \in FrameSet /\ Top(t).key \in Keys
    BY <1>1, <2>3, TopFacts DEF Shape
  <2>5. g.pc = "lock" /\ g.key = Top(t).key /\ Become(t, g)
    BY <2>1, <2>2, <2>4 DEF FrameSet, Goto
  <2>6. LockCv(g.key) \in Cvs /\ wq' = Append(wq, [thread |-> t, cv |-> LockCv(g.key)])
    BY <2>1, <2>4, <2>5, CvFacts DEF Wait
  <2> QED BY <1>1, <2>4, <2>5, <2>6, QueueWaits
<1> QED BY <1>2, <1>3

LEMMA LockSessionQueue ==
  ASSUME IInv, IInv', QueueInv, NEW t \in Threads, LockSession(t)
  PROVE  QueueInv' /\ Joins(t)
<1>1. Acts(t) /\ stack[t] # << >> /\ Top(t).pc = "lock" /\ Quieter(wq)
  BY DEF Acts, Step, LockSession, At, QueueInv, Quieter
<1>2. CASE wq' = wq \/ wq' = DecRef(Top(t).key, wq)
  <2>1. Quieter(wq')
    BY <1>1, <1>2, WakesRef
  <2> QED BY <1>1, <2>1, QueueShrinks
<1>3. CASE ~(wq' = wq \/ wq' = DecRef(Top(t).key, wq))
  <2>1. stack' = stack /\ Wait(t, LockCv(Top(t).key))
    BY <1>3 DEF LockSession
  <2>2. PICK p : p = <<t, Len(stack[t])>>
    OBVIOUS
  <2>3. Top(t).key \in Keys
    BY <1>1, <2>2, TopFacts DEF Shape
  <2>4. /\ LockCv(Top(t).key) \in Cvs
        /\ wq' = Append(wq, [thread |-> t, cv |-> LockCv(Top(t).key)])
    BY <2>1, <2>3, CvFacts DEF Wait
  <2> QED BY <1>1, <2>1, <2>3, <2>4, QueueWaits
<1> QED BY <1>2, <1>3

LEMMA UnlinkQueue ==
  ASSUME IInv, IInv', QueueInv, NEW t \in Threads, UnlinkSession(t) \/ UnlinkWoken(t)
  PROVE  QueueInv' /\ Joins(t)
<1>1. Acts(t) /\ stack[t] # << >> /\ Top(t).pc \in {"unlink", "unlinking"} /\ Quieter(wq)
  BY DEF Acts, Step, UnlinkSession, UnlinkWoken, At, QueueInv, Quieter
<1>2. PICK k : k = Top(t).key
  OBVIOUS
<1>3. PICK p : p = <<t, Len(stack[t])>>
  OBVIOUS
<1>4. k \in Keys /\ Top(t) \in FrameSet /\ RefcCv(k) \in Cvs
  BY <1>1, <1>2, <1>3, AtUnlink, CvFacts
<1>5. Quieter(Broadcast(wq, LockCv(k)))
  BY <1>1, Wakes
<1>6. CASE wq' = wq \/ wq' = Broadcast(wq, LockCv(k))
  BY <1>1, <1>5, <1>6, QueueShrinks
<1>7. CASE UnlinkSession(t) /\ wq' # Broadcast(wq, LockCv(k))
  <2>1. /\ wq' = Append(Broadcast(wq, LockCv(k)), [thread |-> t, cv |-> RefcCv(k)])
        /\ Goto(t, "unlinking")
    BY <1>2, <1>7 DEF UnlinkSession
  <2>2. PICK g : g = [Top(t) EXCEPT !.pc = "unlinking"]
    OBVIOUS
  <2>3. g.pc = "unlinking" /\ g.key = k /\ Become(t, g)
    BY <1>2, <1>4, <2>1, <2>2 DEF FrameSet, Goto
  <2> QED BY <1>1, <1>2, <1>4, <1>5, <2>1, <2>3, QueueWaits
<1>8. CASE UnlinkWoken(t) /\ wq' # wq
  <2>1. /\ stack' = stack /\ Top(t).pc = "unlinking"
        /\ wq' = Append(wq, [thread |-> t, cv |-> RefcCv(k)])
    BY <1>2, <1>8 DEF UnlinkWoken, Wait, At
  <2> QED BY <1>1, <1>2, <1>4, <2>1, QueueWaits
<1> QED BY <1>6, <1>7, <1>8

LEMMA SetBusyQueue ==
  ASSUME IInv, IInv', QueueInv, MultiInv, NEW t \in Threads, SetBusy(t)
  PROVE  QueueInv' /\ Joins(t)
<1>1. Acts(t) /\ stack[t] # << >> /\ Top(t).pc = "busy" /\ At(t, "busy") /\ Quieter(wq)
  BY DEF Acts, Step, SetBusy, At, QueueInv, Quieter
<1>2. CASE Has(Top(t).x, "SINGLE_INSTANCE") /\ si_thread \notin {t, NoThread}
  <2>1. stack' = stack /\ Wait(t, SiCv) /\ ctx' = ctx
    BY <1>2 DEF SetBusy
  <2>2. SiCv \in Cvs /\ wq' = Append(wq, [thread |-> t, cv |-> SiCv])
    BY <2>1, CvFacts DEF Wait
  <2>3. Has(Top(t).x, "SINGLE_INSTANCE")'
    BY <1>2, <2>1 DEF Has, Top
  <2>4. PICK g : g = Top(t)
    OBVIOUS
  <2>5. Has(g.x, "SINGLE_INSTANCE")'
    BY <1>2, <2>1, <2>4 DEF Has
  <2> QED BY <1>1, <2>1, <2>2, <2>4, <2>5, QueueWaits
<1>3. CASE ~(Has(Top(t).x, "SINGLE_INSTANCE") /\ si_thread \notin {t, NoThread})
  <2>1. ~ctx[Top(t).x].busy \/ Has(Top(t).x, "SINGLE_INSTANCE")
    BY <1>1, NoneBusy
  <2>2. wq' \in {wq, Signal(wq, SiCv)}
    BY <1>3, <2>1 DEF SetBusy
  <2>3. Quieter(wq')
    BY <1>1, <2>2, Wakes
  <2> QED BY <1>1, <2>3, QueueShrinks
<1> QED BY <1>2, <1>3

LEMMA QueueStep ==
  ASSUME IInv, IInv', QueueInv, MultiInv, NEW t \in Threads, Acts(t)
  PROVE  QueueInv' /\ Joins(t)
<1>1. Quieter(wq)
  BY DEF QueueInv, Quieter
<1>2. CASE wq' = wq
  BY <1>1, <1>2, QueueShrinks
<1>3. CASE GetSession(t) \/ LockSession(t) \/ UnlinkSession(t) \/ UnlinkWoken(t) \/ SetBusy(t)
  BY <1>3, GetSessionQueue, LockSessionQueue, UnlinkQueue, SetBusyQueue
<1>4. CASE PutSession(t)
  <2>1. PICK k : wq' = DecRef(k, IF sess[k].lock_thread = t THEN Signal(wq, LockCv(k)) ELSE wq)
    BY <1>4 DEF PutSession
  <2>2. Quieter(IF sess[k].lock_thread = t THEN Signal(wq, LockCv(k)) ELSE wq)
    BY <1>1, Wakes
  <2>3. Quieter(wq')
    BY <2>1, <2>2, WakesRef
  <2> QED BY <2>3, QueueShrinks
<1>5. CASE LoadDone(t) \/ LoadFails(t)
  <2>1. wq' = Broadcast(wq, InitCv)
    BY <1>5 DEF LoadDone, LoadFails
  <2>2. Quieter(wq')
    BY <1>1, <2>1, Wakes
  <2> QED BY <2>2, QueueShrinks
<1>6. CASE ClearBusy(t)
  <2>1. PICK q : q = Signal(wq, BusyCv(Top(t).x))
    OBVIOUS
  <2>2. Quieter(q) /\ Quieter(Signal(q, SiCv))
    BY <1>1, <2>1, Wakes
  <2>3. wq' = q \/ wq' = Signal(q, SiCv)
    BY <1>6, <2>1 DEF ClearBusy
  <2>4. Quieter(wq')
    BY <2>2, <2>3
  <2> QED BY <2>4, QueueShrinks
<1>7. CASE InitSession(t) \/ FindAgain(t)
  <2>1. stack[t] # << >>
    BY <1>7 DEF InitSession, FindAgain, At
  <2>2. PICK p : p = <<t, Len(stack[t])>>
    OBVIOUS
  <2>3. Top(t) \in FrameSet /\ Top(t).key[1] \in Lists
    BY <2>1, <2>2, TopFacts
  <2>4. CASE FindAgain(t)
    <3>1. FindContext(t, Top(t)) /\ At(t, "find")
      BY <2>4 DEF FindAgain
    <3> QED BY <2>1, <2>3, <3>1, FindContextQueue
  <2>5. CASE InitSession(t) /\ wq' # wq
    <3>1. PICK id : /\ id = NewSessionId(Top(t).key[1]) /\ id # 0 /\ At(t, "init")
                    /\ FindContext(t, [Top(t) EXCEPT !.key = <<Top(t).key[1], id>>])
      BY <2>5 DEF InitSession
    <3>2. id \in Ids
      BY <2>3, <3>1, NewIdFree DEF IInv
    <3>3. [Top(t) EXCEPT !.key = <<Top(t).key[1], id>>] \in FrameSet
      BY <2>3, <3>2 DEF FrameSet
    <3> QED BY <2>1, <3>1, <3>3, FindContextQueue
  <2> QED BY <1>2, <1>7, <2>4, <2>5
<1>8. CASE \/ InitFails(t) \/ Release(t) \/ ReleaseState(t) \/ CloseSession(t) \/ Drop(t)
           \/ Destroy(t)
  <2>1. wq' = wq
    BY <1>8 DEF InitFails, Release, ReleaseState, CloseSession, Drop, Destroy
  <2> QED BY <1>2, <2>1
<1>9. CASE Entry(t) \/ TaCall(t) \/ TaReturn(t) \/ TaPanic(t)
  <2>1. wq' = wq
    BY <1>9 DEF Entry, EntryOpenSession, EntryInvokeCommand, EntryCloseSession, EntryCancel,
                TaCall, TaReturn, TaPanic
  <2> QED BY <1>2, <2>1
<1> QED BY <1>3, <1>4, <1>5, <1>6, <1>7, <1>8, <1>9 DEF Acts, Step

----------------------------------------------------------------------------
(* The single-instance lock is not left to sleepers. *)

(* A thread other than the one that steps stays ready.                      *)
LEMMA StaysReady ==
  ASSUME IInv, IInv', QueueInv, NEW t \in Threads, Acts(t), Joins(t), NEW u \in Threads, u # t
  PROVE  /\ ReadySingle(u) => ReadySingle(u)'
         /\ \A k : ReadyLock(u, k) => ReadyLock(u, k)'
<1>1. Awake(u) => Awake(u)'
  BY AwakeIs, AwakeNext DEF Joins
<1>2. ASSUME NEW pc, At(u, pc) PROVE At(u, pc)' /\ Top(u)' = Top(u)
  BY <1>2, TopStays DEF At
<1>3. ASSUME At(u, "busy"), Has(Top(u).x, "SINGLE_INSTANCE") PROVE Has(Top(u).x, "SINGLE_INSTANCE")'
  <2>1. stack[u] # << >> /\ Top(u).pc = "busy"
    BY <1>3 DEF At
  <2>2. PICK p : p = <<u, Len(stack[u])>>
    OBVIOUS
  <2>3. Top(u).x # 0
    BY <2>1, <2>2, TopFacts DEF Shape, InContext
  <2> QED BY <1>3, <2>1, <2>3, TopStays DEF Has
<1> QED BY <1>1, <1>2, <1>3 DEF ReadySingle, ReadyLock

LEMMA OnCvNext ==
  ASSUME NEW cv
  PROVE  OnCv(cv)' = {e \in Elements(wq') : e.cv = cv}
BY DEF OnCv, Elements

LEMMA SiKept ==
  ASSUME IInv, IInv', QueueInv, NEW t \in Threads, Acts(t), Joins(t), SiWake,
         ~At(t, "busy"), si_thread' = si_thread
  PROVE  SiWake'
<1> SUFFICES ASSUME OnCv(SiCv)' # {}, si_thread = NoThread
             PROVE  \E u \in Threads : ReadySingle(u)'
  BY DEF SiWake
<1>1. OnCv(SiCv)' = {e \in Elements(wq') : e.cv = SiCv}
  BY OnCvNext
<1>2. OnCv(SiCv) # {}
  BY <1>1 DEF OnCv, Joins, WaitsAt
<1>3. PICK u \in Threads : ReadySingle(u)
  BY <1>2 DEF SiWake
<1>4. u # t
  BY <1>3 DEF ReadySingle
<1> QED BY <1>3, <1>4, StaysReady

(* Who is woken by the end of the last call holds the lock next.            *)
LEMMA SiClearBusy ==
  ASSUME IInv, IInv', QueueInv, NEW t \in Threads, ClearBusy(t), Joins(t), SiWake
  PROVE  SiWake'
<1>1. /\ Acts(t) /\ stack[t] # << >> /\ Top(t).pc = "clear" /\ ~At(t, "busy")
      /\ QueueInv /\ wq \in Seq(Sleepers) /\ NoRepeats(wq)
  BY DEF Acts, Step, ClearBusy, At, QueueInv
<1>2. CASE si_thread' = si_thread
  BY <1>1, <1>2, SiKept
<1>3. CASE si_thread' # si_thread
  <2>1. /\ si_thread' = NoThread
        /\ wq' = Signal(Signal(wq, BusyCv(Top(t).x)), SiCv)
    BY <1>3 DEF ClearBusy
  <2>2. \A e \in Elements(wq) : e.cv # BusyCv(Top(t).x)
    BY DEF QueueInv, Dozes, SiCv, InitCv, LockCv, RefcCv, BusyCv
  <2>3. wq' = Signal(wq, SiCv)
    BY <1>1, <2>1, <2>2, SignalEffect
  <2>4. CASE \A e \in Elements(wq) : e.cv # SiCv
    <3>1. wq' = wq
      BY <1>1, <2>3, <2>4, SignalEffect
    <3>2. OnCv(SiCv)' = {}
      BY <2>4, <3>1, OnCvNext
    <3> QED BY <3>2 DEF SiWake
  <2>5. CASE \E e \in Elements(wq) : e.cv = SiCv
    <3>1. PICK e \in Elements(wq) : /\ e.cv = SiCv
                                    /\ \A d : d \in Elements(wq') <=> d \in Elements(wq) /\ d # e
      BY <1>1, <2>3, <2>5, SignalEffect
    <3>2. Dozes(e)' /\ e.thread # t /\ e.thread \in Threads
      BY <1>1, DozesOn
    <3>3. At(e.thread, "busy")' /\ Has(Top(e.thread).x, "SINGLE_INSTANCE")'
      BY <3>1, <3>2 DEF Dozes, At, SiCv, InitCv, LockCv, RefcCv
    <3>4. \A d \in Elements(wq') : d.thread # e.thread
      BY <3>1 DEF QueueInv, OneEach
    <3>5. ReadySingle(e.thread)'
      BY <3>3, <3>4, AwakeNext DEF ReadySingle
    <3> QED BY <3>2, <3>5 DEF SiWake
  <2> QED BY <2>4, <2>5
<1> QED BY <1>2, <1>3

LEMMA SiSetBusy ==
  ASSUME IInv, IInv', QueueInv, MultiInv, NEW t \in Threads, SetBusy(t), Joins(t), SiWake
  PROVE  SiWake'
<1>1. Acts(t) /\ stack[t] # << >> /\ Top(t).pc = "busy" /\ At(t, "busy") /\ Awake(t)
  BY DEF Acts, Step, SetBusy, At
<1>2. PICK p : p = <<t, Len(stack[t])>>
  OBVIOUS
<1>3. Top(t).x # 0 /\ Top(t).x \in Ctxs
  BY <1>1, <1>2, AtWork DEF InContext
<1>4. CASE Has(Top(t).x, "SINGLE_INSTANCE") /\ si_thread \notin {t, NoThread}
  <2>1. si_thread' = si_thread /\ si_thread # NoThread
    BY <1>4 DEF SetBusy, locks
  <2> QED BY <2>1 DEF SiWake
<1>5. CASE /\ ~(Has(Top(t).x, "SINGLE_INSTANCE") /\ si_thread \notin {t, NoThread})
           /\ ctx[Top(t).x].busy
  <2>1. Has(Top(t).x, "SINGLE_INSTANCE")
    BY <1>1, <1>5, NoneBusy
  <2>2. PICK q \in Frames : F(q).x = Top(t).x /\ F(q).held
    BY <1>3, <1>5 DEF IInv, BusyInv, In
  <2>3. q \in Single /\ q[1] = si_thread /\ q[1] \in Threads
    BY <2>1, <2>2, FrameFacts DEF IInv, SingleInv, Single
  <2>4. si_thread # NoThread /\ si_thread' = si_thread
    BY <1>5, <2>1, <2>3, ManagerAssumption DEF SetBusy, locks
  <2> QED BY <2>4 DEF SiWake
<1>6. CASE /\ ~(Has(Top(t).x, "SINGLE_INSTANCE") /\ si_thread \notin {t, NoThread})
           /\ ~ctx[Top(t).x].busy
  <2>1. /\ wq' = wq
        /\ si_thread' = IF Has(Top(t).x, "SINGLE_INSTANCE") THEN t ELSE si_thread
    BY <1>6 DEF SetBusy
  <2>2. CASE Has(Top(t).x, "SINGLE_INSTANCE")
    <3>1. si_thread' # NoThread
      BY <2>1, <2>2, ManagerAssumption
    <3> QED BY <3>1 DEF SiWake
  <2>3. CASE ~Has(Top(t).x, "SINGLE_INSTANCE")
    <3> SUFFICES ASSUME OnCv(SiCv)' # {}, si_thread = NoThread
                 PROVE  \E u \in Threads : ReadySingle(u)'
      BY <2>1, <2>3 DEF SiWake
    <3>1. OnCv(SiCv) # {}
      BY <2>1, OnCvNext DEF OnCv
    <3>2. PICK u \in Threads : ReadySingle(u)
      BY <3>1 DEF SiWake
    <3>3. u # t
      BY <2>3, <3>2 DEF ReadySingle
    <3> QED BY <1>1, <3>2, <3>3, StaysReady
  <2> QED BY <2>2, <2>3
<1> QED BY <1>4, <1>5, <1>6

LEMMA SiStep ==
  ASSUME IInv, IInv', QueueInv, MultiInv, NEW t \in Threads, Acts(t), Joins(t), SiWake
  PROVE  SiWake'
<1>1. CASE SetBusy(t) \/ ClearBusy(t)
  BY <1>1, SiSetBusy, SiClearBusy
<1>2. CASE \/ GetSession(t) \/ LockSession(t) \/ PutSession(t) \/ UnlinkSession(t)
           \/ UnlinkWoken(t) \/ InitSession(t)
  <2>1. ~At(t, "busy") /\ si_thread' = si_thread
    BY <1>2 DEF GetSession, LockSession, PutSession, UnlinkSession, UnlinkWoken, InitSession,
                At, locks
  <2> QED BY <2>1, SiKept
<1>3. CASE \/ FindAgain(t) \/ LoadDone(t) \/ LoadFails(t) \/ InitFails(t)
           \/ Release(t) \/ ReleaseState(t)
  <2>1. ~At(t, "busy") /\ si_thread' = si_thread
    BY <1>3 DEF FindAgain, LoadDone, LoadFails, InitFails, Release, ReleaseState, At, locks
  <2> QED BY <2>1, SiKept
<1>4. CASE CloseSession(t) \/ Drop(t) \/ Destroy(t) \/ TaCall(t) \/ TaReturn(t) \/ TaPanic(t)
  <2>1. ~At(t, "busy") /\ si_thread' = si_thread
    BY <1>4 DEF CloseSession, Drop, Destroy, TaCall, TaReturn, TaPanic, At, locks
  <2> QED BY <2>1, SiKept
<1>5. CASE Entry(t)
  <2>1. ~At(t, "busy") /\ si_thread' = si_thread
    BY <1>5 DEF Entry, EntryOpenSession, EntryInvokeCommand, EntryCloseSession, EntryCancel,
                At, locks
  <2> QED BY <2>1, SiKept
<1> QED BY <1>1, <1>2, <1>3, <1>4, <1>5 DEF Acts, Step

(* Nobody waits for a single-instance lock of its own.                      *)
LEMMA SiOthersStep ==
  ASSUME IInv, IInv', QueueInv, MultiInv, NEW t \in Threads, Acts(t), Joins(t), SiOthers
  PROVE  SiOthers'
<1> SUFFICES ASSUME NEW e \in Elements(wq'), e.cv = SiCv PROVE e.thread # si_thread'
  BY OnCvNext DEF SiOthers
<1>1. si_thread' \in {si_thread, t, NoThread}
  <2>1. CASE SetBusy(t) \/ ClearBusy(t)
    BY <2>1 DEF SetBusy, ClearBusy, locks
  <2>2. CASE \/ GetSession(t) \/ LockSession(t) \/ PutSession(t) \/ UnlinkSession(t)
             \/ UnlinkWoken(t) \/ InitSession(t) \/ FindAgain(t) \/ LoadDone(t) \/ LoadFails(t)
    BY <2>2 DEF GetSession, LockSession, PutSession, UnlinkSession, UnlinkWoken, InitSession,
                FindAgain, LoadDone, LoadFails, locks
  <2>3. CASE \/ InitFails(t) \/ Release(t) \/ ReleaseState(t) \/ CloseSession(t) \/ Drop(t)
             \/ Destroy(t) \/ TaCall(t) \/ TaReturn(t) \/ TaPanic(t)
    BY <2>3 DEF InitFails, Release, ReleaseState, CloseSession, Drop, Destroy, TaCall, TaReturn,
                TaPanic, locks
  <2>4. CASE Entry(t)
    BY <2>4 DEF Entry, EntryOpenSession, EntryInvokeCommand, EntryCloseSession, EntryCancel, locks
  <2> QED BY <2>1, <2>2, <2>3, <2>4 DEF Acts, Step
<1>2. CASE e \in Elements(wq)
  <2>1. e.thread # si_thread /\ e.thread # t /\ e.thread \in Threads
    BY <1>2, DozesOn DEF SiOthers, OnCv
  <2> QED BY <1>1, <2>1, ManagerAssumption
<1>3. CASE e \notin Elements(wq)
  <2>1. e.thread = t /\ At(t, "busy")
    BY <1>3 DEF Joins, WaitsAt
  <2>2. SetBusy(t)
    <3>1. Top(t).pc = "busy" /\ stack[t] # << >>
      BY <2>1 DEF At
    <3>2. ~\/ GetSession(t) \/ LockSession(t) \/ PutSession(t) \/ UnlinkSession(t) \/ UnlinkWoken(t)
           \/ InitSession(t) \/ FindAgain(t) \/ LoadDone(t) \/ LoadFails(t) \/ InitFails(t)
      BY <3>1 DEF GetSession, LockSession, PutSession, UnlinkSession, UnlinkWoken, InitSession,
                  FindAgain, LoadDone, LoadFails, InitFails, At
    <3>3. ~\/ Release(t) \/ ReleaseState(t) \/ ClearBusy(t) \/ CloseSession(t) \/ Drop(t)
           \/ Destroy(t) \/ TaCall(t) \/ TaReturn(t) \/ TaPanic(t)
      BY <3>1 DEF Release, ReleaseState, ClearBusy, CloseSession, Drop, Destroy, TaCall, TaReturn,
                  TaPanic, At
    <3>4. ~Entry(t)
      BY <3>1 DEF Entry, EntryOpenSession, EntryInvokeCommand, EntryCloseSession, EntryCancel
    <3> QED BY <3>2, <3>3, <3>4 DEF Acts, Step
  <2>3. CASE Has(Top(t).x, "SINGLE_INSTANCE") /\ si_thread \notin {t, NoThread}
    BY <2>1, <2>2, <2>3 DEF SetBusy, locks
  <2>4. CASE ~(Has(Top(t).x, "SINGLE_INSTANCE") /\ si_thread \notin {t, NoThread})
    <3>1. ~ctx[Top(t).x].busy \/ Has(Top(t).x, "SINGLE_INSTANCE")
      BY <2>1, NoneBusy
    <3>2. wq' \in {wq, Signal(wq, SiCv)}
      BY <2>2, <2>4, <3>1 DEF SetBusy
    <3>3. Quieter(wq')
      BY <3>2, Wakes DEF QueueInv, Quieter
    <3> QED BY <1>3, <3>3 DEF Quieter
  <2> QED BY <2>3, <2>4
<1> QED BY <1>2, <1>3

----------------------------------------------------------------------------
(* A session's lock is not left to sleepers either, and who waits to free   *)
(* the session is not forgotten.                                            *)

(* The frame of who sleeps for a session.                                   *)
LEMMA Sleeper ==
  ASSUME IInv, QueueInv, NEW k \in Keys, NEW e \in Elements(wq),
         e.cv = LockCv(k) \/ e.cv = RefcCv(k)
  PROVE  /\ e.thread \in Threads /\ stack[e.thread] # << >> /\ Top(e.thread).key = k
         /\ e.cv = LockCv(k) => Top(e.thread).pc = "lock"
         /\ e.cv = RefcCv(k) => Top(e.thread).pc = "unlinking"
         /\ <<e.thread, Len(stack[e.thread])>> \in On(k)
         /\ F(<<e.thread, Len(stack[e.thread])>>) = Top(e.thread)
         /\ Exists(k)
<1>1. e.thread \in Threads
  <2>1. PICK i \in 1 .. Len(wq) : e = wq[i]
    BY DEF Elements
  <2>2. wq[i] \in Sleepers
    BY DEF QueueInv
  <2> QED BY <2>1, <2>2 DEF Sleepers
<1>2. PICK u \in Threads : u = e.thread
  BY <1>1
<1>3. Dozes(e)
  BY DEF QueueInv
<1>4. /\ stack[u] # << >>
      /\ \/ e.cv = LockCv(Top(u).key) /\ Top(u).pc = "lock" /\ e.cv = LockCv(k)
         \/ e.cv = RefcCv(Top(u).key) /\ Top(u).pc = "unlinking" /\ e.cv = RefcCv(k)
  BY <1>2, <1>3 DEF Dozes, LockCv, RefcCv, SiCv, InitCv
<1>5. PICK p : p = <<u, Len(stack[u])>>
  OBVIOUS
<1>6. p \in Frames /\ F(p) = Top(u) /\ F(p).key \in Keys
  BY <1>4, <1>5, TopFacts DEF Shape
<1>7. Top(u).key = k
  BY <1>4, <1>6, CvFacts
<1>8. p \in On(k)
  BY <1>6, <1>7 DEF On
<1>9. Exists(k)
  BY <1>8 DEF IInv, SessInv
<1> QED BY <1>2, <1>4, <1>5, <1>6, <1>7, <1>8, <1>9, CvFacts

Sleepless == \A k \in Keys : ~Exists(k) => OnCv(LockCv(k)) = {} /\ OnCv(RefcCv(k)) = {}

LEMMA NoSleepers == IInv /\ QueueInv => Sleepless
BY Sleeper DEF Sleepless, OnCv

LEMMA NoSleepersNext == IInv' /\ QueueInv' => Sleepless'
BY NoSleepers, PTL

(* Two threads cannot wait to free the same session.                        *)
LEMMA OneUnlinks ==
  ASSUME IInv, QueueInv, NEW k \in Keys, NEW d \in OnCv(RefcCv(k)), NEW e \in OnCv(RefcCv(k))
  PROVE  d = e
<1>1. d \in Elements(wq) /\ e \in Elements(wq) /\ d.cv = RefcCv(k) /\ e.cv = RefcCv(k)
  BY DEF OnCv
<1>2. PICK p, q : p = <<d.thread, Len(stack[d.thread])>> /\ q = <<e.thread, Len(stack[e.thread])>>
  OBVIOUS
<1>3. /\ p \in On(k) /\ q \in On(k) /\ F(p).pc = "unlinking" /\ F(q).pc = "unlinking"
      /\ d.thread \in Threads /\ e.thread \in Threads
  <2>1. p \in On(k) /\ F(p).pc = "unlinking" /\ d.thread \in Threads
    BY <1>1, <1>2, Sleeper
  <2>2. q \in On(k) /\ F(q).pc = "unlinking" /\ e.thread \in Threads
    BY <1>1, <1>2, Sleeper
  <2> QED BY <2>1, <2>2
<1>4. Locks(F(p)) /\ Locks(F(q))
  <2>1. p \in Frames /\ q \in Frames
    BY <1>3 DEF On
  <2>2. Shape(F(p)) /\ Shape(F(q))
    BY <2>1, FrameFacts DEF IInv
  <2> QED BY <1>3, <2>2 DEF Locks, Shape, Ending
<1>5. p = q
  BY <1>3, <1>4 DEF IInv, SessInv
<1> QED BY <1>1, <1>2, <1>3, <1>5 DEF QueueInv, OneEach

LEMMA LockKept ==
  ASSUME IInv, IInv', QueueInv, QueueInv', NEW t \in Threads, Acts(t), Joins(t),
         NEW k \in Keys, LockWake(k),
         sess'[k].unlink = sess[k].unlink,
         sess'[k].lock_thread = NoThread => sess[k].lock_thread = NoThread /\ ~ReadyLock(t, k),
         \/ Top(t).pc \notin {"get", "lock"} \/ Top(t).key # k
         \/ sess'[k].lock_thread # NoThread /\ ~sess'[k].unlink
         \/ Elements(wq') \subseteq Elements(wq)
  PROVE  LockWake(k)'
<1> SUFFICES ASSUME NEW e \in Elements(wq'), e.cv = LockCv(k)
             PROVE  /\ ~sess'[k].unlink
                    /\ sess'[k].lock_thread = NoThread => \E u \in Threads : ReadyLock(u, k)'
  BY OnCvNext DEF LockWake
<1>1. CASE e \in Elements(wq)
  <2>1. OnCv(LockCv(k)) # {}
    BY <1>1 DEF OnCv
  <2>2. ~sess[k].unlink /\ (sess[k].lock_thread = NoThread => \E u \in Threads : ReadyLock(u, k))
    BY <2>1 DEF LockWake
  <2>3. ASSUME sess'[k].lock_thread = NoThread PROVE \E u \in Threads : ReadyLock(u, k)'
    <3>1. PICK u \in Threads : ReadyLock(u, k)
      BY <2>2, <2>3
    <3>2. u # t
      BY <2>3, <3>1
    <3> QED BY <3>1, <3>2, StaysReady
  <2> QED BY <2>2, <2>3
<1>2. CASE e \notin Elements(wq)
  <2>1. Top(t).pc \in {"get", "lock"} /\ Top(t).key = k
    BY <1>2 DEF Joins, WaitsAt
  <2> QED BY <1>2, <2>1
<1> QED BY <1>1, <1>2

LEMMA RefcKept ==
  ASSUME IInv, IInv', QueueInv, QueueInv', NEW t \in Threads, Acts(t), Joins(t),
         NEW k \in Keys, RefcWake(k), sess[k].ref_count \in Nat, sess'[k].ref_count \in Nat,
         sess'[k].ref_count >= sess[k].ref_count,
         \/ Top(t).pc \notin {"unlink", "unlinking"} \/ Top(t).key # k
         \/ sess'[k].ref_count >= 2
         \/ Elements(wq') \subseteq Elements(wq)
  PROVE  RefcWake(k)'
<1> SUFFICES ASSUME NEW e \in Elements(wq'), e.cv = RefcCv(k)
             PROVE  sess'[k].ref_count >= 2
  BY OnCvNext DEF RefcWake
<1>1. CASE e \in Elements(wq)
  <2>1. OnCv(RefcCv(k)) # {}
    BY <1>1 DEF OnCv
  <2> QED BY <2>1 DEF RefcWake
<1>2. CASE e \notin Elements(wq)
  <2>1. Top(t).pc \in {"unlink", "unlinking"} /\ Top(t).key = k
    BY <1>2 DEF Joins, WaitsAt
  <2> QED BY <1>2, <2>1
<1> QED BY <1>1, <1>2

SessWake(k) == LockWake(k) /\ RefcWake(k)

(* A step that works on session j, if on any.                               *)
LEMMA SessCalm ==
  ASSUME IInv, IInv', QueueInv, QueueInv', NEW t \in Threads, Acts(t), Joins(t),
         \A k \in Keys : SessWake(k), NEW j,
         At(t, "get") \/ At(t, "lock") \/ At(t, "unlink") \/ At(t, "unlinking") => Top(t).key = j,
         stack[t] = << >> => wq' = wq,
         \A k \in Keys : k # j => /\ sess'[k].lock_thread = sess[k].lock_thread
                                  /\ sess'[k].unlink = sess[k].unlink
                                  /\ sess'[k].ref_count = sess[k].ref_count,
         j \in Keys => SessWake(j)'
  PROVE  \A k \in Keys : SessWake(k)'
<1> SUFFICES ASSUME NEW k \in Keys, k # j PROVE SessWake(k)'
  OBVIOUS
<1>1. /\ sess'[k].lock_thread = sess[k].lock_thread /\ sess'[k].unlink = sess[k].unlink
      /\ sess'[k].ref_count = sess[k].ref_count
  OBVIOUS
<1>2. sess[k].ref_count \in Nat
  BY DEF IInv, Types, SessSet
<1>3. LockWake(k) /\ RefcWake(k)
  BY DEF SessWake
<1>4. ~ReadyLock(t, k)
  BY DEF ReadyLock
<1>5. \/ Elements(wq') \subseteq Elements(wq)
      \/ Top(t).key # k \/ Top(t).pc \notin {"get", "lock", "unlink", "unlinking"}
  BY DEF At
<1>6. LockWake(k)'
  BY <1>1, <1>3, <1>4, <1>5, LockKept
<1>7. RefcWake(k)'
  <2>1. sess'[k].ref_count \in Nat /\ sess'[k].ref_count >= sess[k].ref_count
    BY <1>1, <1>2
  <2> QED BY <1>2, <1>3, <1>5, <2>1, RefcKept
<1> QED BY <1>6, <1>7 DEF SessWake

LEMMA WakeGet ==
  ASSUME IInv, IInv', QueueInv, QueueInv', NEW t \in Threads, GetSession(t), Joins(t),
         \A k \in Keys : SessWake(k)
  PROVE  \A k \in Keys : SessWake(k)'
<1>1. Acts(t) /\ stack[t] # << >> /\ Top(t).pc = "get"
  BY DEF Acts, Step, GetSession, At
<1>2. PICK p : p = <<t, Len(stack[t])>>
  OBVIOUS
<1>3. p \in Frames /\ F(p) = Top(t)
  BY <1>1, <1>2, TopFacts
<1>4. PICK k \in Keys : k = Top(t).key
  BY <1>1, <1>3, LookedUp
<1>5. ~sess[k].unlink /\ Exists(k) /\ sess[k] \in SessSet
  BY <1>1, <1>3, <1>4, LookedUp
<1>6. LockWake(k) /\ RefcWake(k) /\ ~ReadyLock(t, k)
  BY <1>1 DEF SessWake, ReadyLock, At
<1>7. sess \in [Keys -> SessSet]
  BY DEF IInv, Types
<1>8. /\ \/ sess' = [sess EXCEPT ![k].ref_count = @ + 1] /\ wq' = wq
         \/ sess' = [sess EXCEPT ![k].ref_count = @ + 1, ![k].lock_thread = t]
         \/ sess' = [sess EXCEPT ![k].ref_count = @ + 1] /\ sess[k].lock_thread # NoThread
  BY <1>4, <1>5 DEF GetSession
<1>9. /\ sess'[k].ref_count = sess[k].ref_count + 1 /\ sess'[k].unlink = sess[k].unlink
      /\ \A j \in Keys : j # k => sess'[j] = sess[j]
      /\ sess'[k].lock_thread = NoThread => sess[k].lock_thread = NoThread
      /\ wq' = wq \/ sess'[k].lock_thread # NoThread
  BY <1>5, <1>7, <1>8, ManagerAssumption DEF SessSet
<1>10. LockWake(k)'
  <2>1. Elements(wq') \subseteq Elements(wq) \/ (sess'[k].lock_thread # NoThread /\ ~sess'[k].unlink)
    BY <1>5, <1>9
  <2> QED BY <1>1, <1>6, <1>9, <2>1, LockKept
<1>11. RefcWake(k)'
  <2>1. /\ sess[k].ref_count \in Nat /\ sess'[k].ref_count \in Nat
        /\ sess'[k].ref_count >= sess[k].ref_count
    BY <1>5, <1>9 DEF SessSet
  <2> QED BY <1>1, <1>6, <2>1, RefcKept
<1>12. SessWake(k)'
  BY <1>10, <1>11 DEF SessWake
<1> QED BY <1>1, <1>4, <1>9, <1>12, SessCalm

(* A reference is given back: who waits to free the session is woken when   *)
(* its own is the only one left.                                            *)
LEMMA RefcGiven ==
  ASSUME IInv, IInv', QueueInv, NEW t \in Threads, Acts(t), NEW k \in Keys, RefcWake(k),
         sess'[k].ref_count = sess[k].ref_count - 1, NEW q, Quieter(q), wq' = DecRef(k, q)
  PROVE  RefcWake(k)'
<1> SUFFICES ASSUME NEW e \in Elements(wq'), e.cv = RefcCv(k)
             PROVE  sess'[k].ref_count >= 2
  BY OnCvNext DEF RefcWake
<1>1. q \in Seq(Sleepers) /\ NoRepeats(q) /\ Elements(q) \subseteq Elements(wq)
  BY DEF Quieter
<1>2. sess[k].ref_count \in Nat
  BY DEF IInv, Types, SessSet
<1>3. Quieter(wq')
  BY WakesRef
<1>4. e \in Elements(wq) /\ e \in OnCv(RefcCv(k))
  BY <1>3 DEF Quieter, OnCv
<1>5. sess[k].ref_count >= 2
  BY <1>4 DEF RefcWake
<1>6. CASE sess[k].ref_count = 2
  <2>1. wq' = Signal(q, RefcCv(k))
    BY <1>6 DEF DecRef
  <2>2. CASE \A d \in Elements(q) : d.cv # RefcCv(k)
    <3>1. wq' = q
      BY <1>1, <2>1, <2>2, SignalEffect
    <3> QED BY <2>2, <3>1
  <2>3. CASE \E d \in Elements(q) : d.cv = RefcCv(k)
    <3>1. PICK d \in Elements(q) : /\ d.cv = RefcCv(k)
                                   /\ \A c : c \in Elements(wq') <=> c \in Elements(q) /\ c # d
      BY <1>1, <2>1, <2>3, SignalEffect
    <3>2. d \in OnCv(RefcCv(k))
      BY <1>1, <3>1 DEF OnCv
    <3>3. d = e
      BY <1>4, <3>2, OneUnlinks
    <3> QED BY <3>1, <3>3
  <2> QED BY <2>2, <2>3
<1>7. CASE sess[k].ref_count # 2
  BY <1>2, <1>5, <1>7
<1> QED BY <1>6, <1>7

LEMMA WakePut ==
  ASSUME IInv, IInv', QueueInv, QueueInv', NEW t \in Threads, PutSession(t), Joins(t),
         \A k \in Keys : SessWake(k)
  PROVE  \A k \in Keys : SessWake(k)'
<1>1. Acts(t) /\ stack[t] # << >> /\ Top(t).pc = "put"
  BY DEF Acts, Step, PutSession, At
<1>2. PICK p : p = <<t, Len(stack[t])>>
  OBVIOUS
<1>3. PICK k \in Keys : k = Top(t).key
  BY <1>1, <1>2, TopFacts DEF Shape
<1>4. LockWake(k) /\ RefcWake(k) /\ ~ReadyLock(t, k)
  BY <1>1 DEF SessWake, ReadyLock, At
<1>5. sess \in [Keys -> SessSet] /\ sess[k] \in SessSet
  BY DEF IInv, Types
<1>6. PICK q : q = IF sess[k].lock_thread = t THEN Signal(wq, LockCv(k)) ELSE wq
  OBVIOUS
<1>7. /\ sess' = [sess EXCEPT ![k].ref_count = @ - 1,
                              ![k].lock_thread = IF @ = t THEN NoThread ELSE @]
      /\ wq' = DecRef(k, q)
  BY <1>3, <1>6 DEF PutSession
<1>8. /\ sess'[k].ref_count = sess[k].ref_count - 1 /\ sess'[k].unlink = sess[k].unlink
      /\ sess'[k].lock_thread = IF sess[k].lock_thread = t THEN NoThread ELSE sess[k].lock_thread
      /\ \A j \in Keys : j # k => sess'[j] = sess[j]
  BY <1>5, <1>7 DEF SessSet
<1>9. Quieter(wq) /\ Quieter(q)
  BY <1>6, Wakes DEF QueueInv, Quieter
<1>10. RefcWake(k)'
  BY <1>1, <1>4, <1>7, <1>8, <1>9, RefcGiven
<1>11. LockWake(k)'
  <2>1. CASE sess[k].lock_thread # t
    BY <1>1, <1>4, <1>8, <2>1, LockKept
  <2>2. CASE sess[k].lock_thread = t
    <3> SUFFICES ASSUME NEW e \in Elements(wq'), e.cv = LockCv(k)
                 PROVE  ~sess'[k].unlink /\ \E u \in Threads : ReadyLock(u, k)'
      BY OnCvNext DEF LockWake
    <3>1. Elements(wq') \subseteq Elements(q)
      <4>1. q \in Seq(Sleepers) /\ NoRepeats(q)
        BY <1>9 DEF Quieter
      <4>2. CASE wq' = q
        BY <4>2
      <4>3. CASE wq' = Signal(q, RefcCv(k))
        <5>1. CASE \A d \in Elements(q) : d.cv # RefcCv(k)
          BY <4>1, <4>3, <5>1, SignalEffect
        <5>2. CASE \E d \in Elements(q) : d.cv = RefcCv(k)
          BY <4>1, <4>3, <5>2, SignalEffect
        <5> QED BY <5>1, <5>2
      <4> QED BY <1>7, <4>2, <4>3 DEF DecRef
    <3>2. e \in Elements(wq)
      BY <1>9, <3>1 DEF Quieter
    <3>3. ~sess[k].unlink
      BY <1>4, <3>2 DEF LockWake, OnCv
    <3>4. PICK d \in Elements(wq) :
             d.cv = LockCv(k) /\ \A c : c \in Elements(q) <=> c \in Elements(wq) /\ c # d
      <4>1. q = Signal(wq, LockCv(k)) /\ wq \in Seq(Sleepers) /\ NoRepeats(wq)
        BY <1>6, <1>9, <2>2 DEF Quieter
      <4> QED BY <3>2, <4>1, SignalEffect
    <3>5. /\ d.thread \in Threads /\ stack[d.thread] # << >> /\ Top(d.thread).key = k
          /\ Top(d.thread).pc = "lock"
      BY <3>4, Sleeper
    <3>6. d.thread # t
      BY <1>1, <3>5
    <3>7. At(d.thread, "lock")' /\ Top(d.thread)'.key = k
      BY <1>1, <3>5, <3>6, TopStays DEF At
    <3>8. \A c \in Elements(wq') : c.thread # d.thread
      BY <3>1, <3>4 DEF QueueInv, OneEach
    <3>9. ReadyLock(d.thread, k)'
      BY <3>7, <3>8, AwakeNext DEF ReadyLock
    <3> QED BY <1>8, <3>3, <3>5, <3>9
  <2> QED BY <2>1, <2>2
<1>12. SessWake(k)'
  BY <1>10, <1>11 DEF SessWake
<1> QED BY <1>1, <1>3, <1>8, <1>12, SessCalm

LEMMA WakeLock ==
  ASSUME IInv, IInv', QueueInv, QueueInv', NEW t \in Threads, LockSession(t), Joins(t),
         \A k \in Keys : SessWake(k)
  PROVE  \A k \in Keys : SessWake(k)'
<1>1. Acts(t) /\ stack[t] # << >> /\ Top(t).pc = "lock"
  BY DEF Acts, Step, LockSession, At
<1>2. PICK p : p = <<t, Len(stack[t])>>
  OBVIOUS
<1>3. PICK k \in Keys : k = Top(t).key
  BY <1>1, <1>2, TopFacts DEF Shape
<1>4. LockWake(k) /\ RefcWake(k)
  BY DEF SessWake
<1>5. sess \in [Keys -> SessSet] /\ sess[k] \in SessSet /\ Quieter(wq)
  BY DEF IInv, Types, QueueInv, Quieter
<1>6. CASE sess[k].unlink
  <2>1. sess' = [sess EXCEPT ![k].ref_count = @ - 1] /\ wq' = DecRef(k, wq)
    BY <1>3, <1>6 DEF LockSession
  <2>2. /\ sess'[k].ref_count = sess[k].ref_count - 1 /\ sess'[k].unlink = sess[k].unlink
        /\ \A j \in Keys : j # k => sess'[j] = sess[j]
    BY <1>5, <2>1 DEF SessSet
  <2>3. RefcWake(k)'
    BY <1>1, <1>4, <1>5, <2>1, <2>2, RefcGiven
  <2>4. Quieter(wq')
    BY <1>5, <2>1, WakesRef
  <2>5. OnCv(LockCv(k))' = {}
    BY <1>4, <1>6, <2>4, OnCvNext DEF LockWake, Quieter, OnCv
  <2>6. SessWake(k)'
    BY <2>3, <2>5 DEF SessWake, LockWake
  <2> QED BY <1>1, <1>3, <2>2, <2>6, SessCalm
<1>7. CASE ~sess[k].unlink
  <2>1. \/ sess' = sess /\ sess[k].lock_thread # NoThread
        \/ sess' = [sess EXCEPT ![k].lock_thread = t]
    BY <1>3, <1>7 DEF LockSession
  <2>2. /\ sess'[k].ref_count = sess[k].ref_count /\ sess'[k].unlink = sess[k].unlink
        /\ sess'[k].lock_thread # NoThread
        /\ \A j \in Keys : j # k => sess'[j] = sess[j]
    BY <1>5, <2>1, ManagerAssumption DEF SessSet
  <2>3. LockWake(k)'
    BY <1>1, <1>4, <1>7, <2>2, LockKept
  <2>4. RefcWake(k)'
    <3>1. /\ sess[k].ref_count \in Nat /\ sess'[k].ref_count \in Nat
          /\ sess'[k].ref_count >= sess[k].ref_count
      BY <1>5, <2>2 DEF SessSet
    <3> QED BY <1>1, <1>4, <3>1, RefcKept
  <2>5. SessWake(k)'
    BY <2>3, <2>4 DEF SessWake
  <2> QED BY <1>1, <1>3, <2>2, <2>5, SessCalm
<1> QED BY <1>6, <1>7

LEMMA WakeUnlink ==
  ASSUME IInv, IInv', QueueInv, QueueInv', NEW t \in Threads, UnlinkSession(t) \/ UnlinkWoken(t),
         Joins(t), \A k \in Keys : SessWake(k)
  PROVE  \A k \in Keys : SessWake(k)'
<1>1. Acts(t) /\ stack[t] # << >> /\ Top(t).pc \in {"unlink", "unlinking"}
  BY DEF Acts, Step, UnlinkSession, UnlinkWoken, At
<1>2. PICK p : p = <<t, Len(stack[t])>>
  OBVIOUS
<1>3. PICK k \in Keys : k = Top(t).key
  BY <1>1, <1>2, AtUnlink
<1>4. sess \in [Keys -> SessSet] /\ sess[k] \in SessSet /\ Types
  BY DEF IInv, Types
<1>5. LockWake(k) /\ RefcWake(k) /\ ~ReadyLock(t, k)
  BY <1>1 DEF SessWake, ReadyLock, At
<1>6. sess[k].ref_count \in Nat /\ sess[k].ref_count > 0
  BY <1>1, <1>2, <1>3, AtUnlink, Counted
<1>7. CASE sess[k].ref_count = 1
  <2>1. FreeSession(t)
    BY <1>3, <1>7 DEF UnlinkSession, UnlinkWoken
  <2>2. /\ open_sessions' = [open_sessions EXCEPT ![k[1]] = Without(@, k[2])]
        /\ sess' = [sess EXCEPT ![k] = NoSess]
    BY <1>3, <2>1 DEF FreeSession
  <2>3. ~Exists(k)' /\ \A j \in Keys : j # k => sess'[j] = sess[j]
    BY <1>4, <2>2, ListShrinks
  <2>4. OnCv(LockCv(k))' = {} /\ OnCv(RefcCv(k))' = {}
    <3>1. Sleepless'
      BY NoSleepersNext
    <3> QED BY <2>3, <3>1 DEF Sleepless, Keys, Lists, Ids
  <2>5. SessWake(k)'
    BY <2>4 DEF SessWake, LockWake, RefcWake
  <2> QED BY <1>1, <1>3, <2>3, <2>5, SessCalm
<1>8. CASE sess[k].ref_count # 1 /\ UnlinkSession(t)
  <2>1. /\ sess' = [sess EXCEPT ![k].unlink = TRUE]
        /\ wq' = Append(Broadcast(wq, LockCv(k)), [thread |-> t, cv |-> RefcCv(k)])
    BY <1>3, <1>8 DEF UnlinkSession
  <2>2. /\ sess'[k].ref_count = sess[k].ref_count
        /\ \A j \in Keys : j # k => sess'[j] = sess[j]
    BY <1>4, <2>1 DEF SessSet
  <2>3. RefcWake(k)'
    <3>1. sess'[k].ref_count \in Nat /\ sess'[k].ref_count >= sess[k].ref_count
          /\ sess'[k].ref_count >= 2
      BY <1>6, <1>8, <2>2
    <3> QED BY <1>1, <1>5, <1>6, <3>1, RefcKept
  <2>4. OnCv(LockCv(k))' = {}
    <3>1. PICK q : q = Broadcast(wq, LockCv(k))
      OBVIOUS
    <3>2. q \in Seq(Sleepers) /\ NoRepeats(q)
          /\ \A d : d \in Elements(q) <=> d \in Elements(wq) /\ d.cv # LockCv(k)
      BY <3>1, BroadcastEffect DEF QueueInv
    <3>3. PICK e : e = [thread |-> t, cv |-> RefcCv(k)]
      OBVIOUS
    <3>4. e \in Sleepers /\ e.cv # LockCv(k) /\ e.thread = t
      BY <3>3, CvFacts DEF Sleepers
    <3>5. e \notin Elements(q)
      BY <1>1, <3>2, <3>4, DozesOn
    <3>6. \A d : d \in Elements(wq') <=> d \in Elements(q) \/ d = e
      BY <2>1, <3>1, <3>2, <3>3, <3>4, <3>5, AppendEffect
    <3> QED BY <3>2, <3>4, <3>6, OnCvNext
  <2>5. SessWake(k)'
    BY <2>3, <2>4 DEF SessWake, LockWake
  <2> QED BY <1>1, <1>3, <2>2, <2>5, SessCalm
<1>9. CASE sess[k].ref_count # 1 /\ UnlinkWoken(t)
  <2>1. sess' = sess /\ Top(t).pc = "unlinking"
    BY <1>3, <1>9 DEF UnlinkWoken, At
  <2>2. RefcWake(k)'
    <3>1. /\ sess'[k].ref_count \in Nat /\ sess'[k].ref_count >= sess[k].ref_count
          /\ sess'[k].ref_count >= 2
      BY <1>6, <1>9, <2>1
    <3> QED BY <1>1, <1>5, <1>6, <3>1, RefcKept
  <2>3. LockWake(k)'
    BY <1>1, <1>5, <2>1, LockKept
  <2>4. SessWake(k)'
    BY <2>2, <2>3 DEF SessWake
  <2> QED BY <1>1, <1>3, <2>1, <2>4, SessCalm
<1> QED BY <1>7, <1>8, <1>9

LEMMA WakeInit ==
  ASSUME IInv, IInv', QueueInv, QueueInv', NEW t \in Threads, InitSession(t) \/ InitFails(t),
         Joins(t), \A k \in Keys : SessWake(k)
  PROVE  \A k \in Keys : SessWake(k)'
<1>1. Acts(t) /\ stack[t] # << >> /\ Top(t).pc \in {"init", "init_fail"}
  BY DEF Acts, Step, InitSession, InitFails, At
<1>2. PICK p : p = <<t, Len(stack[t])>>
  OBVIOUS
<1>3. Top(t).key[1] \in Lists /\ (Top(t).pc = "init_fail" => Top(t).key \in Keys)
  BY <1>1, <1>2, TopFacts DEF Shape
<1>4. sess \in [Keys -> SessSet] /\ Types
  BY DEF IInv, Types
<1>5. ~At(t, "get") /\ ~At(t, "lock") /\ ~At(t, "unlink") /\ ~At(t, "unlinking")
  BY <1>1 DEF At
<1>6. CASE InitFails(t)
  <2>1. PICK k \in Keys : k = Top(t).key
    BY <1>3, <1>6 DEF InitFails, At
  <2>2. /\ open_sessions' = [open_sessions EXCEPT ![k[1]] = Without(@, k[2])]
        /\ sess' = [sess EXCEPT ![k] = NoSess]
    BY <1>6, <2>1 DEF InitFails
  <2>3. ~Exists(k)' /\ \A j \in Keys : j # k => sess'[j] = sess[j]
    BY <1>4, <2>2, ListShrinks
  <2>4. OnCv(LockCv(k))' = {} /\ OnCv(RefcCv(k))' = {}
    <3>1. Sleepless'
      BY NoSleepersNext
    <3> QED BY <2>3, <3>1 DEF Sleepless, Keys, Lists, Ids
  <2>5. SessWake(k)'
    BY <2>4 DEF SessWake, LockWake, RefcWake
  <2> QED BY <1>1, <1>5, <2>3, <2>5, SessCalm
<1>7. CASE InitSession(t) /\ NewSessionId(Top(t).key[1]) = 0
  <2>1. sess' = sess
    BY <1>7 DEF InitSession
  <2>2. PICK j : j = <<0, 0>>
    OBVIOUS
  <2>3. j \notin Keys
    BY <2>2 DEF Keys, Ids
  <2> QED BY <1>1, <1>5, <2>1, <2>3, SessCalm
<1>8. CASE InitSession(t) /\ NewSessionId(Top(t).key[1]) # 0
  <2>1. PICK k : k = <<Top(t).key[1], NewSessionId(Top(t).key[1])>>
    OBVIOUS
  <2>2. k \in Keys /\ ~Exists(k)
    BY <1>3, <1>4, <1>8, <2>1, NewIdFree DEF Keys
  <2>3. \A j \in Keys : j # k => sess'[j] = sess[j]
    BY <1>4, <1>8, <2>1, <2>2 DEF InitSession
  <2>4. OnCv(LockCv(k)) = {} /\ OnCv(RefcCv(k)) = {}
    BY <2>2, NoSleepers DEF Sleepless
  <2>5. OnCv(LockCv(k))' = {} /\ OnCv(RefcCv(k))' = {}
    BY <1>1, <2>2, <2>4, OnCvNext DEF OnCv, Joins, WaitsAt
  <2>6. SessWake(k)'
    BY <2>5 DEF SessWake, LockWake, RefcWake
  <2> QED BY <1>1, <1>5, <2>3, <2>6, SessCalm
<1> QED BY <1>6, <1>7, <1>8

LEMMA WakeStep ==
  ASSUME IInv, IInv', QueueInv, QueueInv', NEW t \in Threads, Acts(t), Joins(t),
         \A k \in Keys : SessWake(k)
  PROVE  \A k \in Keys : SessWake(k)'
<1>1. CASE GetSession(t) \/ PutSession(t) \/ LockSession(t) \/ InitSession(t) \/ InitFails(t)
  BY <1>1, WakeGet, WakePut, WakeLock, WakeInit
<1>2. CASE UnlinkSession(t) \/ UnlinkWoken(t)
  BY <1>2, WakeUnlink
<1>3. \E j : j \notin Keys
  <2>1. <<0, 0>> \notin Keys
    BY DEF Keys, Ids
  <2> QED BY <2>1
<1>4. PICK j : j \notin Keys
  BY <1>3
<1>9. sess \in [Keys -> SessSet]
  BY DEF IInv, Types
<1>5. CASE FindAgain(t) \/ LoadFails(t)
  <2>1. stack[t] # << >> /\ Top(t).pc \in {"find", "load"}
    BY <1>5 DEF FindAgain, LoadFails, At
  <2>2. PICK y : sess' = [sess EXCEPT ![Top(t).key].ctx = y]
    BY <1>5 DEF FindAgain, LoadFails
  <2>3. \A k \in Keys : /\ sess'[k].lock_thread = sess[k].lock_thread
                        /\ sess'[k].unlink = sess[k].unlink
                        /\ sess'[k].ref_count = sess[k].ref_count
    BY <1>9, <2>2 DEF SessSet
  <2>4. ~At(t, "get") /\ ~At(t, "lock") /\ ~At(t, "unlink") /\ ~At(t, "unlinking")
    BY <2>1 DEF At
  <2> QED BY <1>4, <2>1, <2>3, <2>4, SessCalm
<1>6. CASE LoadDone(t) \/ SetBusy(t) \/ Release(t) \/ ReleaseState(t) \/ ClearBusy(t)
  <2>1. stack[t] # << >> /\ Top(t).pc \in {"load", "busy", "release", "release_state", "clear"}
    BY <1>6 DEF LoadDone, SetBusy, Release, ReleaseState, ClearBusy, At
  <2>2. sess' = sess
    BY <1>6 DEF LoadDone, SetBusy, Release, ReleaseState, ClearBusy
  <2>3. ~At(t, "get") /\ ~At(t, "lock") /\ ~At(t, "unlink") /\ ~At(t, "unlinking")
    BY <2>1 DEF At
  <2> QED BY <1>4, <2>1, <2>2, <2>3, SessCalm
<1>7. CASE CloseSession(t) \/ Drop(t) \/ Destroy(t) \/ TaCall(t) \/ TaReturn(t) \/ TaPanic(t)
  <2>1. stack[t] # << >> /\ Top(t).pc \in {"close", "drop", "destroy", "ta"}
    BY <1>7 DEF CloseSession, Drop, Destroy, TaCall, TaReturn, TaPanic, At
  <2>2. sess' = sess
    BY <1>7 DEF CloseSession, Drop, Destroy, TaCall, TaReturn, TaPanic
  <2>3. ~At(t, "get") /\ ~At(t, "lock") /\ ~At(t, "unlink") /\ ~At(t, "unlinking")
    BY <2>1 DEF At
  <2> QED BY <1>4, <2>1, <2>2, <2>3, SessCalm
<1>8. CASE Entry(t)
  <2>1. stack[t] = << >> /\ sess' = sess /\ wq' = wq
    BY <1>8 DEF Entry, EntryOpenSession, EntryInvokeCommand, EntryCloseSession, EntryCancel
  <2>2. ~At(t, "get") /\ ~At(t, "lock") /\ ~At(t, "unlink") /\ ~At(t, "unlinking")
    BY <2>1 DEF At
  <2> QED BY <1>4, <2>1, <2>2, SessCalm
<1> QED BY <1>1, <1>2, <1>5, <1>6, <1>7, <1>8 DEF Acts, Step

----------------------------------------------------------------------------
(* Marks, loads and references. *)

(* Where a step can go.                                                     *)
LEMMA Turns ==
  ASSUME IInv, NEW t \in Threads, Acts(t)
  PROVE  \/ stack' = stack
         \/ /\ stack[t] # << >>
            /\ \E g : /\ Become(t, g)
                      /\ g.pc = "unlinking" => UnlinkSession(t)
                      /\ g.pc = "load" => InitSession(t) \/ FindAgain(t)
         \/ \E g : Push(t, g) /\ g.pc \in {"get", "init"}
         \/ stack[t] # << >> /\ Return(t)
<1> DEFINE Goes(pcs) == \E g : Become(t, g) /\ g.pc \in pcs
           Pushes == \E g : Push(t, g) /\ g.pc \in {"get", "init"}
           Quiet == stack' = stack \/ Pushes \/ Return(t)
<1>1. ASSUME stack[t] # << >> PROVE Top(t) \in FrameSet /\ Top(t).key[1] \in Lists
  <2>1. PICK p : p = <<t, Len(stack[t])>>
    OBVIOUS
  <2> QED BY <1>1, <2>1, TopFacts
<1>2. ASSUME NEW f, f = Top(t), f \in FrameSet, GetSession(t) \/ LockSession(t) \/ PutSession(t)
      PROVE  Goes({"put", "close", "busy", "lock"}) \/ Quiet
  <2>1. CASE GetSession(t)
    <3>1. CASE Become(t, [f EXCEPT !.x = sess[f.key].ctx,
                                   !.pc = IF f.op = "close" THEN "close" ELSE "busy"])
      <4>1. PICK g : g = [f EXCEPT !.x = sess[f.key].ctx,
                                      !.pc = IF f.op = "close" THEN "close" ELSE "busy"]
        OBVIOUS
      <4>2. g.pc \in {"close", "busy"}
        BY <1>2, <4>1 DEF FrameSet
      <4> QED BY <3>1, <4>1, <4>2
    <3>2. ASSUME NEW pc \in {"put", "lock"}, Goto(t, pc) PROVE Goes({"put", "lock"})
      <4>1. PICK g : g = [f EXCEPT !.pc = pc]
        OBVIOUS
      <4>2. g.pc \in {pc}
        BY <1>2, <4>1 DEF FrameSet
      <4> QED BY <1>2, <3>2, <4>1, <4>2 DEF Goto
    <3> QED BY <1>2, <2>1, <3>1, <3>2 DEF GetSession
  <2>2. CASE LockSession(t)
    <3>1. CASE Become(t, [f EXCEPT !.x = sess[f.key].ctx,
                                   !.pc = IF f.op = "close" THEN "close" ELSE "busy"])
      <4>1. PICK g : g = [f EXCEPT !.x = sess[f.key].ctx,
                                      !.pc = IF f.op = "close" THEN "close" ELSE "busy"]
        OBVIOUS
      <4>2. g.pc \in {"close", "busy"}
        BY <1>2, <4>1 DEF FrameSet
      <4> QED BY <3>1, <4>1, <4>2
    <3> QED BY <1>2, <2>2, <3>1 DEF LockSession
  <2>3. CASE PutSession(t)
    BY <2>3 DEF PutSession
  <2> QED BY <1>2, <2>1, <2>2, <2>3
<1>3. ASSUME NEW f, f = Top(t), f \in FrameSet, FreeSession(t) PROVE Goes({"clear", "drop"})
  <2>1. PICK g : g = [f EXCEPT !.key = <<f.key[1], 0>>, !.pc = IF f.held THEN "clear" ELSE "drop"]
    OBVIOUS
  <2>2. g.pc \in {"clear", "drop"}
    BY <1>3, <2>1 DEF FrameSet
  <2> QED BY <1>3, <2>1, <2>2 DEF FreeSession
<1>4. ASSUME NEW f, f = Top(t), f \in FrameSet, UnlinkSession(t)
      PROVE  Goes({"clear", "drop", "unlinking"})
  <2>1. CASE Goto(t, "unlinking")
    <3>1. PICK g : g = [f EXCEPT !.pc = "unlinking"]
      OBVIOUS
    <3>2. g.pc \in {"unlinking"}
      BY <1>4, <3>1 DEF FrameSet
    <3> QED BY <1>4, <2>1, <3>1, <3>2 DEF Goto
  <2> QED BY <1>3, <1>4, <2>1 DEF UnlinkSession
<1>5. ASSUME NEW f, f = Top(t), f \in FrameSet, UnlinkWoken(t) \/ InitFails(t)
      PROVE  Goes({"clear", "drop"}) \/ Quiet
  BY <1>3, <1>5 DEF UnlinkWoken, InitFails
<1>6. ASSUME NEW f \in FrameSet, FindContext(t, f)
      PROVE  Goes({"init_fail", "load", "find", "busy"})
  <2>1. ASSUME NEW pc \in {"init_fail", "find"}, Become(t, [f EXCEPT !.pc = pc])
        PROVE  Goes({"init_fail", "load", "find", "busy"})
    <3>1. PICK g : g = [f EXCEPT !.pc = pc]
      OBVIOUS
    <3>2. g.pc \in {pc}
      BY <1>6, <3>1 DEF FrameSet
    <3> QED BY <2>1, <3>1, <3>2
  <2>2. ASSUME NEW x, NEW pc \in {"load", "busy"}, Become(t, [f EXCEPT !.x = x, !.pc = pc])
        PROVE  Goes({"init_fail", "load", "find", "busy"})
    <3>1. PICK g : g = [f EXCEPT !.x = x, !.pc = pc]
      OBVIOUS
    <3>2. g.pc \in {pc}
      BY <1>6, <3>1 DEF FrameSet
    <3> QED BY <2>2, <3>1, <3>2
  <2> HIDE DEF Goes
  <2> QED BY <1>6, <2>1, <2>2 DEF FindContext, NewContext
<1>7. ASSUME stack[t] # << >>, InitSession(t) \/ FindAgain(t)
      PROVE  Goes({"init_fail", "load", "find", "busy"}) \/ Quiet
  <2>1. CASE FindAgain(t)
    <3>1. FindContext(t, Top(t))
      BY <2>1 DEF FindAgain
    <3> QED BY <1>1, <1>6, <1>7, <3>1
  <2>2. CASE InitSession(t) /\ ~Return(t)
    <3>1. PICK id : /\ id = NewSessionId(Top(t).key[1]) /\ id # 0
                    /\ FindContext(t, [Top(t) EXCEPT !.key = <<Top(t).key[1], id>>])
      BY <2>2 DEF InitSession
    <3>2. id \in Ids
      BY <1>1, <1>7, <3>1, NewIdFree DEF IInv
    <3>3. [Top(t) EXCEPT !.key = <<Top(t).key[1], id>>] \in FrameSet
      BY <1>1, <1>7, <3>2 DEF FrameSet
    <3> QED BY <1>6, <3>1, <3>3
  <2> QED BY <1>7, <2>1, <2>2
<1>8. ASSUME NEW f \in FrameSet
      PROVE  /\ Fail(f).pc \in {"unlink", "clear"} /\ Dead(f).pc \in {"unlink", "release"}
             /\ [f EXCEPT !.held = TRUE] \in FrameSet
             /\ [f EXCEPT !.pc = "ta"].pc = "ta" /\ [f EXCEPT !.pc = "clear"].pc = "clear"
  BY DEF Fail, Dead, FrameSet
<1>9. ASSUME NEW f, f = Top(t), f \in FrameSet, SetBusy(t)
      PROVE  Goes({"unlink", "clear", "release", "ta", "close"}) \/ Quiet
  <2>1. ASSUME NEW h \in FrameSet, Entered(t, h) PROVE Goes({"unlink", "clear", "release", "ta"})
    BY <1>8, <2>1 DEF Entered
  <2>2. CASE Refused(t)
    <3>1. CASE Become(t, [f EXCEPT !.op = "close", !.pc = "close"])
      <4>1. PICK g : g = [f EXCEPT !.op = "close", !.pc = "close"]
        OBVIOUS
      <4>2. g.pc \in {"close"}
        BY <1>9, <4>1 DEF FrameSet
      <4> QED BY <3>1, <4>1, <4>2
    <3> QED BY <1>9, <2>2, <3>1 DEF Refused
  <2>3. CASE Entered(t, [f EXCEPT !.held = TRUE])
    BY <1>8, <1>9, <2>1, <2>3
  <2> QED BY <1>9, <2>2, <2>3 DEF SetBusy
<1>10. ASSUME NEW f, f = Top(t), f \in FrameSet, LoadDone(t) \/ LoadFails(t) \/ ClearBusy(t)
       PROVE  Goes({"busy", "init_fail", "put", "drop", "close"})
  <2>1. CASE LoadDone(t)
    <3>1. PICK g : g = [f EXCEPT !.pc = "busy"]
      OBVIOUS
    <3>2. g.pc \in {"busy"}
      BY <1>10, <3>1 DEF FrameSet
    <3> QED BY <1>10, <2>1, <3>1, <3>2 DEF LoadDone, Goto
  <2>2. CASE LoadFails(t)
    <3>1. PICK g : g = [f EXCEPT !.x = 0, !.pc = "init_fail"]
      OBVIOUS
    <3>2. g.pc \in {"init_fail"}
      BY <1>10, <3>1 DEF FrameSet
    <3> QED BY <1>10, <2>2, <3>1, <3>2 DEF LoadFails
  <2>3. CASE ClearBusy(t)
    <3>1. Become(t, [f EXCEPT !.held = FALSE, !.pc = AfterClear(f)])
      BY <1>10, <2>3 DEF ClearBusy
    <3>2. AfterClear(f) \in {"put", "drop", "close"}
      BY DEF AfterClear
    <3>3. PICK g : g = [f EXCEPT !.held = FALSE, !.pc = AfterClear(f)]
      OBVIOUS
    <3>4. g.pc = AfterClear(f)
      BY <1>10, <3>3 DEF FrameSet
    <3> QED BY <3>1, <3>2, <3>3, <3>4
  <2> QED BY <1>10, <2>1, <2>2, <2>3
<1>11. ASSUME NEW x, CloseFirst(t, x) PROVE Pushes
  <2>1. Frame("close", NoTa, <<x, Head(open_sessions[x])>>, "get").pc = "get"
    BY DEF Frame
  <2> QED BY <1>11, <2>1 DEF CloseFirst
<1>12. ASSUME NEW f, f = Top(t), f \in FrameSet,
              Release(t) \/ ReleaseState(t) \/ CloseSession(t) \/ Drop(t) \/ Destroy(t)
       PROVE  Goes({"clear", "release_state", "unlink", "busy", "destroy"}) \/ Quiet
  <2>1. ASSUME NEW pc \in {"clear", "release_state", "unlink", "busy", "destroy"}, Goto(t, pc)
        PROVE  Goes({"clear", "release_state", "unlink", "busy", "destroy"})
    <3>1. PICK g : g = [f EXCEPT !.pc = pc]
      OBVIOUS
    <3>2. g.pc \in {pc}
      BY <1>12, <3>1 DEF FrameSet
    <3> QED BY <1>12, <2>1, <3>1, <3>2 DEF Goto
  <2> QED BY <1>11, <1>12, <2>1 DEF Release, ReleaseState, CloseSession, Drop, Destroy
<1>13. ASSUME NEW op, NEW ta, NEW k, NEW pc, pc \in {"get", "init"}, Push(t, Frame(op, ta, k, pc))
       PROVE  Pushes
  <2>1. Frame(op, ta, k, pc).pc = pc
    BY DEF Frame
  <2> QED BY <1>13, <2>1
<1>14. CASE Entry(t) \/ TaCall(t)
  <2>1. Pushes
    <3> HIDE DEF Pushes
    <3>1. CASE Entry(t)
      BY <1>13, <3>1 DEF Entry, EntryOpenSession, EntryInvokeCommand, EntryCloseSession, EntryCancel
    <3>2. CASE TaCall(t)
      <4>1. \/ \E c \in Calls : Push(t, Frame("open", c[2], <<Top(t).x, 0>>, "init"))
            \/ \E op \in {"invoke", "close"} : \E id \in Elements(open_sessions[Top(t).x]) :
                  Push(t, Frame(op, NoTa, <<Top(t).x, id>>, "get"))
        BY <3>2 DEF TaCall
      <4> QED BY <1>13, <4>1
    <3> QED BY <1>14, <3>1, <3>2
  <2> QED BY <2>1
<1>15. ASSUME NEW f, f = Top(t), f \in FrameSet, TaReturn(t) \/ TaPanic(t)
       PROVE  Goes({"unlink", "clear", "release"})
  <2>1. CASE TaReturn(t)
    <3>1. PICK g : Become(t, g) /\ g \in {Fail(f)} \cup
                    (IF f.op = "open" THEN {[f EXCEPT !.pc = "clear"]} ELSE {})
      BY <1>15, <2>1 DEF TaReturn
    <3>2. g.pc \in {"unlink", "clear"}
      BY <1>8, <1>15, <3>1
    <3> QED BY <3>1, <3>2
  <2>2. CASE TaPanic(t)
    BY <1>8, <1>15, <2>2 DEF TaPanic
  <2> QED BY <1>15, <2>1, <2>2
<1>16. CASE stack[t] # << >> /\ ~Entry(t) /\ ~TaCall(t)
  <2>1. PICK f : f = Top(t) /\ f \in FrameSet
    BY <1>1, <1>16
  <2> HIDE DEF Goes, Quiet
  <2>2. \/ Quiet
        \/ UnlinkSession(t) /\ Goes({"clear", "drop", "unlinking"})
        \/ /\ InitSession(t) \/ FindAgain(t)
           /\ Goes({"init_fail", "load", "find", "busy"})
        \/ Goes({"put", "close", "busy", "lock"}) \/ Goes({"clear", "drop"})
        \/ Goes({"unlink", "clear", "release", "ta", "close"})
        \/ Goes({"busy", "init_fail", "put", "drop", "close"})
        \/ Goes({"clear", "release_state", "unlink", "busy", "destroy"})
        \/ Goes({"unlink", "clear", "release"})
    BY <1>2, <1>4, <1>5, <1>7, <1>9, <1>10, <1>12, <1>15, <1>16, <2>1 DEF Acts, Step
  <2> QED BY <1>16, <2>2 DEF Goes, Quiet
<1>17. CASE stack[t] = << >> /\ ~Entry(t) /\ ~TaCall(t)
  BY <1>17, Shifts DEF Acts, Step, GetSession, LockSession, PutSession, UnlinkSession,
     UnlinkWoken, InitSession, FindAgain, LoadDone, LoadFails, InitFails, SetBusy, Release,
     ReleaseState, ClearBusy, CloseSession, Drop, Destroy, TaReturn, TaPanic, At
<1> QED BY <1>14, <1>16, <1>17

(* A frame that is unlinking or loading was, or has just begun to.          *)
LEMMA NewFrames ==
  ASSUME IInv, IInv', NEW t \in Threads, Acts(t), NEW q \in Frames',
         F(q)'.pc \in {"unlinking", "load"}
  PROVE  \/ q \in Frames /\ F(q)' = F(q)
         \/ /\ stack[t] # << >> /\ q = <<t, Len(stack[t])>> /\ F(q)' = Top(t)'
            /\ F(q)'.pc = "unlinking" => UnlinkSession(t)
            /\ F(q)'.pc = "load" => InitSession(t) \/ FindAgain(t)
<1>1. Types /\ Types'
  BY DEF IInv
<1>2. CASE stack' = stack
  BY <1>2 DEF Frames, F
<1>3. ASSUME NEW g, Become(t, g), stack[t] # << >>,
             g.pc = "unlinking" => UnlinkSession(t),
             g.pc = "load" => InitSession(t) \/ FindAgain(t)
      PROVE  \/ q \in Frames /\ F(q)' = F(q)
             \/ /\ q = <<t, Len(stack[t])>> /\ F(q)' = Top(t)'
                /\ F(q)'.pc = "unlinking" => UnlinkSession(t)
                /\ F(q)'.pc = "load" => InitSession(t) \/ FindAgain(t)
  <2>1. stack'[t] # << >> /\ Top(t)' = g
    BY <1>1, <1>3, BecomeTop
  <2>2. g \in FrameSet
    <3>1. Len(stack'[t]) \in 1 .. Len(stack'[t])
      BY <1>1, <2>1 DEF Types
    <3> QED BY <1>1, <2>1, <3>1 DEF Types, Top
  <2>3. PICK p : p = <<t, Len(stack[t])>>
    OBVIOUS
  <2>4. Moves(p) /\ F(p)' = g
    BY <1>1, <1>3, <2>2, <2>3, BecomeEffect
  <2>5. q # p => q \in Frames /\ F(q)' = F(q)
    BY <2>4 DEF Moves
  <2> QED BY <1>3, <2>1, <2>3, <2>4, <2>5
<1>4. ASSUME NEW g, Push(t, g), g.pc \in {"get", "init"}
      PROVE  q \in Frames /\ F(q)' = F(q)
  <2>1. g \in FrameSet
    <3>1. stack' \in [Threads -> Seq(FrameSet)] /\ stack \in [Threads -> Seq(FrameSet)]
      BY <1>1 DEF Types
    <3>2. PICK s \in Seq(FrameSet) : s = stack[t]
      BY <3>1
    <3>3. stack'[t] = Append(s, g)
      BY <1>4, <3>1, <3>2 DEF Push
    <3>4. PICK r \in Seq(FrameSet) : r = Append(s, g)
      BY <3>1, <3>3
    <3>5. PICK T : T = FrameSet \cup {g}
      OBVIOUS
    <3>6. s \in Seq(T) /\ g \in T
      BY <3>5
    <3>7. Len(r) = Len(s) + 1 /\ r[Len(s) + 1] = g
      BY <3>4, <3>6
    <3>8. Len(s) + 1 \in 1 .. Len(r)
      BY <3>7
    <3> QED BY <3>4, <3>7, <3>8
  <2>2. PICK p : p = <<t, Len(stack[t]) + 1>>
    OBVIOUS
  <2>3. Moves(p) /\ F(p)' = g
    BY <1>1, <1>4, <2>1, <2>2, PushEffect
  <2>4. q # p
    BY <1>4, <2>3
  <2> QED BY <2>3, <2>4 DEF Moves
<1>5. CASE stack[t] # << >> /\ Return(t)
  <2>1. PICK p : p = <<t, Len(stack[t])>>
    OBVIOUS
  <2>2. p \notin Frames' /\ Moves(p)
    BY <1>1, <1>5, <2>1, ReturnEffect
  <2> QED BY <2>2 DEF Moves
<1> QED BY <1>2, <1>3, <1>4, <1>5, Turns

(* A mark stays as long as the session does.                                *)
LEMMA MarkStays ==
  ASSUME IInv, IInv', NEW t \in Threads, Acts(t), NEW k \in Keys, sess[k].unlink, Exists(k)'
  PROVE  sess'[k].unlink
<1>1. sess \in [Keys -> SessSet] /\ Types /\ SessInv(k)
  BY DEF IInv, Types
<1>2. Exists(k)
  BY <1>1 DEF SessInv
<1>3. CASE sess' = sess
  BY <1>3
<1>4. CASE GetSession(t) \/ LockSession(t) \/ PutSession(t)
  BY <1>1, <1>4 DEF GetSession, LockSession, PutSession, SessSet
<1>5. ASSUME NEW j \in Keys, sess' = [sess EXCEPT ![j] = NoSess],
             open_sessions' = [open_sessions EXCEPT ![j[1]] = Without(@, j[2])]
      PROVE  sess'[k].unlink
  <2>1. ~Exists(j)'
    BY <1>1, <1>5, ListShrinks
  <2> QED BY <1>1, <1>5, <2>1
<1>6. CASE UnlinkSession(t) \/ UnlinkWoken(t)
  <2>1. PICK p : p = <<t, Len(stack[t])>>
    OBVIOUS
  <2>2. Top(t).key \in Keys
    BY <1>6, <2>1, AtUnlink DEF UnlinkSession, UnlinkWoken, At
  <2>3. CASE FreeSession(t)
    <3>1. PICK j \in Keys : j = Top(t).key
      BY <2>2
    <3>2. /\ sess' = [sess EXCEPT ![j] = NoSess]
          /\ open_sessions' = [open_sessions EXCEPT ![j[1]] = Without(@, j[2])]
      BY <2>3, <3>1 DEF FreeSession
    <3> QED BY <1>5, <3>2
  <2>4. CASE sess' = [sess EXCEPT ![Top(t).key].unlink = TRUE]
    BY <1>1, <2>2, <2>4 DEF SessSet
  <2> QED BY <1>3, <1>6, <2>3, <2>4 DEF UnlinkSession, UnlinkWoken
<1>7. CASE InitFails(t)
  <2>1. PICK p : p = <<t, Len(stack[t])>>
    OBVIOUS
  <2>2. PICK j \in Keys : j = Top(t).key
    BY <1>7, <2>1, TopFacts DEF InitFails, At, Shape
  <2>3. /\ sess' = [sess EXCEPT ![j] = NoSess]
        /\ open_sessions' = [open_sessions EXCEPT ![j[1]] = Without(@, j[2])]
    BY <1>7, <2>2 DEF InitFails
  <2> QED BY <1>5, <2>3
<1>8. CASE InitSession(t)
  <2>1. CASE NewSessionId(Top(t).key[1]) = 0
    BY <1>3, <1>8, <2>1 DEF InitSession
  <2>2. CASE NewSessionId(Top(t).key[1]) # 0
    <3>1. PICK p : p = <<t, Len(stack[t])>>
      OBVIOUS
    <3>2. Top(t).key[1] \in Lists
      BY <1>8, <3>1, TopFacts DEF InitSession, At
    <3>3. PICK j : j = <<Top(t).key[1], NewSessionId(Top(t).key[1])>>
      OBVIOUS
    <3>4. j \in Keys /\ ~Exists(j)
      BY <1>1, <2>2, <3>2, <3>3, NewIdFree DEF Keys
    <3>5. sess'[k] = sess[k]
      BY <1>1, <1>2, <1>8, <2>2, <3>3, <3>4 DEF InitSession
    <3> QED BY <3>5
  <2> QED BY <2>1, <2>2
<1>9. CASE FindAgain(t) \/ LoadFails(t)
  <2>1. PICK y : sess' = [sess EXCEPT ![Top(t).key].ctx = y]
    BY <1>9 DEF FindAgain, LoadFails
  <2> QED BY <1>1, <2>1 DEF SessSet
<1>10. CASE \/ LoadDone(t) \/ SetBusy(t) \/ Release(t) \/ ReleaseState(t) \/ ClearBusy(t)
            \/ CloseSession(t) \/ Drop(t) \/ Destroy(t)
  <2>1. sess' = sess
    BY <1>10 DEF LoadDone, SetBusy, Release, ReleaseState, ClearBusy, CloseSession, Drop, Destroy
  <2> QED BY <1>3, <2>1
<1>11. CASE Entry(t) \/ TaCall(t) \/ TaReturn(t) \/ TaPanic(t)
  <2>1. sess' = sess
    BY <1>11 DEF Entry, EntryOpenSession, EntryInvokeCommand, EntryCloseSession, EntryCancel,
                 TaCall, TaReturn, TaPanic
  <2> QED BY <1>3, <2>1
<1> QED BY <1>4, <1>6, <1>7, <1>8, <1>9, <1>10, <1>11 DEF Acts, Step

LEMMA MarkStep ==
  ASSUME IInv, IInv', NEW t \in Threads, Acts(t), UnlinkMarked
  PROVE  UnlinkMarked'
<1> SUFFICES ASSUME NEW q \in Frames', F(q)'.pc = "unlinking"
             PROVE  sess'[F(q)'.key].unlink
  BY DEF UnlinkMarked
<1>1. CASE q \in Frames /\ F(q)' = F(q)
  <2>1. sess[F(q).key].unlink
    BY <1>1 DEF UnlinkMarked
  <2>2. Shape(F(q)) /\ (F(q).key[2] # 0 => F(q).key \in Keys)
    BY <1>1, FrameFacts DEF IInv
  <2>3. PICK k \in Keys : k = F(q).key
    BY <1>1, <2>2 DEF Shape
  <2>4. q \in On(k)'
    BY <1>1, <2>3 DEF On
  <2>5. Exists(k)'
    <3>1. \A j \in Keys : SessInv(j)'
      BY DEF IInv, Keys, Lists, Ids
    <3> QED BY <2>4, <3>1 DEF SessInv
  <2> QED BY <1>1, <2>1, <2>3, <2>5, MarkStays
<1>2. CASE UnlinkSession(t) /\ stack[t] # << >> /\ q = <<t, Len(stack[t])>> /\ F(q)' = Top(t)'
  <2>1. Top(t).pc = "unlink"
    BY <1>2 DEF UnlinkSession, At
  <2>2. PICK f : f = Top(t) /\ f \in FrameSet /\ f.key \in Keys
    BY <1>2, <2>1, AtUnlink
  <2>3. sess \in [Keys -> SessSet]
    BY DEF IInv, Types
  <2>4. CASE sess[f.key].ref_count = 1
    <3>1. PICK g : g = [f EXCEPT !.key = <<f.key[1], 0>>, !.pc = IF f.held THEN "clear" ELSE "drop"]
      OBVIOUS
    <3>2. Become(t, g)
      BY <1>2, <2>2, <2>4, <3>1 DEF UnlinkSession, FreeSession
    <3>3. g.pc # "unlinking"
      BY <2>2, <3>1 DEF FrameSet
    <3>4. Top(t)' = g
      BY <1>2, <3>2, BecomeTop DEF IInv
    <3> QED BY <1>2, <3>3, <3>4
  <2>5. CASE sess[f.key].ref_count # 1
    <3>1. PICK g : g = [f EXCEPT !.pc = "unlinking"]
      OBVIOUS
    <3>2. Become(t, g) /\ sess' = [sess EXCEPT ![f.key].unlink = TRUE]
      BY <1>2, <2>2, <2>5, <3>1 DEF UnlinkSession, Goto
    <3>3. g.key = f.key
      BY <2>2, <3>1 DEF FrameSet
    <3>4. Top(t)' = g
      BY <1>2, <3>2, BecomeTop DEF IInv
    <3>5. sess'[f.key].unlink
      BY <2>2, <2>3, <3>2 DEF SessSet
    <3> QED BY <1>2, <3>3, <3>4, <3>5
  <2> QED BY <2>4, <2>5
<1> QED BY <1>1, <1>2, NewFrames

(* tee_ta_init_session looks for a context, or has no id to give.           *)
Looks(t, f) ==
  /\ f \in FrameSet /\ f.op = "open" /\ f.ta \in Tas /\ f.ta = Top(t).ta /\ f.x = 0 /\ ~f.held
  /\ f.key[2] # 0 /\ f.key[1] = Top(t).key[1] /\ FindContext(t, f)

LEMMA Finds ==
  ASSUME IInv, NEW t \in Threads, InitSession(t) \/ FindAgain(t)
  PROVE  /\ stack[t] # << >>
         /\ \/ Return(t) /\ ctx' = ctx /\ wq' = wq
            \/ \E f : Looks(t, f)
<1>1. stack[t] # << >> /\ Top(t).pc \in {"init", "find"}
  BY DEF InitSession, FindAgain, At
<1>2. PICK p : p = <<t, Len(stack[t])>>
  OBVIOUS
<1>3. /\ F(p) = Top(t) /\ Top(t) \in FrameSet /\ Shape(Top(t)) /\ Top(t).key[1] \in Lists
  BY <1>1, <1>2, TopFacts
<1>4. /\ Top(t).op = "open" /\ Top(t).ta \in Tas /\ Top(t).x = 0 /\ ~Top(t).held
      /\ Top(t).pc = "find" => Top(t).key[2] # 0
  BY <1>1, <1>3 DEF Shape, InContext, Running, Ending
<1>5. CASE FindAgain(t)
  BY <1>1, <1>3, <1>4, <1>5 DEF FindAgain, Looks, At
<1>6. CASE InitSession(t) /\ NewSessionId(Top(t).key[1]) = 0
  BY <1>1, <1>6 DEF InitSession
<1>7. CASE InitSession(t) /\ NewSessionId(Top(t).key[1]) # 0
  <2>1. PICK id : id = NewSessionId(Top(t).key[1]) /\ id \in Ids /\ id # 0
    BY <1>3, <1>7, NewIdFree DEF IInv
  <2>2. PICK f : f = [Top(t) EXCEPT !.key = <<Top(t).key[1], id>>]
    OBVIOUS
  <2>3. FindContext(t, f)
    BY <1>7, <2>1, <2>2 DEF InitSession
  <2>4. /\ f \in FrameSet /\ f.op = "open" /\ f.ta = Top(t).ta /\ f.x = 0 /\ ~f.held
        /\ f.key[2] # 0 /\ f.key[1] = Top(t).key[1]
    BY <1>3, <1>4, <2>1, <2>2 DEF FrameSet
  <2> QED BY <1>1, <1>4, <2>3, <2>4 DEF Looks
<1> QED BY <1>5, <1>6, <1>7

(* Who loads a TA goes on until it is done or has failed.                   *)
LEMMA LoadStays ==
  ASSUME IInv, IInv', NEW t \in Threads, Acts(t), NEW p \in Frames, F(p).pc = "load"
  PROVE  \/ p \in Frames' /\ F(p)' = F(p)
         \/ (LoadDone(t) \/ LoadFails(t)) /\ F(p) = Top(t)
<1>1. PICK q : /\ q[1] = t /\ Moves(q)
               /\ q \in Frames => q = <<t, Len(stack[t])>> /\ stack[t] # << >>
  BY Local
<1>2. CASE p # q
  BY <1>1, <1>2 DEF Moves
<1>3. CASE p = q
  <2>1. F(p) = Top(t) /\ stack[t] # << >>
    BY <1>1, <1>3, TopFacts
  <2>2. Top(t).pc = "load"
    BY <2>1
  <2>3. ~\/ GetSession(t) \/ LockSession(t) \/ PutSession(t) \/ UnlinkSession(t) \/ UnlinkWoken(t)
         \/ InitSession(t) \/ FindAgain(t) \/ InitFails(t) \/ SetBusy(t) \/ Release(t)
    BY <2>2 DEF GetSession, LockSession, PutSession, UnlinkSession, UnlinkWoken, InitSession,
                FindAgain, InitFails, SetBusy, Release, At
  <2>4. ~\/ ReleaseState(t) \/ ClearBusy(t) \/ CloseSession(t) \/ Drop(t) \/ Destroy(t)
         \/ TaCall(t) \/ TaReturn(t) \/ TaPanic(t)
    BY <2>2 DEF ReleaseState, ClearBusy, CloseSession, Drop, Destroy, TaCall, TaReturn, TaPanic, At
  <2>5. ~Entry(t)
    BY <2>1 DEF Entry, EntryOpenSession, EntryInvokeCommand, EntryCloseSession, EntryCancel
  <2> QED BY <2>1, <2>3, <2>4, <2>5 DEF Acts, Step
<1> QED BY <1>2, <1>3

LEMMA InitWakeStep ==
  ASSUME IInv, IInv', QueueInv, QueueInv', NEW t \in Threads, Acts(t), Joins(t), InitWake, LoadInv
  PROVE  InitWake'
<1> SUFFICES ASSUME NEW e \in Elements(wq'), e.cv = InitCv
             PROVE  \E p \in Frames' : F(p)'.pc = "load" /\ F(p)'.ta = Top(e.thread)'.ta
  BY OnCvNext DEF InitWake
<1>1. CASE LoadDone(t) \/ LoadFails(t)
  <2>1. wq' = Broadcast(wq, InitCv)
    BY <1>1 DEF LoadDone, LoadFails
  <2>2. e.cv # InitCv
    BY <2>1, BroadcastEffect DEF QueueInv
  <2> QED BY <2>2
<1>2. CASE e \in Elements(wq) /\ ~LoadDone(t) /\ ~LoadFails(t)
  <2>1. PICK p \in Frames : F(p).pc = "load" /\ F(p).ta = Top(e.thread).ta
    BY <1>2 DEF InitWake, OnCv
  <2>2. p \in Frames' /\ F(p)' = F(p)
    BY <1>2, <2>1, LoadStays
  <2>3. e.thread # t /\ e.thread \in Threads /\ stack[e.thread] # << >>
    BY <1>2, DozesOn DEF QueueInv, Dozes
  <2>4. Top(e.thread)' = Top(e.thread)
    BY <2>3, TopStays
  <2> QED BY <2>1, <2>2, <2>4
<1>3. CASE e \notin Elements(wq)
  <2>1. e.thread = t /\ (At(t, "init") \/ At(t, "find"))
    BY <1>3 DEF Joins, WaitsAt
  <2>2. InitSession(t) \/ FindAgain(t)
    <3>1. Top(t).pc \in {"init", "find"} /\ stack[t] # << >>
      BY <2>1 DEF At
    <3>2. ~\/ GetSession(t) \/ LockSession(t) \/ PutSession(t) \/ UnlinkSession(t) \/ UnlinkWoken(t)
           \/ LoadDone(t) \/ LoadFails(t) \/ InitFails(t) \/ SetBusy(t) \/ Release(t)
      BY <3>1 DEF GetSession, LockSession, PutSession, UnlinkSession, UnlinkWoken, LoadDone,
                  LoadFails, InitFails, SetBusy, Release, At
    <3>3. ~\/ ReleaseState(t) \/ ClearBusy(t) \/ CloseSession(t) \/ Drop(t) \/ Destroy(t)
           \/ TaCall(t) \/ TaReturn(t) \/ TaPanic(t)
      BY <3>1 DEF ReleaseState, ClearBusy, CloseSession, Drop, Destroy, TaCall, TaReturn,
                  TaPanic, At
    <3>4. ~Entry(t)
      BY <3>1 DEF Entry, EntryOpenSession, EntryInvokeCommand, EntryCloseSession, EntryCancel
    <3> QED BY <3>2, <3>3, <3>4 DEF Acts, Step
  <2>3. wq' # wq
    BY <1>3
  <2>4. PICK f : Looks(t, f)
    BY <2>2, <2>3, Finds
  <2>5. /\ ContextOf(f.ta) # 0 /\ ctx[ContextOf(f.ta)].is_initializing
        /\ Top(t)'.ta = f.ta
    <3>1. f \in FrameSet /\ FindContext(t, f) /\ stack[t] # << >>
      BY <2>2, <2>4, Finds DEF Looks
    <3> QED BY <2>1, <2>3, <3>1, FindContextQueue
  <2>6. PICK x \in Ctxs : x = ContextOf(f.ta) /\ ctx[x].ta = f.ta
    BY <2>5, ContextOfIs DEF IInv
  <2>7. PICK p \in In(x) : F(p).pc = "load"
    BY <2>5, <2>6 DEF LoadInv
  <2>8. p \in Frames /\ F(p).ta = f.ta
    BY <2>6, <2>7 DEF LoadInv, In
  <2>9. Top(t).pc # "load"
    BY <2>1 DEF At
  <2>10. p \in Frames' /\ F(p)' = F(p)
    BY <2>7, <2>8, <2>9, LoadStays
  <2> QED BY <2>1, <2>5, <2>7, <2>8, <2>10
<1> QED BY <1>1, <1>2, <1>3

(* A step leaves the TA, the references and the loading of a context alone, *)
(* or is one of a few.                                                      *)
LEMMA CtxSteps ==
  ASSUME IInv, NEW t \in Threads, Acts(t)
  PROVE  \/ \A x \in Ctxs : /\ ctx'[x].ta = ctx[x].ta /\ ctx'[x].ref_count = ctx[x].ref_count
                            /\ ctx'[x].is_initializing = ctx[x].is_initializing
         \/ LoadDone(t) \/ LoadFails(t) \/ Drop(t) \/ Destroy(t) \/ InitSession(t) \/ FindAgain(t)
<1>1. ctx \in [Ctxs -> CtxSet]
  BY DEF IInv, Types
<1>2. CASE \/ GetSession(t) \/ LockSession(t) \/ PutSession(t) \/ UnlinkSession(t)
           \/ UnlinkWoken(t) \/ InitFails(t) \/ ReleaseState(t) \/ CloseSession(t)
  BY <1>2 DEF GetSession, LockSession, PutSession, UnlinkSession, UnlinkWoken, InitFails,
              ReleaseState, CloseSession
<1>3. CASE Entry(t) \/ TaCall(t)
  BY <1>3 DEF Entry, EntryOpenSession, EntryInvokeCommand, EntryCloseSession, EntryCancel, TaCall
<1>4. CASE SetBusy(t) \/ ClearBusy(t)
  <2>1. \/ ctx' = ctx \/ ctx' = [ctx EXCEPT ![Top(t).x].busy = TRUE]
        \/ ctx' = [ctx EXCEPT ![Top(t).x].busy = FALSE]
    BY <1>4 DEF SetBusy, ClearBusy
  <2> QED BY <1>1, <2>1 DEF CtxSet
<1>5. CASE TaReturn(t) \/ TaPanic(t)
  <2>1. \E b \in BOOLEAN : ctx' = [ctx EXCEPT ![Top(t).x].panicked = b]
    BY <1>5 DEF TaReturn, TaPanic
  <2> QED BY <1>1, <2>1 DEF CtxSet
<1>6. CASE Release(t)
  <2>1. ctx' = ctx \/ ctx' = [ctx EXCEPT ![Top(t).x].is_releasing = TRUE]
    BY <1>6 DEF Release
  <2> QED BY <1>1, <2>1 DEF CtxSet
<1> QED BY <1>2, <1>3, <1>4, <1>5, <1>6 DEF Acts, Step

LEMMA LoadStep ==
  ASSUME IInv, IInv', NEW t \in Threads, Acts(t), LoadInv
  PROVE  LoadInv'
<1>1. Types /\ Types' /\ ctx \in [Ctxs -> CtxSet]
  BY DEF IInv, Types
<1>2. ASSUME InitSession(t) \/ FindAgain(t)
      PROVE  \/ /\ ctx' = ctx
                /\ stack'[t] # << >> => Top(t)'.pc # "load"
             \/ /\ stack'[t] # << >> /\ Top(t)'.pc = "load" /\ Top(t)'.x \in Ctxs
                /\ \E r : /\ Made(r, Top(t)'.ta)
                          /\ ctx' = [ctx EXCEPT ![Top(t)'.x] = r]
             \/ /\ \E x \in Ctxs : ctx' = [ctx EXCEPT ![x].ref_count = @ + 1]
                /\ Top(t)'.pc # "load"
  <2>1. stack[t] # << >>
    BY <1>2, Finds
  <2>2. CASE Return(t) /\ ctx' = ctx
    <3>1. ASSUME stack'[t] # << >>, Top(t)'.pc = "load" PROVE FALSE
      <4>1. PICK p : p = <<t, Len(stack[t])>>
        OBVIOUS
      <4>2. Len(stack'[t]) = Len(stack[t]) - 1 /\ Moves(p)
        BY <1>1, <2>1, <2>2, <4>1, ReturnEffect
      <4>3. Len(stack[t]) \in Nat /\ Len(stack'[t]) \in Nat /\ Len(stack'[t]) >= 1
        BY <1>1, <3>1 DEF Types
      <4>4. PICK q : q = <<t, Len(stack'[t])>>
        OBVIOUS
      <4>5. q \in Frames' /\ F(q)' = Top(t)'
        <5>1. Len(stack'[t]) \in 1 .. Len(stack'[t])
          BY <4>3
        <5> QED BY <4>4, <5>1 DEF Frames, F, Top
      <4>6. q # p
        BY <4>1, <4>2, <4>3, <4>4
      <4>7. q \in Frames /\ F(q)' = F(q)
        BY <4>2, <4>5, <4>6 DEF Moves
      <4>8. F(p).pc # "load" /\ p \in Frames /\ Chain(p)
        BY <2>1, <4>1, <1>2, TopFacts, FrameFacts DEF InitSession, FindAgain, At, IInv
      <4>9. F(q).pc \in Calling
        <5>1. PICK n \in Nat : n = Len(stack[t])
          BY <4>3
        <5>4. PICK m \in Nat : m = Len(stack'[t]) /\ m >= 1
          BY <4>3
        <5>5. m = n - 1
          BY <4>2, <5>1, <5>4
        <5>2. Len(stack'[t]) = n - 1 /\ n # 1
          BY <5>4, <5>5
        <5>3. p[2] # 1 /\ q = <<p[1], p[2] - 1>>
          BY <4>1, <4>4, <5>1, <5>2
        <5> QED BY <4>8, <5>3 DEF Chain
      <4> QED BY <3>1, <4>5, <4>7, <4>9 DEF Calling
    <3> QED BY <2>2, <3>1
  <2>3. CASE \E f : Looks(t, f)
    <3>1. PICK f : Looks(t, f)
      BY <2>3
    <3>2. PICK g \in FrameSet : Become(t, g) /\ g.ta = f.ta /\ Found(g, f.ta)
      BY <3>1, FindContextIs DEF Looks
    <3>3. stack'[t] # << >> /\ Top(t)' = g
      BY <1>1, <2>1, <3>2, BecomeTop
    <3>4. CASE g.pc \in {"find", "init_fail"} /\ ctx' = ctx
      BY <3>3, <3>4
    <3>5. CASE /\ g.pc = "load" /\ g.x \in Ctxs
               /\ \E r : Made(r, f.ta) /\ ctx' = [ctx EXCEPT ![g.x] = r]
      BY <3>2, <3>3, <3>5
    <3>6. CASE /\ g.pc = "busy" /\ g.x \in Ctxs /\ ctx' = [ctx EXCEPT ![g.x].ref_count = @ + 1]
      BY <3>3, <3>6
    <3> QED BY <3>2, <3>4, <3>5, <3>6 DEF Found
  <2> QED BY <1>2, <2>2, <2>3, Finds
<1>3. ASSUME NEW q \in Frames', F(q)'.pc = "load" PROVE ctx'[F(q)'.x].ta = F(q)'.ta
  <2>1. CASE q \in Frames /\ F(q)' = F(q)
    <3>1. ctx[F(q).x].ta = F(q).ta /\ Shape(F(q)) /\ (F(q).x # 0 => F(q).x \in Ctxs)
      BY <1>3, <2>1, FrameFacts DEF LoadInv, IInv
    <3>2. F(q).x \in Ctxs /\ F(q).ta \in Tas
      BY <1>3, <2>1, <3>1 DEF Shape, InContext
    <3>3. ctx[F(q).x].ta # NoTa
      BY <3>1, <3>2, ManagerAssumption
    <3>4. ctx'[F(q).x].ta # NoTa
      <4>1. NoUseAfterFree'
        BY NotFreedNext
      <4>2. F(q)'.x # 0 => ctx'[F(q)'.x].ta # NoTa
        BY <4>1 DEF NoUseAfterFree
      <4>3. F(q).x # 0
        BY <3>2 DEF Ctxs
      <4> QED BY <2>1, <4>2, <4>3
    <3> QED BY <2>1, <3>1, <3>2, <3>3, <3>4, TaConst
  <2>2. CASE (InitSession(t) \/ FindAgain(t)) /\ F(q)' = Top(t)' /\ stack[t] # << >>
             /\ q = <<t, Len(stack[t])>>
    <3>1. stack'[t] # << >>
      <4>1. PICK i \in 1 .. Len(stack'[t]) : q = <<t, i>>
        BY <2>2 DEF Frames
      <4> QED BY <4>1
    <3>2. PICK r : Made(r, Top(t)'.ta) /\ ctx' = [ctx EXCEPT ![Top(t)'.x] = r]
                   /\ Top(t)'.x \in Ctxs
      BY <1>2, <1>3, <2>2, <3>1
    <3> QED BY <1>1, <2>2, <3>2 DEF Made
  <2> QED BY <1>3, <2>1, <2>2, NewFrames
<1>4. ASSUME NEW x \in Ctxs, ctx[x].is_initializing,
             (LoadDone(t) \/ LoadFails(t)) => Top(t).x # x
      PROVE  \E p \in In(x)' : F(p)'.pc = "load"
  <2>1. PICK p \in In(x) : F(p).pc = "load"
    BY <1>4 DEF LoadInv
  <2>2. p \in Frames /\ F(p).x = x
    BY <2>1 DEF In
  <2>3. p \in Frames' /\ F(p)' = F(p)
    BY <1>4, <2>1, <2>2, LoadStays
  <2> QED BY <2>1, <2>2, <2>3 DEF In
<1>5. ASSUME NEW x \in Ctxs, ctx'[x].is_initializing
      PROVE  \E p \in In(x)' : F(p)'.pc = "load"
  <2>1. CASE ctx[x].is_initializing /\ ((LoadDone(t) \/ LoadFails(t)) => Top(t).x # x)
    BY <1>4, <2>1
  <2>2. CASE LoadDone(t) \/ LoadFails(t)
    <3>1. \/ ctx' = [ctx EXCEPT ![Top(t).x].is_initializing = FALSE]
          \/ ctx' = [ctx EXCEPT ![Top(t).x] = NoCtx]
      BY <2>2 DEF LoadDone, LoadFails
    <3>2. ctx[x].is_initializing /\ Top(t).x # x
      BY <1>1, <1>5, <3>1, NoCtxIs DEF CtxSet
    <3> QED BY <2>1, <3>2
  <2>3. CASE Drop(t)
    <3>1. \E a, b : ctx' = [ctx EXCEPT ![Top(t).x].ref_count = a, ![Top(t).x].is_releasing = b]
      BY <2>3 DEF Drop
    <3>2. ctx[x].is_initializing
      BY <1>1, <1>5, <3>1 DEF CtxSet
    <3>3. ~LoadDone(t) /\ ~LoadFails(t)
      BY <2>3 DEF Drop, LoadDone, LoadFails, At
    <3> QED BY <2>1, <3>2, <3>3
  <2>4. CASE Destroy(t)
    <3>1. ctx' = ctx \/ ctx' = [ctx EXCEPT ![Top(t).x] = NoCtx]
      BY <2>4 DEF Destroy
    <3>2. ctx[x].is_initializing
      BY <1>1, <1>5, <3>1, NoCtxIs
    <3>3. ~LoadDone(t) /\ ~LoadFails(t)
      BY <2>4 DEF Destroy, LoadDone, LoadFails, At
    <3> QED BY <2>1, <3>2, <3>3
  <2>5. CASE InitSession(t) \/ FindAgain(t)
    <3>1. ~LoadDone(t) /\ ~LoadFails(t)
      BY <2>5 DEF InitSession, FindAgain, LoadDone, LoadFails, At
    <3>2. CASE ctx[x].is_initializing
      BY <2>1, <3>1, <3>2
    <3>3. CASE ~ctx[x].is_initializing
      <4>1. /\ stack'[t] # << >> /\ Top(t)'.pc = "load" /\ Top(t)'.x \in Ctxs
            /\ \E r : ctx' = [ctx EXCEPT ![Top(t)'.x] = r]
        <5>1. CASE \E y \in Ctxs : ctx' = [ctx EXCEPT ![y].ref_count = @ + 1]
          BY <1>1, <1>5, <3>3, <5>1 DEF CtxSet
        <5> QED BY <1>2, <1>5, <2>5, <3>3, <5>1
      <4>2. Top(t)'.x = x
        BY <1>1, <1>5, <3>3, <4>1
      <4>3. PICK q : q = <<t, Len(stack'[t])>>
        OBVIOUS
      <4>4. Len(stack'[t]) \in 1 .. Len(stack'[t])
        BY <1>1, <4>1 DEF Types
      <4>5. q \in Frames' /\ F(q)' = Top(t)'
        BY <4>3, <4>4 DEF Frames, F, Top
      <4> QED BY <4>1, <4>2, <4>5 DEF In
    <3> QED BY <3>2, <3>3
  <2> QED BY <1>5, <2>1, <2>2, <2>3, <2>4, <2>5, CtxSteps
<1> QED BY <1>3, <1>5 DEF LoadInv, Ctxs

LEMMA MultiStep ==
  ASSUME IInv, IInv', NEW t \in Threads, Acts(t), MultiInv
  PROVE  MultiInv'
<1>1. Types /\ ctx \in [Ctxs -> CtxSet]
  BY DEF IInv, Types
<1>2. ASSUME \A x \in Ctxs : \/ ctx'[x].ta = NoTa
                             \/ /\ ctx'[x].ta = ctx[x].ta
                                /\ \/ "SINGLE_INSTANCE" \in Flags[ctx[x].ta]
                                   \/ ctx'[x].ref_count = ctx[x].ref_count
                                   \/ ctx'[x].ref_count = ctx[x].ref_count - 1
                             \/ ctx'[x].ref_count = 1
      PROVE  MultiInv'
  <2>1. \A x \in Ctxs : ctx[x].ref_count \in Nat
    BY <1>1 DEF CtxSet
  <2> QED BY <1>2, <2>1 DEF MultiInv, Has, Ctxs
<1>3. CASE LoadDone(t)
  <2>1. ctx' = [ctx EXCEPT ![Top(t).x].is_initializing = FALSE]
    BY <1>3 DEF LoadDone
  <2>2. \A x \in Ctxs : ctx'[x].ta = ctx[x].ta /\ ctx'[x].ref_count = ctx[x].ref_count
    BY <1>1, <2>1 DEF CtxSet
  <2> QED BY <1>2, <2>2
<1>4. CASE LoadFails(t) \/ Destroy(t)
  <2>1. ctx' = ctx \/ ctx' = [ctx EXCEPT ![Top(t).x] = NoCtx]
    BY <1>4 DEF LoadFails, Destroy
  <2>2. \A x \in Ctxs : ctx'[x] = ctx[x] \/ ctx'[x].ta = NoTa
    BY <1>1, <2>1, NoCtxIs
  <2> QED BY <1>2, <2>2
<1>5. CASE Drop(t)
  <2>1. \E b : ctx' = [ctx EXCEPT ![Top(t).x].ref_count = @ - 1, ![Top(t).x].is_releasing = b]
    BY <1>5 DEF Drop
  <2>2. \A x \in Ctxs : /\ ctx'[x].ta = ctx[x].ta
                        /\ \/ ctx'[x].ref_count = ctx[x].ref_count
                           \/ ctx'[x].ref_count = ctx[x].ref_count - 1
    BY <1>1, <2>1 DEF CtxSet
  <2> QED BY <1>2, <2>2
<1>6. CASE InitSession(t) \/ FindAgain(t)
  <2>1. CASE ctx' = ctx
    BY <1>2, <2>1
  <2>2. CASE \E f : Looks(t, f)
    <3>1. PICK f : Looks(t, f)
      BY <2>2
    <3>2. f.ta \in Tas /\ FindContext(t, f)
      BY <3>1 DEF Looks
    <3>3. CASE NewContext(t, f)
      <4>1. CASE \E x \in Ctxs, r \in CtxSet : Made(r, f.ta) /\ ctx' = [ctx EXCEPT ![x] = r]
        <5>1. \A x \in Ctxs : ctx'[x] = ctx[x] \/ ctx'[x].ref_count = 1
          BY <1>1, <4>1 DEF Made
        <5> QED BY <1>2, <5>1
      <4>2. \/ ctx' = ctx
            \/ \E x \in Ctxs, r \in CtxSet : Made(r, f.ta) /\ ctx' = [ctx EXCEPT ![x] = r]
        <5>1. \/ /\ Become(t, [f EXCEPT !.pc = "init_fail"])
                 /\ ctx' = ctx /\ tee_ctxes' = tee_ctxes
              \/ \E x \in Ctxs, r \in CtxSet :
                    /\ ctx[x].ta = NoTa /\ Made(r, f.ta) /\ ctx' = [ctx EXCEPT ![x] = r]
                    /\ tee_ctxes' = Append(tee_ctxes, x)
                    /\ Become(t, [f EXCEPT !.x = x, !.pc = "load"])
          BY <1>1, <3>2, <3>3, NewContextIs
        <5> QED BY <5>1
      <4> QED BY <2>1, <4>1, <4>2
    <3>4. CASE ~NewContext(t, f) /\ ctx' # ctx
      <4>1. PICK x : /\ x = ContextOf(f.ta) /\ x # 0 /\ Has(x, "SINGLE_INSTANCE")
                     /\ ctx' = [ctx EXCEPT ![x].ref_count = @ + 1]
        BY <3>2, <3>4 DEF FindContext
      <4>2. x \in Ctxs
        BY <1>1, <4>1, ContextOfIs
      <4>3. \A y \in Ctxs : ctx'[y] = ctx[y] \/ (y = x /\ ctx'[y].ta = ctx[y].ta)
        BY <1>1, <4>1, <4>2 DEF CtxSet
      <4>4. "SINGLE_INSTANCE" \in Flags[ctx[x].ta]
        BY <4>1 DEF Has
      <4> QED BY <1>2, <4>3, <4>4
    <3> QED BY <2>1, <3>3, <3>4
  <2> QED BY <1>6, <2>1, <2>2, Finds
<1> QED BY <1>2, <1>3, <1>4, <1>5, <1>6, CtxSteps

LEMMA WaitStep ==
  ASSUME IInv, IInv', NEW t \in Threads, Acts(t), WInv
  PROVE  WInv'
<1>1. /\ QueueInv /\ SiWake /\ SiOthers /\ InitWake /\ UnlinkMarked /\ LoadInv /\ MultiInv
      /\ \A k \in Keys : SessWake(k)
  BY DEF WInv, SessWake
<1>2. QueueInv' /\ Joins(t)
  BY <1>1, QueueStep
<1>3. SiWake' /\ SiOthers'
  BY <1>1, <1>2, SiStep, SiOthersStep
<1>4. InitWake'
  BY <1>1, <1>2, InitWakeStep
<1>5. \A k \in Keys : SessWake(k)'
  BY <1>1, <1>2, WakeStep
<1>6. UnlinkMarked' /\ LoadInv' /\ MultiInv'
  BY <1>1, MarkStep, LoadStep, MultiStep
<1> QED BY <1>2, <1>3, <1>4, <1>5, <1>6 DEF WInv, SessWake, Keys, Lists, Ids

LEMMA WaitInv ==
  Spec => [](IInv /\ WInv)
<1>1. Init => WInv
  <2> SUFFICES ASSUME Init PROVE WInv
    OBVIOUS
  <2>1. wq = << >> /\ Elements(wq) = {} /\ \A cv : OnCv(cv) = {}
    BY DEF Init, Elements, OnCv
  <2>2. Frames = {}
    BY DEF Init, Frames
  <2>3. QueueInv
    BY <2>1 DEF QueueInv, NoRepeats, OneEach
  <2>4. \A x \in Ctxs : ctx[x].ref_count = 0 /\ ~ctx[x].is_initializing
    BY DEF Init, NoCtx
  <2>5. LoadInv /\ MultiInv
    BY <2>2, <2>4 DEF LoadInv, MultiInv
  <2>6. UnlinkMarked
    BY <2>2 DEF UnlinkMarked
  <2> QED BY <2>1, <2>3, <2>5, <2>6 DEF WInv, SiWake, SiOthers, InitWake, LockWake, RefcWake
<1>2. IInv /\ IInv' /\ WInv /\ [Next]_vars => WInv'
  <2> SUFFICES ASSUME IInv, IInv', WInv, [Next]_vars PROVE WInv'
    OBVIOUS
  <2>1. CASE vars' = vars
    <3>1. stack' = stack /\ wq' = wq /\ sess' = sess /\ ctx' = ctx /\ si_thread' = si_thread
      BY <2>1 DEF vars
    <3> QED BY <3>1 DEF WInv, QueueInv, NoRepeats, OneEach, Elements, Dozes, Top, Has, SiWake, SiOthers, OnCv,
               ReadySingle, Awake, At, InitWake, Frames, F, UnlinkMarked, LockWake, ReadyLock,
               RefcWake, LoadInv, In, MultiInv, Sleepers, Cvs, Keys, Lists, Ids, Ctxs
  <2>2. CASE Next
    <3>1. PICK t \in Threads : Acts(t)
      BY <2>2 DEF Next, Acts
    <3> QED BY <3>1, WaitStep
  <2> QED BY <2>1, <2>2
<1> QED BY <1>1, <1>2, Inductive, PTL DEF Spec

----------------------------------------------------------------------------
(* Who sleeps waits for a thread that is awake, or nearer to one. *)

(* A frame that calls nobody is the last of its thread.                     *)
LEMMA LastFrame ==
  ASSUME IInv, NEW p \in Frames, F(p).pc \notin Calling
  PROVE  /\ p = <<p[1], Len(stack[p[1]])>> /\ p[1] \in Threads /\ stack[p[1]] # << >>
         /\ F(p) = Top(p[1])
<1>0. PICK t \in Threads : \E i \in 1 .. Len(stack[t]) : p = <<t, i>>
  BY FrameIs
<1>1. PICK i \in 1 .. Len(stack[t]) : p = <<t, i>>
  BY <1>0
<1>2. Len(stack[t]) \in Nat
  BY DEF IInv, Types
<1>3. i = Len(stack[t])
  <2> SUFFICES ASSUME i # Len(stack[t]) PROVE FALSE
    OBVIOUS
  <2>1. i + 1 \in 1 .. Len(stack[t]) /\ i + 1 # 1 /\ (i + 1) - 1 = i
    BY <1>2
  <2>2. PICK q : q = <<t, i + 1>>
    OBVIOUS
  <2>3. q \in Frames
    BY <2>1, <2>2, FrameIs
  <2>4. Chain(q)
    BY <2>3, FrameFacts DEF IInv
  <2>5. F(<<t, i>>).pc \in Calling
    BY <2>1, <2>2, <2>4 DEF Chain
  <2> QED BY <1>1, <2>5
<1>4. stack[t] # << >>
  BY <1>1, <1>2, <1>3
<1> QED BY <1>1, <1>3, <1>4 DEF F, Top

(* Only calls of the normal world wait for a session's lock: a TA's own     *)
(* sessions are used by one thread at a time.                               *)
LEMMA LockSleeper ==
  ASSUME IInv, WInv, NEW k \in Keys, NEW e \in Elements(wq), e.cv = LockCv(k)
  PROVE  /\ e.thread \in Threads /\ k[1] = 0 /\ Top(e.thread).pc = "lock"
         /\ Top(e.thread).key = k
         /\ \A p \in Frames : p[1] = e.thread => F(p).pc = "lock"
<1>1. QueueInv /\ LockWake(k) /\ OnCv(LockCv(k)) # {}
  BY DEF WInv, OnCv
<1>2. PICK u \in Threads : u = e.thread
  BY <1>1, Sleeper
<1>3. PICK q : q = <<u, Len(stack[u])>>
  OBVIOUS
<1>4. /\ q \in On(k) /\ F(q) = Top(u) /\ stack[u] # << >> /\ Top(u).pc = "lock" /\ Top(u).key = k
  BY <1>1, <1>2, <1>3, Sleeper
<1>5. q \in Frames /\ F(q).key = k /\ q[1] = u /\ ~Locks(F(q))
  BY <1>3, <1>4 DEF On, Locks
<1>6. k[1] = 0
  <2> SUFFICES ASSUME k[1] # 0 PROVE FALSE
    OBVIOUS
  <2>1. \A p \in On(k) : p = q
    BY <1>5, OneCall DEF On
  <2>2. sess[k].lock_thread = NoThread
    BY <1>5, <2>1 DEF IInv, SessInv
  <2>3. PICK v \in Threads : ReadyLock(v, k)
    BY <1>1, <2>2 DEF LockWake
  <2>4. PICK r : r = <<v, Len(stack[v])>>
    OBVIOUS
  <2>5. r \in Frames /\ F(r).key = k
    BY <2>3, <2>4, TopFacts DEF ReadyLock, At
  <2>6. r = q
    BY <2>1, <2>5 DEF On
  <2>7. v = u
    BY <1>3, <2>4, <2>6
  <2> QED BY <1>2, <2>3, <2>7, AwakeIs DEF ReadyLock
<1>7. q[2] = 1
  BY <1>5, <1>6, FirstFrame
<1>8. ASSUME NEW p \in Frames, p[1] = u PROVE F(p).pc = "lock"
  <2>1. PICK i \in 1 .. Len(stack[u]) : p = <<u, i>>
    BY <1>8 DEF Frames
  <2>2. Len(stack[u]) = 1
    BY <1>3, <1>7
  <2>3. p = q
    BY <1>3, <2>1, <2>2
  <2> QED BY <1>4, <2>3
<1> QED BY <1>2, <1>4, <1>6, <1>8

(* The rank of what a thread sleeps for.                                    *)
Rank(cv) == IF cv[1] = "lock" THEN 2 ELSE IF cv[1] = "single_instance" THEN 1 ELSE 0

(* u is not in t's way for ever.                                            *)
Nearer(t, u) == Awake(u) \/ Rank(CvOf(u)) < Rank(CvOf(t))

LEMMA CvOfIs ==
  ASSUME QueueInv, NEW e \in Elements(wq)
  PROVE  CvOf(e.thread) = e.cv
<1>1. \E d \in Elements(wq) : d.thread = e.thread
  OBVIOUS
<1>2. PICK d : d = CHOOSE c \in Elements(wq) : c.thread = e.thread
  OBVIOUS
<1>3. d \in Elements(wq) /\ d.thread = e.thread
  BY <1>1, <1>2
<1>4. d = e
  BY <1>3 DEF QueueInv, OneEach
<1> QED BY <1>2, <1>4 DEF CvOf

(* What u has that a sleeper on cv, of thread t, waits for.                 *)
Blocks(t, cv, u) ==
  LET k == <<cv[2], cv[3]>> IN
  CASE cv[1] = "single_instance" ->
         si_thread = u \/ (si_thread = NoThread /\ Takes(u, "busy"))
    [] cv[1] = "busy" ->
         \/ \E i \in 1 .. Len(stack[u]) : stack[u][i].x = cv[2] /\ stack[u][i].held
         \/ ~ctx[cv[2]].busy /\ Takes(u, "busy") /\ Top(u).x = cv[2]
    [] cv[1] = "lock" ->
         \/ sess[k].lock_thread = u
         \/ sess[k].lock_thread = NoThread /\ Takes(u, "lock") /\ Top(u).key = k
    [] cv[1] = "refc" ->
         \E i \in 1 .. Len(stack[u]) : HoldsSession(stack[u][i]) /\ stack[u][i].key = k
    [] cv[1] = "init" ->
         \E i \in 1 .. Len(stack[u]) :
             stack[u][i].pc = "load" /\ stack[u][i].ta = Top(t).ta

LEMMA WaitsForIs ==
  ASSUME NEW t, NEW u
  PROVE  u \in WaitsFor(t) <=> u \in Threads /\ u # t /\ Blocks(t, CvOf(t), u)
BY DEF WaitsFor, Blocks

LEMMA AsleepIs ==
  ASSUME NEW t
  PROVE  /\ t \in Asleep <=> \E e \in Elements(wq) : e.thread = t
         /\ t \in Asleep <=> ~Awake(t)
<1>1. t \in Asleep <=> \E e \in Elements(wq) : e.thread = t
  BY DEF Asleep, Elements
<1> QED BY <1>1, AwakeIs

(* Somebody is in the sleeper's way, and is awake or nearer to one who is.  *)
Ahead(e) ==
  \E u \in Threads : u # e.thread /\ Blocks(e.thread, e.cv, u) /\ Nearer(e.thread, u)

LEMMA AheadRefc ==
  ASSUME IInv, WInv, NEW k \in Keys, NEW e \in Elements(wq), e.cv = RefcCv(k)
  PROVE  Ahead(e)
<1>1. QueueInv /\ RefcWake(k) /\ OnCv(RefcCv(k)) # {} /\ UnlinkMarked
  BY DEF WInv, OnCv
<1>2. PICK t \in Threads : t = e.thread
  BY <1>1, Sleeper
<1>3. PICK q : q = <<t, Len(stack[t])>>
  OBVIOUS
<1>4. /\ q \in On(k) /\ F(q) = Top(t) /\ Top(t).pc = "unlinking" /\ q[1] = t
  BY <1>1, <1>2, <1>3, Sleeper
<1>5. q \in Frames /\ F(q).key = k /\ F(q).op = "close" /\ Locks(F(q)) /\ F(q).pc = "unlinking"
  <2>1. q \in Frames /\ F(q).key = k /\ F(q).pc = "unlinking"
    BY <1>4 DEF On
  <2> QED BY <2>1, FrameFacts DEF IInv, Shape, Locks, Ending
<1>6. IsFiniteSet(Users(k)) /\ Users(k) \in SUBSET Frames
  <2>1. IsFiniteSet(Frames) /\ Users(k) \in SUBSET Frames
    BY DEF IInv, Types, Users
  <2> QED BY <2>1, FS_Subset
<1>7. PICK p \in Users(k) : p # q
  <2> SUFFICES ASSUME \A p \in Users(k) : p = q PROVE FALSE
    OBVIOUS
  <2>1. q \in Users(k)
    BY <1>5 DEF Users
  <2>2. Users(k) = {q}
    BY <2>1
  <2>3. sess[k].ref_count = 1
    BY <1>6, <2>2, FS_Singleton DEF IInv, SessInv
  <2> QED BY <1>1, <2>3 DEF RefcWake
<1>8. p \in Frames /\ p \in On(k) /\ F(p).key = k /\ F(p).pc # "get"
  BY <1>7 DEF Users, On
<1>9. F(p).op \notin {"open", "close"} /\ ~Locks(F(p))
  BY <1>4, <1>5, <1>7, <1>8 DEF IInv, SessInv
<1>10. F(p).pc \in {"lock", "put"}
  BY <1>8, <1>9, FrameFacts DEF IInv, Shape, Locks
<1>11. /\ p = <<p[1], Len(stack[p[1]])>> /\ p[1] \in Threads /\ stack[p[1]] # << >>
       /\ F(p) = Top(p[1])
  BY <1>8, <1>10, LastFrame DEF Calling
<1>12. PICK u \in Threads : u = p[1]
  BY <1>11
<1>13. u # t
  BY <1>4, <1>5, <1>7, <1>8, <1>12, OneOfThread
<1>14. Awake(u)
  <2>1. CASE F(p).pc = "put"
    BY <1>1, <1>11, <1>12, <2>1, Wakeful
  <2>2. CASE F(p).pc = "lock"
    <3> SUFFICES ASSUME NEW d \in Elements(wq), d.thread = u PROVE FALSE
      BY AwakeIs
    <3>1. Dozes(d) /\ Top(d.thread).pc = "lock" /\ Top(d.thread).key = k
      BY <1>1, <1>8, <1>11, <1>12, <2>2 DEF QueueInv
    <3>2. d.cv = LockCv(k)
      BY <3>1 DEF Dozes
    <3>3. ~sess[k].unlink
      BY <3>2 DEF WInv, LockWake, OnCv
    <3> QED BY <1>1, <1>5, <3>3 DEF UnlinkMarked
  <2> QED BY <1>10, <2>1, <2>2
<1>15. Blocks(t, e.cv, u)
  <2>1. PICK i : i = p[2] /\ i \in 1 .. Len(stack[u]) /\ stack[u][i] = F(p)
    <3>1. PICK v \in Threads : \E i \in 1 .. Len(stack[v]) : p = <<v, i>>
      BY <1>8, FrameIs
    <3> QED BY <1>12, <3>1 DEF F
  <2>2. k[2] # 0 /\ <<k[1], k[2]>> = k
    BY DEF Keys, Ids
  <2>3. HoldsSession(stack[u][i]) /\ stack[u][i].key = k
    BY <1>8, <2>1, <2>2 DEF HoldsSession
  <2>4. e.cv[1] = "refc" /\ <<e.cv[2], e.cv[3]>> = k
    BY <2>2 DEF RefcCv
  <2> QED BY <2>1, <2>3, <2>4 DEF Blocks
<1> QED BY <1>2, <1>13, <1>14, <1>15 DEF Ahead, Nearer

LEMMA AheadInit ==
  ASSUME IInv, WInv, NEW e \in Elements(wq), e.cv = InitCv
  PROVE  Ahead(e)
<1>1. QueueInv /\ e \in OnCv(InitCv)
  BY DEF WInv, OnCv
<1>2. PICK p \in Frames : F(p).pc = "load" /\ F(p).ta = Top(e.thread).ta
  BY <1>1 DEF WInv, InitWake
<1>3. /\ p[1] \in Threads /\ stack[p[1]] # << >> /\ F(p) = Top(p[1])
  BY <1>2, LastFrame DEF Calling
<1>4. PICK u \in Threads : u = p[1]
  BY <1>3
<1>5. Awake(u)
  BY <1>1, <1>2, <1>3, <1>4, Wakeful
<1>6. u # e.thread
  BY <1>5, AwakeIs
<1>7. PICK i : i = p[2] /\ i \in 1 .. Len(stack[u]) /\ stack[u][i] = F(p)
  <2>1. PICK v \in Threads : \E i \in 1 .. Len(stack[v]) : p = <<v, i>>
    BY <1>2, FrameIs
  <2> QED BY <1>4, <2>1 DEF F
<1>8. e.cv[1] = "init"
  BY DEF InitCv
<1>9. Blocks(e.thread, e.cv, u)
  BY <1>2, <1>7, <1>8 DEF Blocks
<1> QED BY <1>5, <1>6, <1>9 DEF Ahead, Nearer

(* A sleeper on no lock, and not on the single-instance lock, has rank 0.   *)
LEMMA RankOf ==
  ASSUME IInv, WInv, NEW u \in Threads
  PROVE  \/ Awake(u)
         \/ Rank(CvOf(u)) = 0
         \/ \E d \in Elements(wq) : d.thread = u /\ d.cv = SiCv /\ Rank(CvOf(u)) = 1
         \/ \E d \in Elements(wq) : \E k \in Keys : d.thread = u /\ d.cv = LockCv(k)
<1> SUFFICES ASSUME ~Awake(u) PROVE
            \/ Rank(CvOf(u)) = 0
            \/ \E d \in Elements(wq) : d.thread = u /\ d.cv = SiCv /\ Rank(CvOf(u)) = 1
            \/ \E d \in Elements(wq) : \E k \in Keys : d.thread = u /\ d.cv = LockCv(k)
  OBVIOUS
<1>1. PICK d \in Elements(wq) : d.thread = u
  BY AwakeIs
<1>2. QueueInv /\ Dozes(d)
  BY DEF WInv, QueueInv
<1>3. CvOf(u) = d.cv
  BY <1>1, <1>2, CvOfIs
<1>4. CASE d.cv = SiCv
  BY <1>1, <1>3, <1>4 DEF SiCv, Rank
<1>5. CASE d.cv = InitCv
  BY <1>3, <1>5 DEF InitCv, Rank
<1>6. CASE d.cv = RefcCv(Top(u).key)
  BY <1>3, <1>6 DEF RefcCv, Rank
<1>7. CASE d.cv = LockCv(Top(u).key) /\ Top(u).pc = "lock"
  <2>1. stack[u] # << >>
    BY <1>1, <1>2 DEF Dozes
  <2>2. PICK p : p = <<u, Len(stack[u])>>
    OBVIOUS
  <2>3. Top(u).key \in Keys
    BY <1>7, <2>1, <2>2, TopFacts DEF Shape
  <2> QED BY <1>1, <1>7, <2>3
<1> QED BY <1>1, <1>2, <1>4, <1>5, <1>6, <1>7 DEF Dozes

LEMMA AheadSi ==
  ASSUME IInv, WInv, NEW e \in Elements(wq), e.cv = SiCv
  PROVE  Ahead(e)
<1>1. QueueInv /\ e \in OnCv(SiCv) /\ CvOf(e.thread) = SiCv /\ Rank(SiCv) = 1
  BY CvOfIs DEF WInv, OnCv, Rank, SiCv
<1>2. e.cv[1] = "single_instance"
  BY DEF SiCv
<1>3. CASE si_thread = NoThread
  <2>1. PICK u \in Threads : ReadySingle(u)
    BY <1>1, <1>3 DEF WInv, SiWake
  <2>2. Awake(u) /\ Takes(u, "busy") /\ u # e.thread
    BY <2>1, AwakeIs, AsleepIs DEF ReadySingle, Takes
  <2>3. Blocks(e.thread, e.cv, u)
    BY <1>2, <1>3, <2>2 DEF Blocks
  <2> QED BY <2>2, <2>3 DEF Ahead, Nearer
<1>4. CASE si_thread # NoThread
  <2>1. si_thread \in Threads
    BY <1>4 DEF IInv, Types
  <2>2. PICK u \in Threads : u = si_thread
    BY <2>1
  <2>3. u # e.thread
    BY <1>1, <2>2 DEF WInv, SiOthers
  <2>4. PICK p \in Single : p[1] = u
    <3>1. Single # {}
      <4> SUFFICES ASSUME Single = {} PROVE FALSE
        OBVIOUS
      <4>1. si_count = 0
        BY FS_EmptySet DEF IInv, SingleInv
      <4> QED BY <1>4, <4>1 DEF IInv, SingleInv
    <3> QED BY <2>2, <3>1 DEF IInv, SingleInv
  <2>5. p \in Frames /\ F(p).held /\ F(p).pc # "lock"
    <3>1. p \in Frames /\ F(p).held
      BY DEF Single
    <3> QED BY <3>1, FrameFacts DEF IInv, Shape, Running
  <2>6. \A d \in Elements(wq) : d.thread = u => d.cv # SiCv
    BY <2>2 DEF WInv, SiOthers, OnCv
  <2>7. \A d \in Elements(wq) : \A k \in Keys : d.thread = u => d.cv # LockCv(k)
    BY <2>4, <2>5, LockSleeper
  <2>8. Awake(u) \/ Rank(CvOf(u)) = 0
    BY <2>6, <2>7, RankOf
  <2>9. Nearer(e.thread, u)
    BY <1>1, <2>8 DEF Nearer
  <2>10. Blocks(e.thread, e.cv, u)
    BY <1>2, <2>2 DEF Blocks
  <2> QED BY <2>3, <2>9, <2>10 DEF Ahead
<1> QED BY <1>3, <1>4

LEMMA AheadLock ==
  ASSUME IInv, WInv, NEW k \in Keys, NEW e \in Elements(wq), e.cv = LockCv(k)
  PROVE  Ahead(e)
<1>1. QueueInv /\ LockWake(k) /\ OnCv(LockCv(k)) # {} /\ CvOf(e.thread) = LockCv(k)
  BY CvOfIs DEF WInv, OnCv
<1>2. e.cv[1] = "lock" /\ <<e.cv[2], e.cv[3]>> = k /\ Rank(LockCv(k)) = 2
  BY DEF LockCv, Rank, Keys
<1>3. PICK t \in Threads : t = e.thread
  BY <1>1, Sleeper
<1>4. CASE sess[k].lock_thread = NoThread
  <2>1. PICK u \in Threads : ReadyLock(u, k)
    BY <1>1, <1>4 DEF LockWake
  <2>2. Awake(u) /\ Takes(u, "lock") /\ u # e.thread /\ Top(u).key = k
    BY <2>1, AwakeIs, AsleepIs DEF ReadyLock, Takes
  <2>3. Blocks(e.thread, e.cv, u)
    BY <1>2, <1>4, <2>2 DEF Blocks
  <2> QED BY <2>2, <2>3 DEF Ahead, Nearer
<1>5. CASE sess[k].lock_thread # NoThread
  <2>1. PICK p \in On(k) : Locks(F(p)) /\ p[1] = sess[k].lock_thread
    BY <1>5 DEF IInv, SessInv
  <2>2. p \in Frames /\ p[1] \in Threads
    BY <2>1, FrameFacts DEF On, IInv
  <2>3. PICK u \in Threads : u = p[1]
    BY <2>2
  <2>4. \A d \in Elements(wq) : \A j \in Keys : d.thread = u => d.cv # LockCv(j)
    BY <2>1, <2>2, <2>3, LockSleeper DEF Locks
  <2>5. u # t
    BY <1>3, <2>4
  <2>6. Awake(u) \/ Rank(CvOf(u)) = 0 \/ Rank(CvOf(u)) = 1
    BY <2>4, RankOf
  <2>7. Nearer(e.thread, u)
    BY <1>1, <1>2, <2>6 DEF Nearer
  <2>8. Blocks(e.thread, e.cv, u)
    BY <1>2, <2>1, <2>3 DEF Blocks
  <2> QED BY <1>3, <2>5, <2>7, <2>8 DEF Ahead
<1> QED BY <1>4, <1>5

LEMMA AllAhead ==
  ASSUME IInv, WInv, NEW e \in Elements(wq)
  PROVE  Ahead(e)
<1>1. QueueInv /\ Dozes(e)
  BY DEF WInv, QueueInv
<1>2. PICK u \in Threads : u = e.thread
  <2>1. PICK i \in 1 .. Len(wq) : e = wq[i]
    BY DEF Elements
  <2>2. wq[i] \in Sleepers
    BY <1>1 DEF QueueInv
  <2> QED BY <2>1, <2>2 DEF Sleepers
<1>3. PICK p : p = <<u, Len(stack[u])>>
  OBVIOUS
<1>4. Top(u).pc \in {"lock", "unlinking"} => Top(u).key \in Keys
  BY <1>1, <1>2, <1>3, TopFacts DEF Shape, Dozes
<1> QED BY <1>1, <1>2, <1>4, AheadRefc, AheadInit, AheadSi, AheadLock DEF Dozes

LEMMA WaitsShort ==
  IInv /\ WInv => WaitsEnd
<1> SUFFICES ASSUME IInv, WInv, NEW S \in SUBSET Asleep, S # {}
             PROVE  \E t \in S : ~(WaitsFor(t) \subseteq S)
  BY DEF WaitsEnd
<1>1. QueueInv
  BY DEF WInv
<1>2. PICK R : R = {Rank(CvOf(t)) : t \in S}
  OBVIOUS
<1>3. R \in SUBSET Nat /\ R # {}
  BY <1>2 DEF Rank
<1>4. PICK r \in R : \A s \in R : r <= s
  BY <1>3, LeastExists
<1>5. PICK t \in S : \A s \in S : Rank(CvOf(t)) <= Rank(CvOf(s))
  BY <1>2, <1>4
<1>6. PICK e \in Elements(wq) : e.thread = t
  BY AsleepIs
<1>7. PICK u \in Threads : u # t /\ Blocks(t, e.cv, u) /\ Nearer(t, u)
  BY <1>6, AllAhead DEF Ahead
<1>8. u \in WaitsFor(t)
  BY <1>1, <1>6, <1>7, WaitsForIs, CvOfIs
<1>9. u \notin S
  <2> SUFFICES ASSUME u \in S PROVE FALSE
    OBVIOUS
  <2>1. ~Awake(u)
    BY AsleepIs
  <2>2. Rank(CvOf(u)) < Rank(CvOf(t)) /\ Rank(CvOf(t)) <= Rank(CvOf(u))
    BY <1>5, <1>7, <2>1 DEF Nearer
  <2>3. Rank(CvOf(u)) \in Nat /\ Rank(CvOf(t)) \in Nat
    BY DEF Rank
  <2> QED BY <2>2, <2>3
<1> QED BY <1>8, <1>9

(* tee_ta_manager.c never leaves a set of threads waiting for each other    *)
(* on its condition variables, nor one that nobody will wake: in every      *)
(* reachable state some sleeper of any set waits for a thread outside it,   *)
(* whatever the threads, the TAs, their flags and whom they call.           *)
THEOREM NobodyWaitsForever == Spec => []WaitsEnd
BY WaitInv, WaitsShort, PTL

----------------------------------------------------------------------------
(* TAs call whom they may call, and the core does not panic. *)
Opening == {"init", "find", "load"}

CallsInv ==
  /\ \A p \in Frames : F(p).key[1] # 0 /\ F(p).pc \in Opening =>
        <<ctx[F(p).key[1]].ta, F(p).ta>> \in Calls
  /\ \A p \in Frames : F(p).key[1] # 0 /\ F(p).key[2] = 0 /\ F(p).x # 0 =>
        <<ctx[F(p).key[1]].ta, ctx[F(p).x].ta>> \in Calls
  /\ \A k \in Keys : k[1] # 0 /\ Exists(k) /\ sess[k].ctx # 0 =>
        <<ctx[k[1]].ta, ctx[sess[k].ctx].ta>> \in Calls

(* The context a frame works in is one that the context below it may call.  *)
LEMMA Caller ==
  ASSUME IInv, CallsInv, NEW p \in Frames, F(p).key[1] # 0, F(p).x # 0
  PROVE  <<ctx[F(p).key[1]].ta, ctx[F(p).x].ta>> \in Calls
<1>1. F(p).x \in Ctxs
  BY FrameFacts DEF IInv
<1>2. CASE F(p).key[2] = 0
  BY <1>2 DEF CallsInv
<1>3. CASE F(p).key[2] # 0
  <2>1. F(p).key \in SessOf(F(p).x) /\ F(p).key \in Keys
    BY <1>1, <1>3, InUse
  <2>2. Exists(F(p).key) /\ sess[F(p).key].ctx = F(p).x
    BY <2>1 DEF SessOf
  <2> QED BY <2>1, <2>2 DEF CallsInv
<1> QED BY <1>2, <1>3

(* What a frame becomes, or a new one is.                                   *)
Follows(g, f) ==
  /\ g.key[1] = f.key[1] /\ (g.key[2] = 0 => g.x = f.x)
  /\ g.pc \in Opening => g.ta = f.ta /\ f.pc \in Opening
Begins(g) ==
  /\ g.x = 0
  /\ g.pc \in Opening /\ g.key[1] # 0 => <<ctx[g.key[1]].ta, g.ta>> \in Calls
Goes(t, f) == \E g : Become(t, g) /\ Follows(g, f)
Pushes(t) == \E g : Push(t, g) /\ Begins(g)

LEMMA FollowOn ==
  ASSUME NEW f \in FrameSet, NEW pc, pc \notin Opening, NEW x, NEW b, NEW op
  PROVE  /\ Follows([f EXCEPT !.pc = pc], f)
         /\ Follows([f EXCEPT !.held = b, !.pc = pc], f)
         /\ Follows([f EXCEPT !.op = op, !.pc = pc], f)
         /\ Follows([f EXCEPT !.pc = pc, !.op = op], f)
         /\ Follows([f EXCEPT !.key = <<f.key[1], 0>>, !.pc = pc], f)
         /\ f.key[2] # 0 => Follows([f EXCEPT !.x = x, !.pc = pc], f)
<1> DEFINE e1 == [f EXCEPT !.pc = pc]
           e2 == [f EXCEPT !.held = b, !.pc = pc]
           e3 == [f EXCEPT !.op = op, !.pc = pc]
           e4 == [f EXCEPT !.pc = pc, !.op = op]
           e5 == [f EXCEPT !.key = <<f.key[1], 0>>, !.pc = pc]
           e6 == [f EXCEPT !.x = x, !.pc = pc]
<1>1. e1.key = f.key /\ e1.x = f.x /\ e1.pc = pc
  BY DEF FrameSet
<1>2. e2.key = f.key /\ e2.x = f.x /\ e2.pc = pc
  BY DEF FrameSet
<1>3. e3.key = f.key /\ e3.x = f.x /\ e3.pc = pc
  BY DEF FrameSet
<1>4. e4.key = f.key /\ e4.x = f.x /\ e4.pc = pc
  BY DEF FrameSet
<1>5. e5.key[1] = f.key[1] /\ e5.x = f.x /\ e5.pc = pc
  BY DEF FrameSet
<1>6. e6.key = f.key /\ e6.pc = pc
  BY DEF FrameSet
<1> HIDE DEF e1, e2, e3, e4, e5, e6
<1>7. /\ Follows(e1, f) /\ Follows(e2, f) /\ Follows(e3, f) /\ Follows(e4, f) /\ Follows(e5, f)
      /\ f.key[2] # 0 => Follows(e6, f)
  BY <1>1, <1>2, <1>3, <1>4, <1>5, <1>6 DEF Follows
<1> QED BY <1>7 DEF e1, e2, e3, e4, e5, e6

LEMMA FollowFailed ==
  ASSUME NEW f \in FrameSet
  PROVE  Follows(Fail(f), f) /\ Follows(Dead(f), f)
<1>1. /\ Fail(f).key = f.key /\ Fail(f).x = f.x /\ Fail(f).pc \in {"unlink", "clear"}
      /\ Dead(f).key = f.key /\ Dead(f).x = f.x /\ Dead(f).pc \in {"unlink", "release"}
  BY DEF Fail, Dead, FrameSet
<1> QED BY <1>1 DEF Follows, Opening

(* How the stack of the thread that steps changes.                          *)
LEMMA Passes ==
  ASSUME IInv, NEW t \in Threads, Acts(t)
  PROVE  \/ stack' = stack
         \/ stack[t] # << >> /\ Goes(t, Top(t))
         \/ Pushes(t)
         \/ stack[t] # << >> /\ Return(t)
<1> DEFINE Quiet == stack' = stack \/ Pushes(t) \/ Return(t)
<1>1. ASSUME stack[t] # << >> PROVE Top(t) \in FrameSet /\ Shape(Top(t))
  <2>1. PICK p : p = <<t, Len(stack[t])>>
    OBVIOUS
  <2> QED BY <1>1, <2>1, TopFacts
<1>2. ASSUME NEW f \in FrameSet, f = Top(t), NEW pc, pc \notin Opening, Goto(t, pc) PROVE Goes(t, f)
  BY <1>2, FollowOn DEF Goto, Goes
<1>3. ASSUME NEW f \in FrameSet, f = Top(t), Shape(f),
             GetSession(t) \/ LockSession(t) \/ PutSession(t)
      PROVE  Goes(t, f) \/ Quiet
  <2>1. f.pc \in {"get", "lock"} => f.key[2] # 0
    BY <1>3 DEF Shape
  <2>2. ASSUME Become(t, [f EXCEPT !.x = sess[f.key].ctx,
                                   !.pc = IF f.op = "close" THEN "close" ELSE "busy"]),
               f.key[2] # 0
        PROVE  Goes(t, f)
    <3>1. PICK pc : pc = (IF f.op = "close" THEN "close" ELSE "busy") /\ pc \notin Opening
      BY DEF Opening
    <3>2. Follows([f EXCEPT !.x = sess[f.key].ctx, !.pc = pc], f)
      BY <2>2, <3>1, FollowOn
    <3> QED BY <2>2, <3>1, <3>2 DEF Goes
  <2>3. CASE GetSession(t)
    BY <1>2, <1>3, <2>1, <2>2, <2>3 DEF GetSession, At, Opening
  <2>4. CASE LockSession(t)
    BY <1>2, <1>3, <2>1, <2>2, <2>4 DEF LockSession, At, Opening
  <2>5. CASE PutSession(t)
    BY <2>5 DEF PutSession
  <2> QED BY <1>3, <2>3, <2>4, <2>5
<1>4. ASSUME NEW f \in FrameSet, f = Top(t), FreeSession(t) PROVE Goes(t, f)
  <2>1. PICK pc : pc = (IF f.held THEN "clear" ELSE "drop") /\ pc \notin Opening
    BY DEF Opening
  <2>2. Follows([f EXCEPT !.key = <<f.key[1], 0>>, !.pc = pc], f)
    BY <2>1, FollowOn
  <2> QED BY <1>4, <2>1, <2>2 DEF FreeSession, Goes
<1>5. ASSUME NEW f \in FrameSet, f = Top(t), UnlinkSession(t) \/ UnlinkWoken(t) \/ InitFails(t)
      PROVE  Goes(t, f) \/ Quiet
  BY <1>2, <1>4, <1>5 DEF UnlinkSession, UnlinkWoken, InitFails, Opening
<1>6. ASSUME stack[t] # << >>, InitSession(t) \/ FindAgain(t) PROVE Goes(t, Top(t)) \/ Quiet
  <2>1. CASE \E f : Looks(t, f)
    <3>1. PICK f : Looks(t, f)
      BY <2>1
    <3>2. PICK g \in FrameSet : Become(t, g) /\ g.key = f.key /\ g.ta = f.ta
      BY <3>1, FindContextIs DEF Looks
    <3>3. f.key[1] = Top(t).key[1] /\ f.key[2] # 0 /\ f.ta = Top(t).ta
      BY <3>1 DEF Looks
    <3>4. Top(t).pc \in Opening
      BY <1>6 DEF InitSession, FindAgain, At, Opening
    <3>5. Follows(g, Top(t))
      BY <3>2, <3>3, <3>4 DEF Follows
    <3> QED BY <3>2, <3>5 DEF Goes
  <2> QED BY <1>6, <2>1, Finds
<1>7. ASSUME NEW f \in FrameSet, f = Top(t), SetBusy(t) PROVE Goes(t, f) \/ Quiet
  <2>1. ASSUME NEW h \in FrameSet, h = [f EXCEPT !.held = TRUE], Entered(t, h) PROVE Goes(t, f)
    <3>1. h.key = f.key /\ h.x = f.x
      BY <2>1 DEF FrameSet
    <3>2. Follows(Fail(h), h) /\ Follows(Dead(h), h) /\ Follows([h EXCEPT !.pc = "ta"], h)
      BY FollowOn, FollowFailed DEF Opening
    <3>3. \A g : Follows(g, h) /\ g.pc \notin Opening => Follows(g, f)
      BY <3>1 DEF Follows
    <3>4. /\ Fail(h).pc \notin Opening /\ Dead(h).pc \notin Opening
          /\ [h EXCEPT !.pc = "ta"].pc \notin Opening
      BY DEF Fail, Dead, Opening, FrameSet
    <3> QED BY <2>1, <3>2, <3>3, <3>4 DEF Entered, Goes
  <2>2. CASE Refused(t)
    <3>1. Follows([f EXCEPT !.op = "close", !.pc = "close"], f)
      BY FollowOn DEF Opening
    <3> QED BY <1>7, <2>2, <3>1 DEF Refused, Goes
  <2>3. [f EXCEPT !.held = TRUE] \in FrameSet
    BY DEF FrameSet
  <2>4. CASE Entered(t, [f EXCEPT !.held = TRUE])
    BY <2>1, <2>3, <2>4
  <2> QED BY <1>7, <2>2, <2>4 DEF SetBusy
<1>8. ASSUME NEW f \in FrameSet, f = Top(t), Shape(f), LoadDone(t) \/ LoadFails(t) \/ ClearBusy(t)
      PROVE  Goes(t, f)
  <2>1. CASE LoadDone(t)
    BY <1>2, <1>8, <2>1 DEF LoadDone, Opening
  <2>2. CASE LoadFails(t)
    <3>1. f.key[2] # 0
      BY <1>8, <2>2 DEF LoadFails, At, Shape
    <3>2. Follows([f EXCEPT !.x = 0, !.pc = "init_fail"], f)
      BY <3>1, FollowOn DEF Opening
    <3> QED BY <1>8, <2>2, <3>2 DEF LoadFails, Goes
  <2>3. CASE ClearBusy(t)
    <3>1. AfterClear(f) \notin Opening
      BY DEF AfterClear, Opening
    <3>2. Follows([f EXCEPT !.held = FALSE, !.pc = AfterClear(f)], f)
      BY <3>1, FollowOn
    <3> QED BY <1>8, <2>3, <3>2 DEF ClearBusy, Goes
  <2> QED BY <1>8, <2>1, <2>2, <2>3
<1>9. ASSUME NEW op, NEW ta, NEW k, Push(t, Frame(op, ta, k, "get")) PROVE Pushes(t)
  <2>1. Frame(op, ta, k, "get").pc = "get" /\ Frame(op, ta, k, "get").x = 0
    BY DEF Frame
  <2> QED BY <1>9, <2>1 DEF Pushes, Begins, Opening
<1>10. ASSUME NEW ta, NEW k, k[1] # 0 => <<ctx[k[1]].ta, ta>> \in Calls,
              Push(t, Frame("open", ta, k, "init"))
       PROVE  Pushes(t)
  <2>1. PICK g : g = Frame("open", ta, k, "init")
    OBVIOUS
  <2>2. g.ta = ta /\ g.key = k /\ g.x = 0
    BY <2>1 DEF Frame
  <2> QED BY <1>10, <2>1, <2>2 DEF Pushes, Begins
<1>11. ASSUME NEW f \in FrameSet, f = Top(t),
              Release(t) \/ ReleaseState(t) \/ CloseSession(t) \/ Drop(t) \/ Destroy(t)
       PROVE  Goes(t, f) \/ Quiet
  <2>1. ASSUME NEW x, CloseFirst(t, x) PROVE Pushes(t)
    BY <1>9, <2>1 DEF CloseFirst
  <2> QED BY <1>2, <1>11, <2>1 DEF Release, ReleaseState, CloseSession, Drop, Destroy, Opening
<1>12. CASE Entry(t)
  <2>1. CASE EntryOpenSession(t)
    <3>1. PICK a : Push(t, Frame("open", a, <<0, 0>>, "init"))
      BY <2>1 DEF EntryOpenSession
    <3> QED BY <1>10, <3>1
  <2> QED BY <1>9, <1>12, <2>1 DEF Entry, EntryInvokeCommand, EntryCloseSession, EntryCancel
<1>13. CASE TaCall(t)
  <2>1. \/ \E c \in Calls : /\ c[1] = ctx[Top(t).x].ta
                            /\ Push(t, Frame("open", c[2], <<Top(t).x, 0>>, "init"))
        \/ \E op \in {"invoke", "close"} : \E id \in Elements(open_sessions[Top(t).x]) :
              Push(t, Frame(op, NoTa, <<Top(t).x, id>>, "get"))
    BY <1>13 DEF TaCall
  <2>2. ASSUME NEW c \in Calls, c[1] = ctx[Top(t).x].ta,
               Push(t, Frame("open", c[2], <<Top(t).x, 0>>, "init"))
        PROVE  Pushes(t)
    <3>1. c = <<c[1], c[2]>>
      BY ManagerAssumption
    <3>2. <<ctx[Top(t).x].ta, c[2]>> \in Calls
      BY <2>2, <3>1
    <3>3. PICK k : k = <<Top(t).x, 0>>
      OBVIOUS
    <3>4. k[1] = Top(t).x
      BY <3>3
    <3> QED BY <1>10, <2>2, <3>2, <3>3, <3>4
  <2> QED BY <1>9, <2>1, <2>2
<1>14. ASSUME NEW f \in FrameSet, f = Top(t), TaReturn(t) \/ TaPanic(t) PROVE Goes(t, f)
  <2>1. Follows(Fail(f), f) /\ Follows(Dead(f), f) /\ Follows([f EXCEPT !.pc = "clear"], f)
    BY FollowOn, FollowFailed DEF Opening
  <2> QED BY <1>14, <2>1 DEF TaReturn, TaPanic, Goes
<1>15. CASE stack[t] # << >> /\ ~Entry(t) /\ ~TaCall(t)
  <2>1. PICK f \in FrameSet : f = Top(t) /\ Shape(f)
    BY <1>1, <1>15
  <2>2. Goes(t, f) \/ Quiet
    <3> HIDE DEF Quiet
    <3> QED BY <1>3, <1>5, <1>6, <1>7, <1>8, <1>11, <1>14, <1>15, <2>1 DEF Acts, Step
  <2> QED BY <1>15, <2>1, <2>2
<1>16. CASE stack[t] = << >> /\ ~Entry(t) /\ ~TaCall(t)
  BY <1>16, Shifts DEF Acts, Step, GetSession, LockSession, PutSession, UnlinkSession,
     UnlinkWoken, InitSession, FindAgain, LoadDone, LoadFails, InitFails, SetBusy, Release,
     ReleaseState, ClearBusy, CloseSession, Drop, Destroy, TaReturn, TaPanic, At
<1> QED BY <1>12, <1>13, <1>15, <1>16

(* A frame of the next state is an old one, or the one that moved.          *)
LEMMA NextFrames ==
  ASSUME IInv, IInv', NEW t \in Threads, Acts(t), NEW q \in Frames'
  PROVE  \/ q \in Frames /\ F(q)' = F(q)
         \/ \E p \in Frames : Follows(F(q)', F(p))
         \/ Begins(F(q)')
<1>1. Types /\ Types'
  BY DEF IInv
<1>2. PICK r : /\ r[1] = t /\ Moves(r)
               /\ r \in Frames => r = <<t, Len(stack[t])>> /\ stack[t] # << >>
  BY Local
<1>3. CASE stack' = stack
  BY <1>3 DEF Frames, F
<1>4. CASE stack[t] # << >> /\ Goes(t, Top(t))
  <2>1. PICK g : Become(t, g) /\ Follows(g, Top(t))
    BY <1>4 DEF Goes
  <2>2. stack'[t] # << >> /\ Top(t)' = g
    BY <1>1, <1>4, <2>1, BecomeTop
  <2>3. g \in FrameSet
    <3>1. Len(stack'[t]) \in 1 .. Len(stack'[t])
      BY <1>1, <2>2 DEF Types
    <3> QED BY <1>1, <2>2, <3>1 DEF Types, Top
  <2>4. PICK p : p = <<t, Len(stack[t])>>
    OBVIOUS
  <2>5. Moves(p) /\ F(p)' = g /\ p \in Frames /\ F(p) = Top(t)
    BY <1>1, <1>4, <2>1, <2>3, <2>4, BecomeEffect
  <2>6. q # p => q \in Frames /\ F(q)' = F(q)
    BY <2>5 DEF Moves
  <2> QED BY <2>1, <2>5, <2>6
<1>5. CASE Pushes(t)
  <2>1. PICK g : Push(t, g) /\ Begins(g)
    BY <1>5 DEF Pushes
  <2>2. g \in FrameSet
    <3>1. stack' \in [Threads -> Seq(FrameSet)] /\ stack \in [Threads -> Seq(FrameSet)]
      BY <1>1 DEF Types
    <3>2. PICK s \in Seq(FrameSet) : s = stack[t]
      BY <3>1
    <3>3. stack'[t] = Append(s, g)
      BY <2>1, <3>1, <3>2 DEF Push
    <3>4. PICK u \in Seq(FrameSet) : u = Append(s, g)
      BY <3>1, <3>3
    <3>5. PICK T : T = FrameSet \cup {g}
      OBVIOUS
    <3>6. s \in Seq(T) /\ g \in T
      BY <3>5
    <3>7. Len(u) = Len(s) + 1 /\ u[Len(s) + 1] = g
      BY <3>4, <3>6
    <3>8. Len(s) + 1 \in 1 .. Len(u)
      BY <3>7
    <3> QED BY <3>4, <3>7, <3>8
  <2>3. PICK p : p = <<t, Len(stack[t]) + 1>>
    OBVIOUS
  <2>4. Moves(p) /\ F(p)' = g
    BY <1>1, <2>1, <2>2, <2>3, PushEffect
  <2>5. q # p => q \in Frames /\ F(q)' = F(q)
    BY <2>4 DEF Moves
  <2> QED BY <2>1, <2>4, <2>5
<1>6. CASE stack[t] # << >> /\ Return(t)
  <2>1. PICK p : p = <<t, Len(stack[t])>>
    OBVIOUS
  <2>2. p \notin Frames' /\ Moves(p)
    BY <1>1, <1>6, <2>1, ReturnEffect
  <2> QED BY <2>2 DEF Moves
<1> QED BY <1>3, <1>4, <1>5, <1>6, Passes

(* The context of a session: the one it had, or the one just found for it.  *)
NewlyFound(k, t) ==
  /\ stack[t] # << >> /\ Top(t).pc \in Opening /\ k[1] = Top(t).key[1]
  /\ ctx'[sess'[k].ctx].ta = Top(t).ta

LEMMA SessionContext ==
  ASSUME IInv, IInv', NEW t \in Threads, Acts(t), NEW k \in Keys, Exists(k)', sess'[k].ctx # 0
  PROVE  (Exists(k) /\ sess'[k].ctx = sess[k].ctx) \/ NewlyFound(k, t)
<1>1. sess \in [Keys -> SessSet] /\ ctx \in [Ctxs -> CtxSet] /\ Types /\ Types' /\ NoSess.ctx = 0
  BY DEF IInv, Types, NoSess
<1>2. CASE sess' = sess /\ open_sessions' = open_sessions
  BY <1>2 DEF Exists
<1>3. CASE GetSession(t) \/ LockSession(t) \/ PutSession(t)
  <2>1. open_sessions' = open_sessions
    BY <1>3 DEF GetSession, LockSession, PutSession
  <2>2. sess'[k].ctx = sess[k].ctx
    BY <1>1, <1>3 DEF GetSession, LockSession, PutSession, SessSet
  <2> QED BY <2>1, <2>2 DEF Exists
<1>4. ASSUME NEW j \in Keys, sess' = [sess EXCEPT ![j] = NoSess],
             open_sessions' = [open_sessions EXCEPT ![j[1]] = Without(@, j[2])]
      PROVE  Exists(k) /\ sess'[k].ctx = sess[k].ctx
  <2>1. ~Exists(j)' /\ \A i \in Keys : i # j => (Exists(i)' <=> Exists(i))
    BY <1>1, <1>4, ListShrinks
  <2> QED BY <1>1, <1>4, <2>1
<1>5. CASE UnlinkSession(t) \/ UnlinkWoken(t)
  <2>1. PICK p : p = <<t, Len(stack[t])>>
    OBVIOUS
  <2>2. Top(t).key \in Keys
    BY <1>5, <2>1, AtUnlink DEF UnlinkSession, UnlinkWoken, At
  <2>3. CASE FreeSession(t)
    <3>1. PICK j \in Keys : j = Top(t).key
      BY <2>2
    <3>2. /\ sess' = [sess EXCEPT ![j] = NoSess]
          /\ open_sessions' = [open_sessions EXCEPT ![j[1]] = Without(@, j[2])]
      BY <2>3, <3>1 DEF FreeSession
    <3> QED BY <1>4, <3>2
  <2>4. CASE /\ sess' = [sess EXCEPT ![Top(t).key].unlink = TRUE]
             /\ open_sessions' = open_sessions
    BY <1>1, <2>2, <2>4 DEF SessSet, Exists
  <2> QED BY <1>2, <1>5, <2>3, <2>4 DEF UnlinkSession, UnlinkWoken
<1>6. CASE InitFails(t)
  <2>1. PICK p : p = <<t, Len(stack[t])>>
    OBVIOUS
  <2>2. PICK j \in Keys : j = Top(t).key
    BY <1>6, <2>1, TopFacts DEF InitFails, At, Shape
  <2>3. /\ sess' = [sess EXCEPT ![j] = NoSess]
        /\ open_sessions' = [open_sessions EXCEPT ![j[1]] = Without(@, j[2])]
    BY <1>6, <2>2 DEF InitFails
  <2> QED BY <1>4, <2>3
<1>7. ASSUME stack[t] # << >>, Top(t).pc \in {"init", "find"},
             NEW f, Looks(t, f), sess'[f.key].ctx = stack'[t][Len(stack'[t])].x, k = f.key
      PROVE  NewlyFound(k, t)
  <2>1. PICK g \in FrameSet : Become(t, g) /\ Found(g, f.ta)
    BY <1>7, FindContextIs DEF Looks
  <2>2. stack'[t] # << >> /\ Top(t)' = g
    BY <1>1, <1>7, <2>1, BecomeTop
  <2>3. sess'[k].ctx = g.x /\ g.x # 0
    BY <1>7, <2>2 DEF Top
  <2>4. ctx'[g.x].ta = f.ta
    <3>1. CASE g.pc = "load" /\ g.x \in Ctxs
      <4>1. PICK r : Made(r, f.ta) /\ ctx' = [ctx EXCEPT ![g.x] = r]
        BY <2>1, <3>1 DEF Found
      <4> QED BY <1>1, <3>1, <4>1 DEF Made
    <3>2. CASE g.pc = "busy" /\ g.x \in Ctxs
      <4>1. ctx' = [ctx EXCEPT ![g.x].ref_count = @ + 1] /\ ctx[g.x].ta = f.ta
        BY <2>1, <3>2 DEF Found
      <4> QED BY <1>1, <3>2, <4>1 DEF CtxSet
    <3> QED BY <2>1, <2>3, <3>1, <3>2 DEF Found
  <2> QED BY <1>7, <2>3, <2>4 DEF NewlyFound, Looks, Opening
<1>8. CASE InitSession(t)
  <2>1. stack[t] # << >> /\ Top(t).pc = "init"
    BY <1>8 DEF InitSession, At
  <2>2. PICK p : p = <<t, Len(stack[t])>>
    OBVIOUS
  <2>3. Top(t).key[1] \in Lists /\ Top(t) \in FrameSet /\ Shape(Top(t))
    BY <2>1, <2>2, TopFacts
  <2>4. CASE NewSessionId(Top(t).key[1]) = 0
    <3>1. sess' = sess /\ open_sessions' = open_sessions
      BY <1>8, <2>4 DEF InitSession
    <3> QED BY <1>2, <3>1
  <2>5. CASE NewSessionId(Top(t).key[1]) # 0
    <3>1. PICK id : id = NewSessionId(Top(t).key[1]) /\ id \in Ids /\ id # 0
      BY <1>1, <2>3, <2>5, NewIdFree
    <3>2. PICK j : j = <<Top(t).key[1], id>>
      OBVIOUS
    <3>3. j \in Keys /\ ~Exists(j) /\ j[1] = Top(t).key[1] /\ j[2] = id /\ j[1] \in Lists
      BY <1>1, <2>3, <2>5, <3>1, <3>2, NewIdFree DEF Keys
    <3>4. PICK f : f = [Top(t) EXCEPT !.key = j]
      OBVIOUS
    <3>5. /\ FindContext(t, f)
          /\ open_sessions' = [open_sessions EXCEPT ![j[1]] = Append(@, j[2])]
          /\ sess' = [sess EXCEPT ![j] = [ctx |-> stack'[t][Len(stack'[t])].x, ref_count |-> 1,
                                          lock_thread |-> t, unlink |-> FALSE]]
      BY <1>8, <2>5, <3>1, <3>2, <3>3, <3>4 DEF InitSession
    <3>6. /\ f \in FrameSet /\ f.key = j /\ f.ta = Top(t).ta /\ f.op = Top(t).op
          /\ f.x = Top(t).x /\ f.held = Top(t).held
      <4>1. j \in Lists \X (Ids \cup {0})
        BY <3>3 DEF Keys
      <4> QED BY <2>3, <3>4, <4>1 DEF FrameSet
    <3>7. Looks(t, f)
      BY <2>1, <2>3, <3>1, <3>3, <3>5, <3>6 DEF Looks, Shape, InContext, Running, Ending
    <3>8. CASE k = j
      <4>1. sess'[j].ctx = stack'[t][Len(stack'[t])].x
        BY <1>1, <3>3, <3>5
      <4> QED BY <1>7, <2>1, <3>6, <3>7, <3>8, <4>1
    <3>9. CASE k # j
      <4>1. sess'[k] = sess[k]
        BY <1>1, <3>5, <3>9
      <4>2. Exists(k)
        BY <1>1, <3>3, <3>5, <3>9, ListGrows
      <4> QED BY <4>1, <4>2
    <3> QED BY <3>8, <3>9
  <2> QED BY <2>4, <2>5
<1>9. CASE FindAgain(t)
  <2>1. stack[t] # << >> /\ Top(t).pc = "find"
    BY <1>9 DEF FindAgain, At
  <2>2. PICK p : p = <<t, Len(stack[t])>>
    OBVIOUS
  <2>3. Top(t) \in FrameSet /\ Shape(Top(t)) /\ Top(t).key[2] # 0 /\ Top(t).key \in Keys
    BY <2>1, <2>2, TopFacts DEF Shape
  <2>4. /\ open_sessions' = open_sessions /\ FindContext(t, Top(t))
        /\ sess' = [sess EXCEPT ![Top(t).key].ctx = stack'[t][Len(stack'[t])].x]
    BY <1>9 DEF FindAgain
  <2>5. Looks(t, Top(t))
    BY <2>1, <2>3, <2>4 DEF Looks, Shape, InContext, Running, Ending
  <2>6. CASE k = Top(t).key
    <3>1. sess'[k].ctx = stack'[t][Len(stack'[t])].x
      BY <1>1, <2>4, <2>6 DEF SessSet
    <3> QED BY <1>7, <2>1, <2>5, <2>6, <3>1
  <2>7. CASE k # Top(t).key
    BY <1>1, <2>4, <2>7 DEF Exists
  <2> QED BY <2>6, <2>7
<1>10. CASE LoadFails(t)
  <2>1. PICK p : p = <<t, Len(stack[t])>>
    OBVIOUS
  <2>2. Top(t).key \in Keys
    BY <1>10, <2>1, TopFacts DEF LoadFails, At, Shape
  <2>3. sess' = [sess EXCEPT ![Top(t).key].ctx = 0] /\ open_sessions' = open_sessions
    BY <1>10 DEF LoadFails
  <2>4. k # Top(t).key
    BY <1>1, <2>2, <2>3 DEF SessSet
  <2> QED BY <1>1, <2>3, <2>4 DEF Exists
<1>11. CASE \/ LoadDone(t) \/ SetBusy(t) \/ Release(t) \/ ReleaseState(t) \/ ClearBusy(t)
            \/ CloseSession(t) \/ Drop(t) \/ Destroy(t)
  <2>1. sess' = sess /\ open_sessions' = open_sessions
    BY <1>11 DEF LoadDone, SetBusy, Release, ReleaseState, ClearBusy, CloseSession, Drop, Destroy
  <2> QED BY <1>2, <2>1
<1>12. CASE Entry(t) \/ TaCall(t) \/ TaReturn(t) \/ TaPanic(t)
  <2>1. sess' = sess /\ open_sessions' = open_sessions
    BY <1>12 DEF Entry, EntryOpenSession, EntryInvokeCommand, EntryCloseSession, EntryCancel,
                 TaCall, TaReturn, TaPanic
  <2> QED BY <1>2, <2>1
<1> QED BY <1>3, <1>5, <1>6, <1>8, <1>9, <1>10, <1>11, <1>12 DEF Acts, Step

(* The owner of a list of sessions, and the context of a frame, stay.       *)
LEMMA OwnerStays ==
  ASSUME IInv, IInv', NEW t \in Threads, Acts(t), NEW l \in Lists, l # 0,
         ctx[l].ta # NoTa, ctx'[l].ta # NoTa
  PROVE  ctx'[l].ta = ctx[l].ta
<1>1. l \in Ctxs
  BY ManagerAssumption DEF Lists, Ctxs
<1> QED BY <1>1, TaConst

KeysKnown == \A p \in Frames : F(p).key[1] \in Lists

LEMMA FrameKeys == IInv => KeysKnown
BY FrameFacts DEF KeysKnown, IInv

LEMMA KeysKnownNext == IInv' => KeysKnown'
BY FrameKeys, PTL

LEMMA CallsStep ==
  ASSUME IInv, IInv', NEW t \in Threads, Acts(t), CallsInv
  PROVE  CallsInv'
<1>1. NoUseAfterFree /\ NoUseAfterFree'
  BY NotFreed, NotFreedNext
<1>2. /\ \A p \in Frames : /\ F(p).x # 0 => ctx[F(p).x].ta # NoTa
                           /\ F(p).key[1] # 0 => ctx[F(p).key[1]].ta # NoTa
      /\ \A k \in Keys : Exists(k) /\ sess[k].ctx # 0 => ctx[sess[k].ctx].ta # NoTa
  BY <1>1 DEF NoUseAfterFree
<1>3. /\ \A p \in Frames' : /\ F(p)'.x # 0 => ctx'[F(p)'.x].ta # NoTa
                            /\ F(p)'.key[1] # 0 => ctx'[F(p)'.key[1]].ta # NoTa
      /\ \A k \in Keys : Exists(k)' /\ sess'[k].ctx # 0 => ctx'[sess'[k].ctx].ta # NoTa
  BY <1>1 DEF NoUseAfterFree, Keys, Lists, Ids
<1>4. \A p \in Frames : F(p).key[1] \in Lists /\ F(p).x \in Lists
  BY FrameFacts DEF IInv, Lists
<1>5. \A k \in Keys : k[1] \in Lists /\ (Exists(k) /\ k[1] # 0 => ctx[k[1]].ta # NoTa)
                      /\ sess[k].ctx \in Lists
  <2> SUFFICES ASSUME NEW k \in Keys
               PROVE  k[1] \in Lists /\ (Exists(k) /\ k[1] # 0 => ctx[k[1]].ta # NoTa)
                      /\ sess[k].ctx \in Lists
    OBVIOUS
  <2>1. k[1] \in Lists /\ sess[k].ctx \in Lists
    BY DEF Keys, IInv, Types, SessSet, Lists
  <2>2. ASSUME Exists(k), k[1] # 0 PROVE ctx[k[1]].ta # NoTa
    <3>1. k[1] \in Ctxs
      BY <2>1, <2>2, ManagerAssumption DEF Lists, Ctxs
    <3>2. open_sessions[k[1]] # << >>
      BY <2>2 DEF Exists, Elements
    <3> QED BY <3>1, <3>2 DEF IInv, CtxInv
  <2> QED BY <2>1, <2>2
<1>6. \A k \in Keys : Exists(k)' /\ k[1] # 0 => ctx'[k[1]].ta # NoTa
  <2> SUFFICES ASSUME NEW k \in Keys, Exists(k)', k[1] # 0 PROVE ctx'[k[1]].ta # NoTa
    OBVIOUS
  <2>1. k[1] \in Ctxs
    BY <1>5, ManagerAssumption DEF Lists, Ctxs
  <2>2. open_sessions'[k[1]] # << >>
    BY DEF Exists, Elements
  <2>3. CtxInv(k[1])'
    BY <2>1 DEF IInv, Ctxs
  <2> QED BY <2>2, <2>3 DEF CtxInv
<1>7. ASSUME NEW q \in Frames', F(q)'.key[1] # 0, F(q)'.pc \in Opening
      PROVE  <<ctx'[F(q)'.key[1]].ta, F(q)'.ta>> \in Calls
  <2>1. ASSUME NEW p \in Frames, F(p).key[1] = F(q)'.key[1], F(p).pc \in Opening,
               F(q)'.ta = F(p).ta
        PROVE  <<ctx'[F(q)'.key[1]].ta, F(q)'.ta>> \in Calls
    <3>1. <<ctx[F(p).key[1]].ta, F(p).ta>> \in Calls
      BY <1>7, <2>1 DEF CallsInv
    <3>2. ctx'[F(p).key[1]].ta = ctx[F(p).key[1]].ta
      <4>1. F(p).key[1] \in Lists /\ F(p).key[1] # 0 /\ ctx[F(p).key[1]].ta # NoTa
        BY <1>2, <1>4, <1>7, <2>1
      <4>2. ctx'[F(p).key[1]].ta # NoTa
        BY <1>3, <1>7, <2>1
      <4> QED BY <4>1, <4>2, OwnerStays
    <3> QED BY <2>1, <3>1, <3>2
  <2>2. CASE Begins(F(q)')
    <3>1. PICK x : x = F(q)'.key[1] /\ x # 0
      BY <1>7
    <3>2. <<ctx[x].ta, F(q)'.ta>> \in Calls
      BY <1>7, <2>2, <3>1 DEF Begins
    <3>3. x \in Lists
      BY <3>1, KeysKnownNext DEF KeysKnown, Lists
    <3>4. ctx[x].ta \in Tas
      BY <3>2, ManagerAssumption
    <3> QED BY <1>3, <1>7, <3>1, <3>2, <3>3, <3>4, OwnerStays, ManagerAssumption
  <2> QED BY <1>7, <2>1, <2>2, NextFrames DEF Follows
<1>8. ASSUME NEW q \in Frames', F(q)'.key[1] # 0, F(q)'.key[2] = 0, F(q)'.x # 0
      PROVE  <<ctx'[F(q)'.key[1]].ta, ctx'[F(q)'.x].ta>> \in Calls
  <2>1. PICK p \in Frames : F(p).key[1] = F(q)'.key[1] /\ F(p).x = F(q)'.x
    BY <1>8, NextFrames DEF Follows, Begins
  <2>2. <<ctx[F(p).key[1]].ta, ctx[F(p).x].ta>> \in Calls
    BY <1>8, <2>1, Caller
  <2>3. /\ ctx'[F(p).key[1]].ta = ctx[F(p).key[1]].ta
        /\ ctx'[F(p).x].ta = ctx[F(p).x].ta
    <3>1. /\ F(p).key[1] \in Lists /\ F(p).key[1] # 0 /\ ctx[F(p).key[1]].ta # NoTa
          /\ F(p).x \in Lists /\ F(p).x # 0 /\ ctx[F(p).x].ta # NoTa
      BY <1>2, <1>4, <1>8, <2>1
    <3>2. ctx'[F(p).key[1]].ta # NoTa /\ ctx'[F(p).x].ta # NoTa
      BY <1>3, <1>8, <2>1
    <3> QED BY <3>1, <3>2, OwnerStays
  <2> QED BY <2>1, <2>2, <2>3
<1>9. ASSUME NEW k \in Keys, k[1] # 0, Exists(k)', sess'[k].ctx # 0
      PROVE  <<ctx'[k[1]].ta, ctx'[sess'[k].ctx].ta>> \in Calls
  <2>1. CASE Exists(k) /\ sess'[k].ctx = sess[k].ctx
    <3>1. <<ctx[k[1]].ta, ctx[sess[k].ctx].ta>> \in Calls
      BY <1>9, <2>1 DEF CallsInv
    <3>2. ctx'[k[1]].ta = ctx[k[1]].ta
      BY <1>5, <1>6, <1>9, <2>1, OwnerStays
    <3>3. ctx'[sess[k].ctx].ta = ctx[sess[k].ctx].ta
      BY <1>2, <1>3, <1>5, <1>9, <2>1, OwnerStays
    <3> QED BY <2>1, <3>1, <3>2, <3>3
  <2>2. CASE NewlyFound(k, t)
    <3>1. PICK p : p = <<t, Len(stack[t])>>
      OBVIOUS
    <3>2. p \in Frames /\ F(p) = Top(t)
      BY <2>2, <3>1, TopFacts DEF NewlyFound
    <3>3. <<ctx[k[1]].ta, F(p).ta>> \in Calls /\ ctx[k[1]].ta # NoTa
      BY <1>2, <1>9, <2>2, <3>2 DEF CallsInv, NewlyFound
    <3>4. ctx'[k[1]].ta = ctx[k[1]].ta
      BY <1>5, <1>6, <1>9, <3>3, OwnerStays
    <3> QED BY <2>2, <3>2, <3>3, <3>4 DEF NewlyFound
  <2> QED BY <1>9, <2>1, <2>2, SessionContext
<1> QED BY <1>7, <1>8, <1>9 DEF CallsInv, Keys, Lists, Ids

(* The TA of a frame is reached from those of the frames below it.          *)
LEMMA Reached ==
  ASSUME IInv, CallsInv, NEW R \in SUBSET (Tas \X Tas), Calls \subseteq R,
         \A a, b, c \in Tas : <<a, b>> \in R /\ <<b, c>> \in R => <<a, c>> \in R,
         NEW t \in Threads, NEW i \in 1 .. Len(stack[t]), NEW j \in 1 .. Len(stack[t]), i < j,
         stack[t][j].x # 0
  PROVE  <<ctx[stack[t][i].x].ta, ctx[stack[t][j].x].ta>> \in R
<1> DEFINE Ta(n) == ctx[stack[t][n].x].ta
           Bad == {n \in 1 .. Len(stack[t]) : i < n /\ stack[t][n].x # 0 /\ <<Ta(i), Ta(n)>> \notin R}
<1>1. PICK N \in Nat : N = Len(stack[t])
  BY DEF IInv, Types
<1>2. ASSUME NEW n \in 1 .. N, i < n, stack[t][n].x # 0
      PROVE  /\ n - 1 \in 1 .. N /\ n - 1 >= i
             /\ stack[t][n - 1].x # 0 /\ <<Ta(n - 1), Ta(n)>> \in Calls
  <2>1. n - 1 \in 1 .. N /\ n - 1 >= i /\ n # 1
    BY <1>1, <1>2
  <2>2. PICK p : p = <<t, n>>
    OBVIOUS
  <2>3. PICK q : q = <<t, n - 1>>
    OBVIOUS
  <2>4. p \in Frames /\ q \in Frames
    BY <1>1, <2>1, <2>2, <2>3, FrameIs
  <2>5. F(p) = stack[t][n] /\ F(q) = stack[t][n - 1] /\ p[1] = t /\ p[2] = n
    BY <2>2, <2>3 DEF F
  <2>6. F(q).pc \in Calling /\ F(q).x = F(p).key[1]
    BY <2>1, <2>3, <2>4, <2>5, FrameFacts DEF IInv, Chain
  <2>7. F(q).x # 0
    BY <2>4, <2>6, FrameFacts DEF IInv, Shape, Calling, InContext, Running, Ending
  <2>8. <<ctx[F(p).key[1]].ta, ctx[F(p).x].ta>> \in Calls
    BY <1>2, <2>4, <2>5, <2>6, <2>7, Caller
  <2> QED BY <2>1, <2>5, <2>6, <2>7, <2>8
<1>3. Bad = {}
  <2> SUFFICES ASSUME Bad # {} PROVE FALSE
    OBVIOUS
  <2>1. Bad \in SUBSET Nat
    BY <1>1
  <2>2. PICK n \in Bad : \A m \in Bad : n <= m
    <3> HIDE DEF Bad
    <3> QED BY <2>1, LeastExists
  <2>3. n \in 1 .. N /\ i < n /\ stack[t][n].x # 0 /\ <<Ta(i), Ta(n)>> \notin R
    BY <1>1
  <2> HIDE DEF Ta
  <2>4. /\ n - 1 \in 1 .. N /\ n - 1 >= i
        /\ stack[t][n - 1].x # 0 /\ <<Ta(n - 1), Ta(n)>> \in Calls
    BY <1>2, <2>3
  <2>5. <<Ta(n - 1), Ta(n)>> \in R /\ Ta(n - 1) \in Tas /\ Ta(n) \in Tas
    BY <2>4
  <2>6. n - 1 \notin Bad
    <3> HIDE DEF Bad
    <3> QED BY <2>1, <2>2
  <2>7. CASE n - 1 = i
    BY <2>3, <2>5, <2>7
  <2>8. CASE n - 1 # i
    <3>1. i < n - 1
      BY <1>1, <2>4, <2>8
    <3>2. <<Ta(i), Ta(n - 1)>> \in R
      BY <1>1, <2>4, <2>6, <3>1
    <3>3. Ta(i) \in Tas
      BY <3>2
    <3> QED BY <2>3, <2>5, <3>2, <3>3
  <2> QED BY <2>7, <2>8
<1> QED BY <1>3

(* tee_ta_try_set_busy does not find the thread's own TA busy.              *)
LEMMA EnteredOnce ==
  ASSUME IInv, MultiInv, CallsInv, NoReentry, NEW t \in Threads, At(t, "busy"),
         Has(Top(t).x, "SINGLE_INSTANCE") => si_thread \in {t, NoThread}
  PROVE  ~ctx[Top(t).x].busy
<1>1. CASE ~Has(Top(t).x, "SINGLE_INSTANCE")
  BY <1>1, NoneBusy
<1>2. CASE Has(Top(t).x, "SINGLE_INSTANCE")
  <2> SUFFICES ASSUME ctx[Top(t).x].busy PROVE FALSE
    OBVIOUS
  <2>1. stack[t] # << >> /\ Top(t).pc = "busy"
    BY DEF At
  <2>2. PICK p : p = <<t, Len(stack[t])>>
    OBVIOUS
  <2>3. /\ F(p) = Top(t) /\ F(p).x # 0 /\ F(p).x \in Ctxs /\ ~F(p).held
        /\ p \in Frames /\ p[1] = t
    BY <2>1, <2>2, AtWork DEF InContext, Running
  <2>4. PICK x \in Ctxs : x = Top(t).x
    BY <2>3
  <2>5. PICK q \in Frames : F(q).x = x /\ F(q).held
    BY <2>3, <2>4 DEF IInv, BusyInv, In
  <2>6. q \in Single
    BY <1>2, <2>4, <2>5 DEF Single
  <2>7. q[1] = si_thread /\ q[1] \in Threads
    BY <2>5, <2>6, FrameFacts DEF IInv, SingleInv
  <2>8. q[1] = t
    BY <1>2, <2>7, ManagerAssumption
  <2>9. PICK N \in Nat : N = Len(stack[t])
    BY DEF IInv, Types
  <2>10. PICK i \in 1 .. N : q = <<t, i>>
    <3>1. PICK u \in Threads : \E i \in 1 .. Len(stack[u]) : q = <<u, i>>
      BY <2>5, FrameIs
    <3>2. PICK i \in 1 .. Len(stack[u]) : q = <<u, i>>
      BY <3>1
    <3>3. u = t
      BY <2>8, <3>2
    <3> QED BY <2>9, <3>2, <3>3
  <2>11. i # N
    BY <2>2, <2>3, <2>5, <2>9, <2>10
  <2>12. i < N /\ N \in 1 .. N
    BY <2>10, <2>11
  <2>13. stack[t][i].x = x /\ stack[t][N].x = x /\ x # 0
    BY <2>2, <2>3, <2>4, <2>5, <2>9, <2>10 DEF F
  <2>14. PICK R \in SUBSET (Tas \X Tas) :
           /\ Calls \subseteq R
           /\ \A a, b, c \in Tas : <<a, b>> \in R /\ <<b, c>> \in R => <<a, c>> \in R
           /\ \A a \in Tas : "SINGLE_INSTANCE" \in Flags[a] => <<a, a>> \notin R
    BY DEF NoReentry
  <2>15. <<ctx[x].ta, ctx[x].ta>> \in R
    <3>1. <<ctx[stack[t][i].x].ta, ctx[stack[t][N].x].ta>> \in R
      BY <2>9, <2>12, <2>13, <2>14, Reached
    <3> QED BY <2>13, <3>1
  <2> QED BY <1>2, <2>4, <2>14, <2>15 DEF Has
<1> QED BY <1>1, <1>2

(* A context that is dropped has a reference and no waiters.                *)
LEMMA DropCalm ==
  ASSUME IInv, QueueInv, NEW t \in Threads, Drop(t)
  PROVE  ~panic'
<1>1. stack[t] # << >> /\ Top(t).pc = "drop"
  BY DEF Drop, At
<1>2. PICK p : p = <<t, Len(stack[t])>>
  OBVIOUS
<1>3. F(p) = Top(t) /\ F(p).x \in Ctxs /\ p \in Frames
  BY <1>1, <1>2, AtWork DEF InContext, Ending
<1>4. ctx[Top(t).x].ref_count \in Nat /\ ctx[Top(t).x].ref_count > 0
  BY <1>1, <1>3, InUse
<1>5. Waiters(wq, BusyCv(Top(t).x)) = {}
  <2> SUFFICES ASSUME NEW i \in 1 .. Len(wq), wq[i].cv = BusyCv(Top(t).x) PROVE FALSE
    BY DEF Waiters
  <2>1. PICK e \in Elements(wq) : e.cv = BusyCv(Top(t).x)
    BY DEF Elements
  <2>2. Dozes(e)
    BY DEF QueueInv
  <2> QED BY <2>1, <2>2 DEF Dozes, BusyCv, SiCv, InitCv, LockCv, RefcCv
<1>6. panic' = (\/ ctx[Top(t).x].ref_count <= 0
                \/ Unused(Top(t).x) /\ Waiters(wq, BusyCv(Top(t).x)) # {})
  BY DEF Drop
<1> QED BY <1>4, <1>5, <1>6

LEMMA CalmStep ==
  ASSUME IInv, QueueInv, MultiInv, CallsInv, NoReentry, ~panic, NEW t \in Threads, Acts(t)
  PROVE  ~panic'
<1>1. CASE SetBusy(t)
  <2>1. At(t, "busy")
    BY <1>1 DEF SetBusy
  <2>2. CASE Has(Top(t).x, "SINGLE_INSTANCE") /\ si_thread \notin {t, NoThread}
    <3>1. panic' = panic
      BY <1>1, <2>2 DEF SetBusy
    <3> QED BY <3>1
  <2>3. CASE ~(Has(Top(t).x, "SINGLE_INSTANCE") /\ si_thread \notin {t, NoThread})
    <3>1. ~ctx[Top(t).x].busy
      BY <2>1, <2>3, EnteredOnce
    <3>2. panic' = panic
      BY <1>1, <2>3, <3>1 DEF SetBusy
    <3> QED BY <3>2
  <2> QED BY <2>2, <2>3
<1>2. CASE Drop(t)
  BY <1>2, DropCalm
<1>3. CASE \/ GetSession(t) \/ LockSession(t) \/ PutSession(t) \/ UnlinkSession(t)
           \/ UnlinkWoken(t) \/ InitSession(t) \/ FindAgain(t) \/ LoadDone(t) \/ LoadFails(t)
  <2>1. panic' = panic
    BY <1>3 DEF GetSession, LockSession, PutSession, UnlinkSession, UnlinkWoken, InitSession,
                FindAgain, LoadDone, LoadFails
  <2> QED BY <2>1
<1>4. CASE \/ InitFails(t) \/ Release(t) \/ ReleaseState(t) \/ ClearBusy(t) \/ CloseSession(t)
           \/ Destroy(t) \/ TaCall(t) \/ TaReturn(t) \/ TaPanic(t)
  <2>1. panic' = panic
    BY <1>4 DEF InitFails, Release, ReleaseState, ClearBusy, CloseSession, Destroy, TaCall,
                TaReturn, TaPanic
  <2> QED BY <2>1
<1>5. CASE Entry(t)
  <2>1. panic' = panic
    BY <1>5 DEF Entry, EntryOpenSession, EntryInvokeCommand, EntryCloseSession, EntryCancel
  <2> QED BY <2>1
<1> QED BY <1>1, <1>2, <1>3, <1>4, <1>5 DEF Acts, Step

(* The core does not panic in tee_ta_manager.c, whatever the threads do, as *)
(* long as no single-instance TA reaches itself through the TAs it calls:   *)
(* tee_ta_set_busy never meets its own thread's busy flag, close_session    *)
(* never counts below zero nor destroys a condition variable that somebody  *)
(* waits for.                                                               *)
THEOREM CoreDoesNotPanic ==
  NoReentry => (Spec => []NoPanic)
<1> SUFFICES ASSUME NoReentry PROVE Spec => []NoPanic
  OBVIOUS
<1>1. Init => CallsInv /\ NoPanic
  <2> SUFFICES ASSUME Init PROVE CallsInv /\ NoPanic
    OBVIOUS
  <2>1. Frames = {}
    BY DEF Init, Frames
  <2>2. \A k \in Keys : sess[k].ctx = 0
    BY DEF Init, NoSess
  <2> QED BY <2>1, <2>2 DEF CallsInv, NoPanic, Init
<1>2. /\ IInv /\ WInv /\ IInv' /\ CallsInv /\ NoPanic /\ [Next]_vars
      => CallsInv' /\ NoPanic'
  <2> SUFFICES ASSUME IInv, WInv, IInv', CallsInv, NoPanic, [Next]_vars
               PROVE  CallsInv' /\ NoPanic'
    OBVIOUS
  <2>1. CASE vars' = vars
    <3>1. /\ stack' = stack /\ sess' = sess /\ ctx' = ctx /\ open_sessions' = open_sessions
          /\ panic' = panic
      BY <2>1 DEF vars
    <3> QED BY <3>1 DEF CallsInv, NoPanic, Frames, F, Exists, Elements, Keys, Lists, Ids
  <2>2. CASE Next
    <3>1. PICK t \in Threads : Acts(t)
      BY <2>2 DEF Next, Acts
    <3>2. ~panic'
      BY <3>1, CalmStep DEF WInv, NoPanic
    <3> QED BY <3>1, <3>2, CallsStep DEF NoPanic
  <2> QED BY <2>1, <2>2
<1> QED BY <1>1, <1>2, WaitInv, PTL DEF Spec

(* The types of the module hold: among others, a thread is in the queue of  *)
(* sleepers once and a context or session is linked into a list once.       *)
THEOREM TypesHold == Spec => []TypeOK
<1>1. IInv /\ WInv /\ known \subseteq Ids /\ panic \in BOOLEAN => TypeOK
  <2> SUFFICES ASSUME IInv, WInv, known \subseteq Ids, panic \in BOOLEAN PROVE TypeOK
    OBVIOUS
  <2>1. \A l \in Lists : Elements(open_sessions[l]) \subseteq Ids
    <3> SUFFICES ASSUME NEW l \in Lists, NEW i \in 1 .. Len(open_sessions[l])
                 PROVE  open_sessions[l][i] \in Ids
      BY DEF Elements
    <3>1. open_sessions[l] \in Seq(Ids)
      BY DEF IInv, Types
    <3> QED BY <3>1
  <2>2. /\ sess \in [Keys -> SessSet] /\ ctx \in [Ctxs -> CtxSet] /\ tee_ctxes \in Seq(Ctxs)
        /\ si_thread \in Threads \cup {NoThread} /\ si_count \in Nat /\ NoRepeats(tee_ctxes)
    BY DEF IInv, Types
  <2>3. Elements(tee_ctxes) \subseteq Ctxs
    BY <2>2 DEF Elements
  <2>4. Cardinality(Elements(tee_ctxes)) = Len(tee_ctxes)
    <3>1. PICK n \in Nat : n = Len(tee_ctxes)
      BY <2>2
    <3>2. PICK f : f = [i \in 1 .. n |-> tee_ctxes[i]]
      OBVIOUS
    <3>3. f \in Bijection(1 .. n, Elements(tee_ctxes))
      BY <2>2, <3>1, <3>2 DEF Elements, NoRepeats, Bijection, Injection, Surjection, IsInjective
    <3>4. ExistsBijection(1 .. n, Elements(tee_ctxes))
      BY <3>3 DEF ExistsBijection
    <3> QED BY <3>1, <3>4, FS_CountingElements
  <2>5. \A i, j \in 1 .. Len(wq) : wq[i].thread = wq[j].thread => i = j
    <3> SUFFICES ASSUME NEW i \in 1 .. Len(wq), NEW j \in 1 .. Len(wq), wq[i].thread = wq[j].thread
                 PROVE  i = j
      OBVIOUS
    <3>1. wq[i] \in Elements(wq) /\ wq[j] \in Elements(wq)
      BY DEF Elements
    <3>2. wq[i] = wq[j]
      BY <3>1 DEF WInv, QueueInv, OneEach
    <3> QED BY <3>2 DEF WInv, QueueInv, NoRepeats
  <2>6. \A t \in Threads : \A i \in 1 .. Len(stack[t]) : stack[t][i].pc \in Pcs
    <3> SUFFICES ASSUME NEW t \in Threads, NEW i \in 1 .. Len(stack[t]) PROVE stack[t][i].pc \in Pcs
      OBVIOUS
    <3>1. stack[t] \in Seq(FrameSet)
      BY DEF IInv, Types
    <3>2. stack[t][i] \in FrameSet
      BY <3>1
    <3> QED BY <3>2 DEF FrameSet
  <2> QED BY <2>1, <2>2, <2>3, <2>4, <2>5, <2>6 DEF TypeOK, SessSet, CtxSet
<1>2. Init => panic \in BOOLEAN
  BY DEF Init
<1>3. panic \in BOOLEAN /\ [Next]_vars => (panic \in BOOLEAN)'
  <2> SUFFICES ASSUME panic \in BOOLEAN, [Next]_vars PROVE panic' \in BOOLEAN
    OBVIOUS
  <2>1. CASE vars' = vars
    BY <2>1 DEF vars
  <2>2. ASSUME NEW t \in Threads, Acts(t) PROVE panic' \in BOOLEAN
    <3>1. CASE Drop(t)
      <4>1. \E b \in BOOLEAN : panic' = b
        BY <3>1 DEF Drop
      <4> QED BY <4>1
    <3>2. CASE SetBusy(t)
      BY <3>2 DEF SetBusy, Refused
    <3>3. CASE GetSession(t)
      BY <3>3 DEF GetSession
    <3>4. CASE LockSession(t)
      BY <3>4 DEF LockSession
    <3>5. CASE PutSession(t)
      BY <3>5 DEF PutSession
    <3>6. CASE UnlinkSession(t)
      BY <3>6 DEF UnlinkSession
    <3>7. CASE UnlinkWoken(t)
      BY <3>7 DEF UnlinkWoken
    <3>8. CASE InitSession(t)
      BY <3>8 DEF InitSession
    <3>9. CASE FindAgain(t)
      BY <3>9 DEF FindAgain
    <3>10. CASE LoadDone(t)
      BY <3>10 DEF LoadDone
    <3>11. CASE LoadFails(t)
      BY <3>11 DEF LoadFails
    <3>12. CASE InitFails(t)
      BY <3>12 DEF InitFails
    <3>13. CASE Release(t)
      BY <3>13 DEF Release
    <3>14. CASE ReleaseState(t)
      BY <3>14 DEF ReleaseState
    <3>15. CASE ClearBusy(t)
      BY <3>15 DEF ClearBusy
    <3>16. CASE CloseSession(t)
      BY <3>16 DEF CloseSession
    <3>17. CASE Destroy(t)
      BY <3>17 DEF Destroy
    <3>18. CASE TaCall(t)
      BY <3>18 DEF TaCall
    <3>19. CASE TaReturn(t)
      BY <3>19 DEF TaReturn
    <3>20. CASE TaPanic(t)
      BY <3>20 DEF TaPanic
    <3>21. CASE EntryOpenSession(t)
      BY <3>21 DEF EntryOpenSession
    <3>22. CASE EntryInvokeCommand(t)
      BY <3>22 DEF EntryInvokeCommand
    <3>23. CASE EntryCloseSession(t)
      BY <3>23 DEF EntryCloseSession
    <3>24. CASE EntryCancel(t)
      BY <3>24 DEF EntryCancel
    <3> QED BY <2>2, <3>1, <3>2, <3>3, <3>4, <3>5, <3>6, <3>7, <3>8, <3>9, <3>10, <3>11, <3>12,
               <3>13, <3>14, <3>15, <3>16, <3>17, <3>18, <3>19, <3>20, <3>21, <3>22, <3>23, <3>24,
               Zenon DEF Acts, Step, Entry
  <2> QED BY <2>1, <2>2 DEF Next, Acts
<1> QED BY <1>1, <1>2, <1>3, WaitInv, Inductive, PTL DEF Spec
=============================================================================
