-------------------------- MODULE HashTreeProofs --------------------------
(***************************************************************************)
(* A file of the secure storage survives a loss of power at any step: it   *)
(* opens again, its committed images are never overwritten, and it         *)
(* implements AtomicFile.  For every size of the file and every number of  *)
(* writes, syncs, failures and power losses.                               *)
(***************************************************************************)
EXTENDS HashTree, SequenceTheorems, FiniteSetTheorems, WellFoundedInduction, TLAPS

Sized(m) == Max2(1, m)
Size == Max2(1, ht.max)                  \* nodes of the tree in memory
SizeOf(i) == Max2(1, head[i].max)        \* nodes of version i of the file
Cur == ht.counter % 2                    \* the version that it is based on
Flags == [0 .. 1 -> 0 .. 1]

(* An image of a node, and a node of the tree in memory. *)
IsImage(r) == r \in [blk : 0 .. 1, child : Flags, tag : 0 .. changes, hash : {r.hash}]
IsNode(r) == r \in [blk : 0 .. 1, child : Flags, tag : 0 .. changes, hash : {r.hash},
                    dirty : BOOLEAN, updated : BOOLEAN]
IsHead(r) == r \in [counter : Nat, root : {r.root}, max : 0 .. MaxNode, len : 0 .. 2 * MaxNode]

(* The types of the file and of the tree.  A hash is any sequence. *)
DiskType ==
  /\ mode \in {"hash", "counter"}
  /\ file \in {"absent", "empty", "data"}
  /\ changes \in Nat
  /\ head = [v \in 0 .. 1 |-> head[v]] /\ \A v \in 0 .. 1 : IsHead(head[v])
  /\ node = [n \in 1 .. MaxNode |-> [v \in 0 .. 1 |-> node[n][v]]]
  /\ \A n \in 1 .. MaxNode : \A v \in 0 .. 1 : IsImage(node[n][v])
  /\ blk \in [Blocks -> [0 .. 1 -> [tag : 0 .. changes, data : [0 .. BlockSize - 1 -> 0 .. changes]]]]

TreeType ==
  /\ ht \in [counter : Nat, max : 0 .. MaxNode, len : 0 .. 2 * MaxNode, dirty : BOOLEAN,
             node : {ht.node}]
  /\ ht.node = [n \in 1 .. Size |-> ht.node[n]]
  /\ \A n \in 1 .. Size : IsNode(ht.node[n])

(* The block of an image can be read. *)
Decrypts(b, r) == r.tag # 0 /\ blk[b][r.blk].tag = r.tag

(* Version i of the file is a tree: its nodes are read in the versions c. *)
Loaded(i, c) == [n \in 1 .. SizeOf(i) |-> node[n][c[n]]]

Tree(i, c) ==
  /\ i \in 0 .. 1 /\ head[i].counter % 2 = i
  /\ c \in [1 .. SizeOf(i) -> 0 .. 1] /\ c[1] = i
  /\ \A n \in 2 .. SizeOf(i) : c[n] = node[n \div 2][c[n \div 2]].child[n % 2]
  /\ \A n \in 1 .. SizeOf(i) : node[n][c[n]].hash = CalcNodeHash(Loaded(i, c), n, head[i].len)
  /\ head[i].root = node[1][i].hash
  /\ \A b \in Blocks : b * BlockSize < head[i].len =>
        b + 1 <= SizeOf(i) /\ Decrypts(b, node[b + 1][c[b + 1]])

(* The next open takes version i. *)
Commit(i) ==
  /\ i \in 0 .. 1
  /\ mode = "hash" => node[1][i].hash = trusted /\ node[1][1 - i].hash # trusted
  /\ mode = "counter" =>
        /\ head[i].counter % 2 = i /\ head[1 - i].counter % 2 = 1 - i
        /\ head[1 - i].counter < head[i].counter

(* The open file can be read as a whole. *)
Reads == \A b \in Blocks : b * BlockSize < ht.len => b + 1 <= Size /\ Decrypts(b, ht.node[b + 1])

(* The block and tag of node n in memory against those of its base. *)
Block(n, r) ==
  /\ ~ht.node[n].updated => ht.node[n].blk = r.blk /\ ht.node[n].tag = r.tag
  /\ ht.node[n].updated => ht.node[n].blk = 1 - r.blk /\ ht.node[n].tag > r.tag

(* Between two syncs: the tree in memory is its base but for the blocks that were *)
(* written, which are dirty, and for its length.                                  *)
Near(c) ==
  /\ head[Cur].counter = ht.counter
  /\ SizeOf(Cur) <= Size
  /\ \A n \in 1 .. SizeOf(Cur) :
        /\ ht.node[n].child = node[n][c[n]].child /\ ht.node[n].hash = node[n][c[n]].hash
        /\ Block(n, node[n][c[n]])
  /\ \A n \in 1 .. Size : n > SizeOf(Cur) => ht.node[n].updated
  /\ \A n \in 1 .. Size : ht.node[n].updated => ht.node[n].dirty
  /\ ht.len >= head[Cur].len
  /\ ht.len > head[Cur].len =>
        /\ ht.node[1].dirty
        /\ head[Cur].len \div BlockSize < Size /\ ht.node[head[Cur].len \div BlockSize + 1].updated
  /\ ht.dirty => \E n \in 1 .. Size : ht.node[n].updated
  /\ ~ht.dirty =>
        /\ ht.max = head[Cur].max /\ ht.len = head[Cur].len
        /\ \A n \in 1 .. Size : ~ht.node[n].dirty

(* During a sync: the nodes that wait are in the order of their visits. *)
Elements(s) == {s[k] : k \in 1 .. Len(s)}
NoRepeats(s) == \A j, k \in 1 .. Len(s) : s[j] = s[k] => j = k
Pending == Elements(todo)
Order(s) ==
  /\ s \in Seq(1 .. Size) /\ NoRepeats(s)
  /\ \A j \in 1 .. Len(s) : s[j] # 1 => \E k \in j + 1 .. Len(s) : s[k] = s[j] \div 2

Kids(n) == {2 * n, 2 * n + 1}

(* What node n of the tree in memory has that its base has not. *)
Differs(c, n) ==
  \/ n > SizeOf(Cur)
  \/ ht.node[n].tag # node[n][c[n]].tag \/ ht.node[n].child # node[n][c[n]].child
  \/ n = 1 /\ ht.len # head[Cur].len

(* A node that waits for its visit.  If it is not dirty, its image is right and so *)
(* are the hashes in it.                                                           *)
Unsynced(c, n) ==
  /\ ht.node[n].updated => ht.node[n].dirty
  /\ Differs(c, n) => ht.node[n].dirty
  /\ n <= SizeOf(Cur) => Block(n, node[n][c[n]])
  /\ n <= SizeOf(Cur) => \A m \in Kids(n) :
        m \notin 1 .. Size \/ m \in Pending => ht.node[n].child[m % 2] = node[n][c[n]].child[m % 2]
  /\ ~ht.node[n].dirty =>
        /\ ht.node[n].hash = node[n][c[n]].hash
        /\ \A m \in Kids(n) :
              /\ m <= SizeOf(Cur) => m <= Size
              /\ m \in 1 .. Size \ Pending =>
                    m <= SizeOf(Cur) /\ ht.node[m].hash = node[m][c[m]].hash

(* A node that was visited is in the file, in the version its parent names. *)
Synced(n) ==
  /\ ~ht.node[n].dirty /\ ~ht.node[n].updated
  /\ ht.node[n].hash = CalcNodeHash(ht.node, n, ht.len)
  /\ Image(ht.node[n]) = node[n][IF n = 1 THEN 1 - Cur ELSE ht.node[n \div 2].child[n % 2]]

Syncing(c) ==
  /\ head[Cur].counter = ht.counter
  /\ Order(todo)
  /\ \A n \in Pending : Unsynced(c, n)
  /\ \A n \in 1 .. Size \ Pending : Synced(n)
  /\ todo # << >> => \E n \in Pending : Differs(c, n)

(* During a creation. *)
Creating ==
  /\ ~Exists
  /\ node[1][0].hash = << >>
  /\ head[0].counter = 0
  /\ \/ todo = <<1>> /\ ht = NewTree
     \/ /\ todo = << >> /\ file = "data" /\ ht.counter = 0 /\ ht.max = 0 /\ ht.len = 0
        /\ ~ht.node[1].dirty /\ ~ht.node[1].updated
        /\ ht.node[1].hash = CalcNodeHash(ht.node, 1, 0)
        /\ Image(ht.node[1]) = node[1][1]

(* An object's file is opened by its root hash, which names one version. *)
RootsDiffer == mode = "hash" => node[1][0].hash # node[1][1].hash

(* The inductive invariant: of the file, and of what the open operation knows. *)
DiskInv ==
  /\ DiskType
  /\ Exists => \E i \in 0 .. 1 : \E c \in [1 .. SizeOf(i) -> 0 .. 1] : Commit(i) /\ Tree(i, c)
  /\ mode = "counter" /\ ~Exists =>
        node[1][0].hash = << >> /\ \A v \in 0 .. 1 : head[v] = ZeroHead
  /\ mode = "counter" /\ Exists => file = "data"

Idle == \E c \in [1 .. SizeOf(Cur) -> 0 .. 1] : Tree(Cur, c) /\ Near(c)

InSync == \E c \in [1 .. SizeOf(Cur) -> 0 .. 1] : Tree(Cur, c) /\ Syncing(c)

MemInv ==
  /\ pc \in {"closed", "create", "dummy", "idle", "sync", "anchor"}
  /\ pc = "closed" => ht = NoTree /\ todo = << >>
  /\ pc # "closed" => TreeType
  /\ pc = "create" => Creating
  /\ pc \in {"dummy", "idle", "anchor"} => todo = << >> /\ Reads /\ RootsDiffer /\ Idle
  /\ pc = "sync" => Reads /\ RootsDiffer /\ InSync
  /\ pc \in {"dummy", "idle", "anchor", "sync"} => (mode = "counter" => Exists)
  /\ pc \in {"dummy", "idle", "sync"} => (Exists => Commit(Cur))
  /\ pc = "anchor" => mode = "hash" /\ ~ht.dirty
  /\ pc = "dummy" => Cur = 1 /\ (mode = "hash" => ~Exists)

Inv == DiskInv /\ MemInv

(* The truncations that tee_fs_htree_truncate gets right: to a shorter length, by *)
(* at most one block, and only when the sync computes every hash anew that covers *)
(* a node that is taken away.  (No parent is marked dirty for that, so this is    *)
(* when the parent is the root or was written since the last sync.)               *)
TruncatesGently(length) ==
  /\ length < ht.len
  /\ CeilBlocks(ht.len) - CeilBlocks(length) <= 1
  /\ \A n \in Nodes(ht) \ Nodes(ht') : n \div 2 \in Nodes(ht') => ht'.node[n \div 2].dirty

(* And one whose request fails has not taken a node away.                         *)
GentleTruncation ==
  \A length \in Cuts : /\ Truncate(length) => TruncatesGently(length)
                       /\ TruncateFails(length) => ht' = ht

(* Such a failure changes nothing. *)
LEMMA FailsGently ==
  ASSUME GentleTruncation, NEW length \in Cuts, TruncateFails(length)
  PROVE  UNCHANGED vars
BY DEF GentleTruncation, TruncateFails, vars, disk

(* A set of naturals has a least element: what an induction over nodes rests on. *)
LEMMA LeastExists ==
  ASSUME NEW S \in SUBSET Nat, S # {}
  PROVE  \E x \in S : \A y \in S : x <= y
<1> DEFINE R == {p \in Nat \X Nat : p[1] < p[2]}
<1>1. IsWellFoundedOn(R, Nat)
  BY NatLessThanWellFounded, Zenon DEF OpToRel
<1>2. PICK x \in S : \A y \in S : ~(<<y, x>> \in R)
  <2> HIDE DEF R
  <2> QED BY <1>1, WFMin
<1>3. \A y \in S : ~(y < x)
  BY <1>2
<1> QED BY <1>3

----------------------------------------------------------------------------
(* Hashes. *)

(* How many children a node has. *)
LEMMA KidCount ==
  ASSUME NEW N \in Nat, NEW n \in 1 .. N
  PROVE  /\ 2 * n > N => Cardinality({2 * n, 2 * n + 1} \cap 1 .. N) = 0
         /\ 2 * n = N => Cardinality({2 * n, 2 * n + 1} \cap 1 .. N) = 1
         /\ 2 * n < N => Cardinality({2 * n, 2 * n + 1} \cap 1 .. N) = 2
<1> DEFINE K == {2 * n, 2 * n + 1} \cap 1 .. N
<1>1. CASE 2 * n > N
  <2>1. K = {}
    BY <1>1
  <2>2. Cardinality(K) = 0
    BY <2>1, FS_EmptySet
  <2> QED BY <1>1, <2>2
<1>2. CASE 2 * n = N
  <2>1. K = {2 * n}
    BY <1>2
  <2>2. Cardinality(K) = 1
    BY <2>1, FS_Singleton
  <2> QED BY <1>2, <2>2
<1>3. CASE 2 * n < N
  <2>1. PICK x, y : x = 2 * n /\ y = 2 * n + 1
    OBVIOUS
  <2>2. K = {x} \cup {y} /\ y \notin {x}
    BY <1>3, <2>1
  <2>3. IsFiniteSet({x}) /\ Cardinality({x}) = 1
    BY FS_Singleton
  <2>4. Cardinality({x} \cup {y}) = 1 + 1
    BY <2>2, <2>3, FS_AddElement, Zenon
  <2>5. Cardinality(K) = 2
    BY <2>2, <2>4
  <2> QED BY <1>3, <2>5
<1> QED BY <1>1, <1>2, <1>3

(* The hashes of the children are a sequence of at most two. *)
LEMMA KidHashes ==
  ASSUME NEW N \in Nat, NEW n \in 1 .. N, NEW f, DOMAIN f = 1 .. N
  PROVE  \E C \in 0 .. 2 :
           /\ ChildHashes(f, n) = [k \in 1 .. C |-> f[2 * n + k - 1].hash]
           /\ \A k \in 1 .. C : 2 * n + k - 1 \in Kids(n) /\ 2 * n + k - 1 \in 1 .. N
           /\ 2 * n > N => C = 0
           /\ 2 * n = N => C = 1
           /\ 2 * n < N => C = 2
<1>1. PICK C : C = Cardinality({2 * n, 2 * n + 1} \cap 1 .. N)
  OBVIOUS
<1>2. /\ C \in 0 .. 2
      /\ 2 * n > N => C = 0
      /\ 2 * n = N => C = 1
      /\ 2 * n < N => C = 2
  <2>1. /\ 2 * n > N => C = 0
        /\ 2 * n = N => C = 1
        /\ 2 * n < N => C = 2
    BY <1>1, KidCount, Zenon
  <2> QED BY <2>1
<1>3. ChildHashes(f, n) = [k \in 1 .. C |-> f[2 * n + k - 1].hash]
  BY <1>1 DEF ChildHashes
<1>4. \A k \in 1 .. C : 2 * n + k - 1 \in Kids(n) /\ 2 * n + k - 1 \in 1 .. N
  BY <1>2 DEF Kids
<1> QED BY <1>2, <1>3, <1>4

(* Nodes that agree, with children that agree, have one hash. *)
Agree(f, g, N, M, n) ==
  /\ DOMAIN f = 1 .. N /\ DOMAIN g = 1 .. M /\ n \in 1 .. N /\ n \in 1 .. M
  /\ f[n].blk = g[n].blk /\ f[n].child = g[n].child /\ f[n].tag = g[n].tag
  /\ \A m \in Kids(n) : m <= N <=> m <= M
  /\ \A m \in Kids(n) : m \in 1 .. N => f[m].hash = g[m].hash

(* Nodes that agree, with children of the same hashes, have the same hash. *)
LEMMA HashSame ==
  ASSUME NEW N \in Nat, NEW M \in Nat, NEW f, NEW g, NEW n, NEW l, Agree(f, g, N, M, n)
  PROVE  CalcNodeHash(f, n, l) = CalcNodeHash(g, n, l)
<1> USE DEF Agree
<1>1. PICK C \in 0 .. 2 :
           /\ ChildHashes(f, n) = [k \in 1 .. C |-> f[2 * n + k - 1].hash]
           /\ \A k \in 1 .. C : 2 * n + k - 1 \in Kids(n) /\ 2 * n + k - 1 \in 1 .. N
           /\ 2 * n > N => C = 0
           /\ 2 * n = N => C = 1
           /\ 2 * n < N => C = 2
  BY KidHashes
<1>2. PICK D \in 0 .. 2 :
           /\ ChildHashes(g, n) = [k \in 1 .. D |-> g[2 * n + k - 1].hash]
           /\ 2 * n > M => D = 0
           /\ 2 * n = M => D = 1
           /\ 2 * n < M => D = 2
  BY KidHashes
<1>3. (2 * n <= N <=> 2 * n <= M) /\ (2 * n + 1 <= N <=> 2 * n + 1 <= M)
  BY DEF Kids
<1>4. C = D
  BY <1>1, <1>2, <1>3
<1>5. \A k \in 1 .. C : f[2 * n + k - 1].hash = g[2 * n + k - 1].hash
  BY <1>1
<1>6. ChildHashes(f, n) = ChildHashes(g, n)
  BY <1>1, <1>2, <1>4, <1>5
<1> QED BY <1>6, Zenon DEF CalcNodeHash

(* What can be read back from a node's hash: its flags, its tag and the length. *)
LEMMA HashParts ==
  ASSUME NEW N \in Nat, NEW f, DOMAIN f = 1 .. N, NEW n \in 1 .. N, NEW l
  PROVE  /\ CalcNodeHash(f, n, l) # << >>
         /\ CalcNodeHash(f, n, l)[2] = f[n].child
         /\ CalcNodeHash(f, n, l)[3] = f[n].tag
         /\ n = 1 => CalcNodeHash(f, n, l)[4] = l
<1>1. PICK C \in 0 .. 2 :
           /\ ChildHashes(f, n) = [k \in 1 .. C |-> f[2 * n + k - 1].hash]
  BY KidHashes
<1>2. PICK a, b, c, d : /\ a = f[n].blk /\ b = f[n].child /\ c = f[n].tag
                        /\ d = IF n = 1 THEN l ELSE -1
  OBVIOUS
<1> DEFINE S == {a, b, c, d} \cup {f[2 * n + k - 1].hash : k \in 1 .. C}
<1>3. <<a, b, c, d>> \in Seq(S) /\ Len(<<a, b, c, d>>) = 4
  OBVIOUS
<1>4. ChildHashes(f, n) \in Seq(S) /\ Len(ChildHashes(f, n)) = C
  <2>1. \A k \in 1 .. C : f[2 * n + k - 1].hash \in S
    OBVIOUS
  <2> HIDE DEF S
  <2> QED BY <1>1, <2>1, IsASeq
<1>5. PICK s : s = ChildHashes(f, n)
  OBVIOUS
<1>6. PICK h : h = <<a, b, c, d>> \o s
  OBVIOUS
<1>7. /\ Len(h) = 4 + C
      /\ \A i \in 1 .. 4 : h[i] = <<a, b, c, d>>[i]
  <2> HIDE DEF S
  <2> QED BY <1>3, <1>4, <1>5, <1>6, ConcatProperties
<1>8. h[2] = b /\ h[3] = c /\ h[4] = d /\ h # << >>
  BY <1>7
<1>9. CalcNodeHash(f, n, l) = h
  BY <1>2, <1>5, <1>6, Zenon DEF CalcNodeHash
<1> QED BY <1>2, <1>8, <1>9

----------------------------------------------------------------------------
(* The order of a sync. *)

(* The sequence s visits the nodes below n, a node after its children. *)
Below(N, n, s) ==
  /\ s \in Seq(1 .. N) /\ NoRepeats(s)
  /\ \A j \in 1 .. Len(s) : s[j] >= n
  /\ \A j \in 1 .. Len(s) : s[j] # n => \E k \in j + 1 .. Len(s) : s[k] = s[j] \div 2
  /\ n <= N => \E j \in 1 .. Len(s) : s[j] = n
  /\ \A j \in 1 .. Len(s) : \A m \in Kids(s[j]) : m <= N => \E k \in 1 .. Len(s) : s[k] = m

(* The visits below two siblings have no node in common. *)
LEMMA Apart ==
  ASSUME NEW N \in Nat, NEW n \in 1 .. N, NEW a, NEW b,
         Below(N, 2 * n, a), Below(N, 2 * n + 1, b)
  PROVE  \A j \in 1 .. Len(a), k \in 1 .. Len(b) : a[j] # b[k]
<1> DEFINE S == {x \in 1 .. N : /\ \E j \in 1 .. Len(a) : a[j] = x
                                /\ \E k \in 1 .. Len(b) : b[k] = x}
<1>1. S \in SUBSET Nat
  OBVIOUS
<1>2. S = {}
  <2> SUFFICES ASSUME S # {} PROVE FALSE
    OBVIOUS
  <2>1. PICK x \in S : \A y \in S : x <= y
    <3> HIDE DEF S
    <3> QED BY <1>1, LeastExists
  <2>2. PICK j \in 1 .. Len(a) : a[j] = x
    OBVIOUS
  <2>3. PICK k \in 1 .. Len(b) : b[k] = x
    OBVIOUS
  <2>4. x \in 1 .. N /\ x >= 2 * n + 1
    BY <2>3 DEF Below
  <2>5. \E i \in 1 .. Len(a) : a[i] = x \div 2
    <3> a[j] # 2 * n
      BY <2>2, <2>4
    <3>1. PICK i \in j + 1 .. Len(a) : a[i] = a[j] \div 2
      BY DEF Below
    <3>2. i \in 1 .. Len(a)
      BY DEF Below
    <3> QED BY <2>2, <3>1, <3>2
  <2>6. x # 2 * n + 1
    BY <2>5, <2>4 DEF Below
  <2>7. \E i \in 1 .. Len(b) : b[i] = x \div 2
    <3>1. PICK i \in k + 1 .. Len(b) : b[i] = b[k] \div 2
      BY <2>3, <2>4, <2>6 DEF Below
    <3>2. i \in 1 .. Len(b)
      BY DEF Below
    <3> QED BY <2>3, <3>1, <3>2
  <2>8. x \div 2 \in 1 .. N /\ x \div 2 < x
    BY <2>4
  <2>9. x \div 2 \in S
    BY <2>5, <2>7, <2>8
  <2> HIDE DEF S
  <2> QED BY <2>1, <2>4, <2>8, <2>9
<1>3. ASSUME NEW j \in 1 .. Len(a), NEW k \in 1 .. Len(b), a[j] = b[k] PROVE FALSE
  <2>1. a[j] \in 1 .. N
    BY DEF Below
  <2>2. a[j] \in S
    BY <1>3, <2>1
  <2> QED BY <1>2, <2>2
<1> QED BY <1>3

(* Both children and then the node: a visit of the node. *)
LEMMA Joined ==
  ASSUME NEW N \in Nat, NEW n \in 1 .. N, NEW a, NEW b,
         Below(N, 2 * n, a), Below(N, 2 * n + 1, b)
  PROVE  Below(N, n, a \o b \o <<n>>)
<1>1. a \in Seq(1 .. N) /\ b \in Seq(1 .. N) /\ <<n>> \in Seq(1 .. N)
  BY DEF Below
<1>2. PICK d : d = a \o b
  OBVIOUS
<1>3. PICK s : s = d \o <<n>>
  OBVIOUS
<1>4. PICK A \in Nat : A = Len(a)
  BY <1>1
<1>5. PICK B \in Nat : B = Len(b)
  BY <1>1
<1>6. /\ d \in Seq(1 .. N) /\ Len(d) = A + B
      /\ \A i \in 1 .. A + B : d[i] = IF i <= A THEN a[i] ELSE b[i - A]
  BY <1>1, <1>2, <1>4, <1>5, ConcatProperties
<1>7. /\ s \in Seq(1 .. N) /\ Len(s) = A + B + 1
      /\ \A i \in 1 .. A + B : s[i] = d[i]
      /\ s[A + B + 1] = n
  <2>1. Len(<<n>>) = 1 /\ <<n>>[1] = n
    OBVIOUS
  <2>2. /\ s \in Seq(1 .. N) /\ Len(s) = Len(d) + 1
        /\ \A i \in 1 .. Len(d) + 1 : s[i] = IF i <= Len(d) THEN d[i] ELSE <<n>>[i - Len(d)]
    BY <1>1, <1>3, <1>6, <2>1, ConcatProperties
  <2> QED BY <1>6, <2>1, <2>2
<1>8. /\ \A i \in 1 .. A : s[i] = a[i]
      /\ \A i \in 1 .. B : s[A + i] = b[i]
      /\ \A i \in 1 .. Len(s) : i \in 1 .. A \/ i - A \in 1 .. B \/ i = A + B + 1
  BY <1>6, <1>7
<1>9. \A i \in 1 .. A : a[i] \in 1 .. N /\ a[i] >= 2 * n
  BY <1>4 DEF Below
<1>10. \A i \in 1 .. B : b[i] \in 1 .. N /\ b[i] >= 2 * n + 1
  BY <1>5 DEF Below
<1>11. NoRepeats(s)
  <2> SUFFICES ASSUME NEW j \in 1 .. Len(s), NEW k \in 1 .. Len(s), s[j] = s[k], j < k
               PROVE  FALSE
    BY <1>7 DEF NoRepeats
  <2>1. CASE j \in 1 .. A /\ k \in 1 .. A
    BY <1>4, <1>8, <2>1 DEF Below, NoRepeats
  <2>2. CASE j \in 1 .. A /\ k - A \in 1 .. B
    <3>1. s[j] = a[j] /\ s[k] = b[k - A]
      BY <1>8, <2>2
    <3> QED BY <1>4, <1>5, <2>2, <3>1, Apart
  <2>3. CASE j - A \in 1 .. B /\ k - A \in 1 .. B
    <3>1. s[j] = b[j - A] /\ s[k] = b[k - A]
      BY <1>8, <2>3
    <3>2. PICK i \in 1 .. B : i = j - A
      BY <2>3
    <3>3. PICK l \in 1 .. B : l = k - A
      BY <2>3
    <3>4. b[i] = b[l]
      BY <3>1, <3>2, <3>3
    <3>5. NoRepeats(b)
      BY <1>5 DEF Below
    <3>6. i = l
      BY <1>4, <1>5, <3>4, <3>5 DEF NoRepeats
    <3> QED BY <3>2, <3>3, <3>6
  <2>4. CASE k = A + B + 1
    <3>1. s[j] = n
      BY <1>7, <2>4
    <3>2. j \in 1 .. A \/ j - A \in 1 .. B
      BY <1>8, <2>4
    <3>3. CASE j \in 1 .. A
      BY <1>8, <1>9, <3>1, <3>3
    <3>4. CASE j - A \in 1 .. B
      <4>1. s[j] = b[j - A]
        BY <1>8, <3>4
      <4> QED BY <1>10, <3>1, <3>4, <4>1
    <3> QED BY <3>2, <3>3, <3>4
  <2> QED BY <1>4, <1>5, <1>7, <1>8, <2>1, <2>2, <2>3, <2>4
<1>12. \A j \in 1 .. Len(s) : s[j] >= n
  <2> SUFFICES ASSUME NEW j \in 1 .. Len(s) PROVE s[j] >= n
    OBVIOUS
  <2>1. CASE j \in 1 .. A
    BY <1>8, <1>9, <2>1
  <2>2. CASE j - A \in 1 .. B
    <3>1. s[j] = b[j - A]
      BY <1>8, <2>2
    <3> QED BY <1>10, <2>2, <3>1
  <2>3. CASE j = A + B + 1
    BY <1>7, <2>3
  <2> QED BY <1>8, <2>1, <2>2, <2>3
<1>13. ASSUME NEW j \in 1 .. Len(s), s[j] # n PROVE \E k \in j + 1 .. Len(s) : s[k] = s[j] \div 2
  <2>1. CASE j \in 1 .. A
    <3>1. s[j] = a[j]
      BY <1>8, <2>1
    <3>2. CASE a[j] = 2 * n
      <4>1. a[j] \div 2 = n
        BY <3>2
      <4>2. A + B + 1 \in j + 1 .. Len(s)
        BY <1>7, <2>1
      <4> QED BY <1>7, <3>1, <4>1, <4>2
    <3>3. CASE a[j] # 2 * n
      <4>1. PICK k \in j + 1 .. A : a[k] = a[j] \div 2
        BY <1>4, <2>1, <3>3 DEF Below
      <4>2. s[k] = a[k] /\ k \in j + 1 .. Len(s)
        BY <1>7, <1>8, <2>1
      <4> QED BY <3>1, <4>1, <4>2
    <3> QED BY <3>2, <3>3
  <2>2. CASE j - A \in 1 .. B
    <3>1. PICK i \in 1 .. B : i = j - A
      BY <2>2
    <3>2. s[j] = b[i] /\ j = A + i
      BY <1>8, <3>1
    <3>3. CASE b[i] = 2 * n + 1
      <4>1. b[i] \div 2 = n
        BY <3>3
      <4>2. A + B + 1 \in j + 1 .. Len(s)
        BY <1>7, <3>2
      <4> QED BY <1>7, <3>2, <4>1, <4>2
    <3>4. CASE b[i] # 2 * n + 1
      <4>1. PICK k \in i + 1 .. B : b[k] = b[i] \div 2
        BY <1>5, <3>4 DEF Below
      <4>2. k \in 1 .. B /\ s[A + k] = b[k] /\ A + k \in j + 1 .. Len(s)
        BY <1>7, <1>8, <3>2
      <4> QED BY <3>2, <4>1, <4>2
    <3> QED BY <3>3, <3>4
  <2>3. CASE j = A + B + 1
    BY <1>7, <1>13, <2>3
  <2> QED BY <1>8, <2>1, <2>2, <2>3
<1>14. A + B + 1 \in 1 .. Len(s) /\ s[A + B + 1] = n
  BY <1>7
<1>15. ASSUME NEW m, \/ \E k \in 1 .. A : a[k] = m
                     \/ \E k \in 1 .. B : b[k] = m
       PROVE  \E k \in 1 .. Len(s) : s[k] = m
  <2>1. CASE \E k \in 1 .. A : a[k] = m
    BY <1>7, <1>8, <2>1
  <2>2. CASE \E k \in 1 .. B : b[k] = m
    <3>1. PICK k \in 1 .. B : b[k] = m
      BY <2>2
    <3>2. A + k \in 1 .. Len(s) /\ s[A + k] = b[k]
      BY <1>7, <1>8
    <3> QED BY <3>1, <3>2
  <2> QED BY <1>15, <2>1, <2>2
<1>16. ASSUME NEW j \in 1 .. Len(s), NEW m \in Kids(s[j]), m <= N
       PROVE  \E k \in 1 .. Len(s) : s[k] = m
  <2>1. CASE j \in 1 .. A
    <3>1. m \in Kids(a[j])
      BY <1>8, <2>1
    <3>2. \E k \in 1 .. A : a[k] = m
      BY <1>4, <1>16, <2>1, <3>1 DEF Below
    <3> QED BY <1>15, <3>2
  <2>2. CASE j - A \in 1 .. B
    <3>1. PICK i \in 1 .. B : i = j - A
      BY <2>2
    <3>2. s[j] = b[i]
      BY <1>8, <3>1
    <3>3. \E k \in 1 .. B : b[k] = m
      BY <1>5, <1>16, <3>2 DEF Below
    <3> QED BY <1>15, <3>3
  <2>3. CASE j = A + B + 1
    <3>1. m = 2 * n \/ m = 2 * n + 1
      BY <1>7, <1>16, <2>3 DEF Kids
    <3>2. CASE m = 2 * n
      <4>1. \E k \in 1 .. A : a[k] = m
        BY <1>4, <1>16, <3>2 DEF Below
      <4> QED BY <1>15, <4>1
    <3>3. CASE m = 2 * n + 1
      <4>1. \E k \in 1 .. B : b[k] = m
        BY <1>5, <1>16, <3>3 DEF Below
      <4> QED BY <1>15, <4>1
    <3> QED BY <3>1, <3>2, <3>3
  <2> QED BY <1>8, <2>1, <2>2, <2>3
<1>17. Below(N, n, s)
  BY <1>7, <1>11, <1>12, <1>13, <1>14, <1>16 DEF Below
<1> QED BY <1>2, <1>3, <1>17

(* f answers what PostOrder's recursion asks. *)
Turn(f, N, n) == IF n \in 1 .. N THEN f[2 * n] \o f[2 * n + 1] \o <<n>> ELSE << >>
Ids == 1 .. 2 * MaxNode + 1
Visits(f, N) == f = [n \in Ids |-> Turn(f, N, n)]

(* The recursion of PostOrder has a solution. *)
LEMMA VisitsExist ==
  ASSUME NEW N \in 1 .. MaxNode
  PROVE  \E f : Visits(f, N)
<1> MaxNode \in Nat
  BY ConstantsOK
<1> DEFINE Solves(f, d) == /\ f \in [Ids -> Seq(1 .. N)]
                           /\ \A n \in Ids : n > N - d => f[n] = Turn(f, N, n)
           Bad == {d \in 0 .. N : ~\E f : Solves(f, d)}
<1>1. Bad = {}
  <2> SUFFICES ASSUME Bad # {} PROVE FALSE
    OBVIOUS
  <2>1. PICK d \in Bad : \A e \in Bad : d <= e
    <3>1. Bad \in SUBSET Nat
      OBVIOUS
    <3> HIDE DEF Bad
    <3> QED BY <3>1, LeastExists
  <2>2. d \in 0 .. N /\ ~\E f : Solves(f, d)
    OBVIOUS
  <2>3. d # 0
    <3>1. PICK f : f = [n \in Ids |-> << >>]
      OBVIOUS
    <3>2. f \in [Ids -> Seq(1 .. N)]
      BY <3>1
    <3>3. ASSUME NEW n \in Ids, n > N - 0 PROVE f[n] = Turn(f, N, n)
      <4>1. n \notin 1 .. N
        BY <3>3 DEF Ids
      <4>2. f[n] = << >>
        BY <3>1
      <4> QED BY <4>1, <4>2 DEF Turn
    <3> QED BY <2>2, <3>2, <3>3
  <2>4. d - 1 \in 0 .. N /\ d - 1 \notin Bad
    <3> HIDE DEF Bad
    <3> QED BY <2>1, <2>2, <2>3
  <2>5. PICK f : Solves(f, d - 1)
    <3> HIDE DEF Solves
    <3> QED BY <2>4
  <2>6. PICK k \in 1 .. N : k = N - d + 1
    BY <2>2, <2>3
  <2>7. 2 * k \in Ids /\ 2 * k + 1 \in Ids /\ k \in Ids
    BY <2>6 DEF Ids
  <2>8. PICK t : t = f[2 * k] \o f[2 * k + 1] \o <<k>>
    OBVIOUS
  <2>9. t \in Seq(1 .. N)
    <3>1. f[2 * k] \in Seq(1 .. N) /\ f[2 * k + 1] \in Seq(1 .. N) /\ <<k>> \in Seq(1 .. N)
      BY <2>5, <2>7
    <3> QED BY <2>8, <3>1
  <2>10. PICK g : g = [n \in Ids |-> IF n = k THEN t ELSE f[n]]
    OBVIOUS
  <2>11. g \in [Ids -> Seq(1 .. N)]
    BY <2>5, <2>9, <2>10
  <2>12. ASSUME NEW n \in Ids, n > N - d PROVE g[n] = Turn(g, N, n)
    <3>1. CASE n \notin 1 .. N
      <4>1. n # k
        BY <3>1
      <4>2. n > N - (d - 1)
        BY <2>2, <2>6, <2>12, <4>1 DEF Ids
      <4>3. f[n] = << >>
        BY <2>5, <3>1, <4>2 DEF Turn
      <4> QED BY <2>10, <3>1, <4>1, <4>3 DEF Turn
    <3>2. CASE n \in 1 .. N
      <4>1. 2 * n \in Ids /\ 2 * n + 1 \in Ids /\ 2 * n # k /\ 2 * n + 1 # k
        BY <2>6, <2>12, <3>2, <2>2 DEF Ids
      <4>2. g[2 * n] = f[2 * n] /\ g[2 * n + 1] = f[2 * n + 1]
        BY <2>10, <4>1
      <4>3. CASE n = k
        <5>1. g[n] = t
          BY <2>10, <4>3
        <5> QED BY <2>8, <3>2, <4>2, <4>3, <5>1, Zenon DEF Turn
      <4>4. CASE n # k
        <5>1. n > N - (d - 1) /\ g[n] = f[n]
          BY <2>2, <2>6, <2>10, <2>12, <4>4 DEF Ids
        <5>2. f[n] = f[2 * n] \o f[2 * n + 1] \o <<n>>
          BY <2>5, <3>2, <5>1 DEF Turn
        <5> QED BY <3>2, <4>2, <5>1, <5>2, Zenon DEF Turn
      <4> QED BY <4>3, <4>4
    <3> QED BY <3>1, <3>2
  <2>13. Solves(g, d)
    BY <2>11, <2>12
  <2> QED BY <2>2, <2>13
<1>2. PICK f : Solves(f, N)
  <2> HIDE DEF Solves
  <2> QED BY <1>1
<1>3. \A n \in Ids : f[n] = Turn(f, N, n)
  BY <1>2 DEF Ids
<1>4. f = [n \in Ids |-> Turn(f, N, n)]
  BY <1>2, <1>3
<1> QED BY <1>4 DEF Visits

(* What a solution visits, by induction from the leaves up. *)
LEMMA VisitsBelow ==
  ASSUME NEW N \in 1 .. MaxNode, NEW f, Visits(f, N)
  PROVE  \A n \in Ids : Below(N, n, f[n])
<1> MaxNode \in Nat
  BY ConstantsOK
<1>1. \A n \in Ids : f[n] = Turn(f, N, n)
  <2> HIDE DEF Turn
  <2> QED BY DEF Visits
<1>2. ASSUME NEW n \in Ids, n \notin 1 .. N PROVE Below(N, n, f[n])
  <2>1. f[n] = << >>
    <3>1. Turn(f, N, n) = << >>
      BY <1>2 DEF Turn
    <3> QED BY <1>1, <3>1
  <2>3. n > N
    BY <1>2 DEF Ids
  <2>2. Len(<< >>) = 0 /\ << >> \in Seq(1 .. N) /\ 1 .. 0 = {}
    OBVIOUS
  <2> QED BY <2>1, <2>2, <2>3 DEF Below, NoRepeats, Ids
<1> DEFINE Bad == {d \in 0 .. N : N - d \in 1 .. N /\ ~Below(N, N - d, f[N - d])}
<1>3. Bad = {}
  <2> SUFFICES ASSUME Bad # {} PROVE FALSE
    OBVIOUS
  <2>1. PICK d \in Bad : \A e \in Bad : d <= e
    <3>1. Bad \in SUBSET Nat
      OBVIOUS
    <3> HIDE DEF Bad
    <3> QED BY <3>1, LeastExists
  <2>2. d \in 0 .. N /\ N - d \in 1 .. N /\ ~Below(N, N - d, f[N - d])
    OBVIOUS
  <2>3. PICK n \in 1 .. N : n = N - d
    BY <2>2
  <2>4. n \in Ids /\ 2 * n \in Ids /\ 2 * n + 1 \in Ids
    BY <2>3 DEF Ids
  <2>5. ASSUME NEW m \in Ids, m > n PROVE Below(N, m, f[m])
    <3>1. CASE m \in 1 .. N
      <4>1. PICK e \in 0 .. N : e = N - m
        BY <3>1
      <4>2. e < d /\ m = N - e
        BY <2>2, <2>3, <2>5, <3>1, <4>1
      <4>3. e \notin Bad
        <5> HIDE DEF Bad
        <5> QED BY <2>1, <2>2, <4>2
      <4> QED BY <3>1, <4>2, <4>3
    <3> QED BY <1>2, <3>1
  <2>6. Below(N, 2 * n, f[2 * n]) /\ Below(N, 2 * n + 1, f[2 * n + 1])
    BY <2>4, <2>5, <2>3
  <2>7. f[n] = f[2 * n] \o f[2 * n + 1] \o <<n>>
    BY <1>1, <2>4 DEF Turn
  <2>8. Below(N, n, f[n])
    BY <2>6, <2>7, Joined
  <2> QED BY <2>2, <2>3, <2>8
<1>4. ASSUME NEW n \in 1 .. N PROVE Below(N, n, f[n])
  <2>1. PICK d \in 0 .. N : d = N - n
    OBVIOUS
  <2>2. N - d = n
    BY <2>1
  <2> QED BY <1>3, <2>1, <2>2
<1> QED BY <1>2, <1>4

(* PostOrder visits every node, once, after its children. *)
LEMMA Ordered ==
  ASSUME NEW max \in 0 .. MaxNode
  PROVE  /\ Below(Sized(max), 1, PostOrder(max))
         /\ Elements(PostOrder(max)) = 1 .. Sized(max)
<1> MaxNode \in Nat /\ MaxNode > 0
  BY ConstantsOK
<1>1. PICK N \in 1 .. MaxNode : N = Sized(max)
  BY DEF Sized, Max2
<1>2. NodesUpTo(max) = 1 .. N
  BY <1>1 DEF NodesUpTo, Sized
<1>3. PICK f : f = CHOOSE g : g = [n \in 1 .. 2 * MaxNode + 1 |->
                IF n \in NodesUpTo(max) THEN g[2 * n] \o g[2 * n + 1] \o <<n>> ELSE << >>]
  OBVIOUS
<1>4. PostOrder(max) = f[1]
  BY <1>3, Zenon DEF PostOrder
<1>5. \A g : Visits(g, N) <=> g = [n \in 1 .. 2 * MaxNode + 1 |->
                IF n \in NodesUpTo(max) THEN g[2 * n] \o g[2 * n + 1] \o <<n>> ELSE << >>]
  BY <1>2, Zenon DEF Visits, Turn, Ids
<1>6. Visits(f, N)
  BY <1>3, <1>5, VisitsExist, Zenon
<1>7. 1 \in Ids
  BY DEF Ids
<1>8. PICK s : s = f[1]
  OBVIOUS
<1>9. Below(N, 1, s)
  BY <1>6, <1>7, <1>8, VisitsBelow
<1> DEFINE Missing == {n \in 1 .. N : \A j \in 1 .. Len(s) : s[j] # n}
<1>10. Missing = {}
  <2> SUFFICES ASSUME Missing # {} PROVE FALSE
    OBVIOUS
  <2>1. PICK n \in Missing : \A m \in Missing : n <= m
    <3>1. Missing \in SUBSET Nat
      OBVIOUS
    <3> HIDE DEF Missing
    <3> QED BY <3>1, LeastExists
  <2>2. n \in 1 .. N /\ \A j \in 1 .. Len(s) : s[j] # n
    OBVIOUS
  <2>3. n # 1
    BY <1>9, <2>2 DEF Below
  <2>4. n \div 2 \in 1 .. N /\ n \div 2 < n /\ n \in Kids(n \div 2)
    BY <2>2, <2>3 DEF Kids
  <2>5. n \div 2 \notin Missing
    <3> HIDE DEF Missing
    <3> QED BY <2>1, <2>2, <2>4
  <2>6. PICK j \in 1 .. Len(s) : s[j] = n \div 2
    BY <2>4, <2>5
  <2>7. n \in Kids(s[j]) /\ n <= N
    BY <2>2, <2>4, <2>6
  <2> QED BY <1>9, <2>2, <2>7 DEF Below
<1>11. Elements(s) = 1 .. N
  BY <1>9, <1>10 DEF Elements, Below
<1> QED BY <1>1, <1>4, <1>8, <1>9, <1>11

----------------------------------------------------------------------------
(* What an open finds. *)

(* The assumptions on the constants that the proofs use. *)
LEMMA Consts ==
  /\ MaxNode \in Nat /\ MaxNode > 0 /\ MaxChanges \in Nat
  /\ Cuts \subseteq 0 .. MaxNode * 2 /\ MinCut \in Nat /\ MaxShrink \in Nat
  /\ BlockSize = 2
BY ConstantsOK DEF BlockSize

(* The fields of a head. *)
LEMMA HeadFacts ==
  ASSUME DiskType, NEW i \in 0 .. 1
  PROVE  /\ head[i].counter \in Nat /\ head[i].max \in 0 .. MaxNode
         /\ head[i].len \in 0 .. 2 * MaxNode /\ SizeOf(i) \in 1 .. MaxNode
<1>1. IsHead(head[i])
  BY DEF DiskType
<1>2. /\ head[i].counter \in Nat /\ head[i].max \in 0 .. MaxNode
      /\ head[i].len \in 0 .. 2 * MaxNode
  BY <1>1 DEF IsHead
<1>3. SizeOf(i) \in 1 .. MaxNode
  BY <1>2, Consts DEF SizeOf, Max2
<1> QED BY <1>2, <1>3

(* The fields of an image of a node. *)
LEMMA ImageFacts ==
  ASSUME DiskType, NEW n \in 1 .. MaxNode, NEW v \in 0 .. 1
  PROVE  /\ node[n][v].blk \in 0 .. 1 /\ node[n][v].child \in Flags
         /\ node[n][v].tag \in 0 .. changes
         /\ node[n][v].child[0] \in 0 .. 1 /\ node[n][v].child[1] \in 0 .. 1
<1>1. IsImage(node[n][v])
  BY DEF DiskType
<1>2. /\ node[n][v].blk \in 0 .. 1 /\ node[n][v].child \in Flags
      /\ node[n][v].tag \in 0 .. changes
  BY <1>1 DEF IsImage
<1>3. node[n][v].child[0] \in 0 .. 1 /\ node[n][v].child[1] \in 0 .. 1
  BY <1>2 DEF Flags
<1> QED BY <1>2, <1>3

(* The parent of a node, and which of its children the node is. *)
LEMMA Half ==
  ASSUME NEW n \in Nat, n > 1
  PROVE  /\ n \div 2 \in Nat /\ n \div 2 >= 1 /\ n \div 2 < n /\ n % 2 \in 0 .. 1
         /\ n \in Kids(n \div 2) /\ n = 2 * (n \div 2) + (n % 2)
<1>1. n \div 2 \in Nat /\ n \div 2 >= 1 /\ n \div 2 < n /\ n % 2 \in 0 .. 1
  OBVIOUS
<1>2. n = 2 * (n \div 2) + (n % 2)
  OBVIOUS
<1>3. n = 2 * (n \div 2) \/ n = 2 * (n \div 2) + 1
  BY <1>1, <1>2
<1> QED BY <1>1, <1>2, <1>3 DEF Kids

(* The recursion of InitTreeFromData. *)
Load(i) == CHOOSE h : h = [n \in NodesUpTo(head[i].max) |->
                             IF n = 1 THEN node[1][i] ELSE node[n][h[n \div 2].child[n % 2]]]

(* init_tree_from_data reads the nodes in the versions c. *)
LEMMA LoadedIs ==
  ASSUME DiskType, NEW i, NEW c, Tree(i, c)
  PROVE  InitTreeFromData(i) = Loaded(i, c)
<1> DEFINE N == SizeOf(i)
           Step(f) == [n \in NodesUpTo(head[i].max) |->
                         IF n = 1 THEN node[1][i] ELSE node[n][f[n \div 2].child[n % 2]]]
<1>1. i \in 0 .. 1 /\ N \in 1 .. MaxNode /\ MaxNode \in Nat
  BY HeadFacts, Consts DEF Tree
<1>2. NodesUpTo(head[i].max) = 1 .. N
  BY DEF NodesUpTo, SizeOf
<1>3. PICK g : g = Loaded(i, c)
  OBVIOUS
<1>4. \A n \in 1 .. N : g[n] = node[n][c[n]]
  BY <1>3 DEF Loaded
<1>5. ASSUME NEW n \in 1 .. N PROVE g[n] = IF n = 1 THEN node[1][i] ELSE node[n][g[n \div 2].child[n % 2]]
  <2>1. CASE n = 1
    BY <1>4, <2>1 DEF Tree
  <2>2. CASE n # 1
    <3>1. n \in 2 .. N /\ n \div 2 \in 1 .. N
      BY <1>1, <2>2, Half
    <3>2. c[n] = node[n \div 2][c[n \div 2]].child[n % 2]
      BY <3>1 DEF Tree
    <3>3. g[n \div 2] = node[n \div 2][c[n \div 2]]
      BY <1>4, <3>1
    <3> QED BY <1>4, <2>2, <3>2, <3>3
  <2> QED BY <2>1, <2>2
<1>6. g = Step(g)
  <2>1. g = [n \in 1 .. N |-> g[n]]
    BY <1>3 DEF Loaded
  <2> QED BY <1>2, <1>5, <2>1
<1>7. PICK f : f = Load(i)
  OBVIOUS
<1>8. f = Step(f)
  BY <1>6, <1>7, Zenon DEF Load
<1>9. ASSUME NEW n \in 1 .. N PROVE f[n] = IF n = 1 THEN node[1][i] ELSE node[n][f[n \div 2].child[n % 2]]
  BY <1>2, <1>8, Zenon
<1> HIDE DEF N, Step
<1> DEFINE Bad == {n \in 1 .. N : f[n] # g[n]}
<1>10. Bad = {}
  <2> SUFFICES ASSUME Bad # {} PROVE FALSE
    OBVIOUS
  <2>1. PICK n \in Bad : \A m \in Bad : n <= m
    <3>1. Bad \in SUBSET Nat
      BY <1>1
    <3> HIDE DEF Bad
    <3> QED BY <3>1, LeastExists
  <2>2. n \in 1 .. N /\ f[n] # g[n]
    OBVIOUS
  <2>3. n # 1
    BY <1>5, <1>9, <2>2
  <2>4. n \div 2 \in 1 .. N /\ n \div 2 < n
    BY <1>1, <2>2, <2>3, Half
  <2>5. n \div 2 \notin Bad
    <3> HIDE DEF Bad
    <3> QED BY <1>1, <2>1, <2>2, <2>4
  <2>6. f[n \div 2] = g[n \div 2]
    BY <2>4, <2>5
  <2> QED BY <1>5, <1>9, <2>2, <2>3, <2>6
<1>11. \A n \in 1 .. N : f[n] = g[n]
  BY <1>10
<1>12. InitTreeFromData(i) = [n \in NodesUpTo(head[i].max) |-> f[n]]
  <2>1. InitTreeFromData(i) = [n \in NodesUpTo(head[i].max) |-> Load(i)[n]]
    BY Zenon DEF InitTreeFromData, Load
  <2> QED BY <1>7, <2>1
<1>13. g = [n \in 1 .. N |-> g[n]]
  BY <1>3 DEF Loaded, N
<1>14. [n \in 1 .. N |-> f[n]] = [n \in 1 .. N |-> g[n]]
  BY <1>11
<1> QED BY <1>2, <1>3, <1>12, <1>13, <1>14

(* A tree of the file verifies. *)
LEMMA Opens ==
  ASSUME DiskType, NEW i, NEW c, Tree(i, c)
  PROVE  OpenSucceeds(i)
<1>1. InitTreeFromData(i) = Loaded(i, c)
  BY LoadedIs
<1>2. i \in 0 .. 1 /\ SizeOf(i) \in 1 .. MaxNode /\ MaxNode \in Nat
  BY HeadFacts, Consts DEF Tree
<1>3. PICK f : f = Loaded(i, c)
  OBVIOUS
<1>4. DOMAIN f = 1 .. SizeOf(i) /\ \A n \in 1 .. SizeOf(i) : f[n] = node[n][c[n]]
  BY <1>3 DEF Loaded
<1>5. \A n \in 1 .. SizeOf(i) : f[n].hash = CalcNodeHash(f, n, head[i].len)
  BY <1>3, <1>4 DEF Tree
<1>6. head[i].root = CalcNodeHash(f, 1, head[i].len)
  BY <1>2, <1>4, <1>5 DEF Tree
<1>7. head[i].root # << >>
  BY <1>2, <1>4, <1>6, HashParts
<1>8. VerifyRoot(i)
  BY <1>7 DEF VerifyRoot, Tree
<1>9. VerifyTree(InitTreeFromData(i), head[i].len)
  BY <1>1, <1>3, <1>4, <1>5 DEF VerifyTree
<1> QED BY <1>2, <1>8, <1>9 DEF OpenSucceeds

(* init_head_from_data takes the version that is committed. *)
LEMMA Taken ==
  ASSUME DiskType, NEW i, Commit(i)
  PROVE  InitHeadFromData = i
<1>1. i \in 0 .. 1 /\ mode \in {"hash", "counter"}
  BY DEF Commit, DiskType
<1>2. CASE mode = "hash"
  BY <1>1, <1>2 DEF Commit, InitHeadFromData
<1>3. CASE mode = "counter"
  <2>1. head[0].counter \in Nat /\ head[1].counter \in Nat
    BY HeadFacts
  <2>2. CASE i = 0
    <3>1. head[0].counter % 2 = 0 /\ head[1].counter < head[0].counter
      BY <1>3, <2>2 DEF Commit
    <3> QED BY <1>3, <2>1, <2>2, <3>1 DEF InitHeadFromData, GetIdxFromCounter
  <2>3. CASE i = 1
    <3>1. head[1].counter % 2 = 1 /\ head[0].counter % 2 = 0 /\ head[0].counter < head[1].counter
      BY <1>3, <2>3 DEF Commit
    <3> QED BY <1>3, <2>1, <2>3, <3>1 DEF InitHeadFromData, GetIdxFromCounter
  <2> QED BY <1>1, <2>2, <2>3
<1> QED BY <1>1, <1>2, <1>3

----------------------------------------------------------------------------
(* Steps that leave the file as it is. *)

(* A tree stays one when its head, its nodes and the tags of its blocks stay. *)
LEMMA TreeKept ==
  ASSUME NEW i, NEW c, Tree(i, c), DiskType,
         head'[i] = head[i],
         \A n \in 1 .. SizeOf(i) : node'[n][c[n]] = node[n][c[n]],
         \A b \in Blocks : b * BlockSize < head[i].len =>
            blk'[b][node[b + 1][c[b + 1]].blk].tag = blk[b][node[b + 1][c[b + 1]].blk].tag
  PROVE  Tree(i, c)'
<1>1. i \in 0 .. 1 /\ SizeOf(i) \in 1 .. MaxNode /\ MaxNode \in Nat
  BY HeadFacts, Consts DEF Tree
<1>2. SizeOf(i)' = SizeOf(i)
  BY DEF SizeOf
<1>3. Loaded(i, c)' = Loaded(i, c)
  BY <1>2 DEF Loaded
<1>4. head'[i].counter % 2 = i /\ c \in [1 .. SizeOf(i)' -> 0 .. 1] /\ c[1] = i
  BY <1>2 DEF Tree
<1>5. ASSUME NEW n \in 2 .. SizeOf(i) PROVE c[n] = node'[n \div 2][c[n \div 2]].child[n % 2]
  <2>1. n \div 2 \in 1 .. SizeOf(i)
    BY <1>1, Half
  <2>2. c[n] = node[n \div 2][c[n \div 2]].child[n % 2]
    BY DEF Tree
  <2> QED BY <2>1, <2>2
<1>6. \A n \in 1 .. SizeOf(i) : node'[n][c[n]].hash = CalcNodeHash(Loaded(i, c)', n, head'[i].len)
  BY <1>3 DEF Tree
<1>7. head'[i].root = node'[1][i].hash
  BY <1>1 DEF Tree
<1>8. ASSUME NEW b \in Blocks, b * BlockSize < head[i].len
      PROVE  b + 1 <= SizeOf(i) /\ Decrypts(b, node[b + 1][c[b + 1]])'
  <2>1. b + 1 <= SizeOf(i) /\ Decrypts(b, node[b + 1][c[b + 1]])
    BY <1>8 DEF Tree
  <2>2. b + 1 \in 1 .. SizeOf(i)
    BY <1>1, <2>1 DEF Blocks
  <2>3. node'[b + 1][c[b + 1]] = node[b + 1][c[b + 1]]
    BY <2>2
  <2> QED BY <1>8, <2>1, <2>3 DEF Decrypts
<1> QED BY <1>1, <1>2, <1>4, <1>5, <1>6, <1>7, <1>8 DEF Tree

(* A tree stays one in a file that does not change. *)
LEMMA TreeSame ==
  ASSUME NEW i, NEW c, Tree(i, c), DiskType, UNCHANGED <<head, node, blk>>
  PROVE  Tree(i, c)'
BY TreeKept

(* The file keeps its invariant when it does not change. *)
LEMMA DiskSame ==
  ASSUME DiskInv, UNCHANGED <<mode, disk, trusted, changes>>
  PROVE  DiskInv' /\ Exists' = Exists
<1>1. UNCHANGED <<mode, file, head, node, blk, trusted, changes>>
  BY DEF disk
<1>2. DiskType'
  BY <1>1 DEF DiskInv, DiskType, IsHead, IsImage
<1>3. Exists' = Exists
  BY <1>1 DEF Exists
<1>4. \A i : SizeOf(i)' = SizeOf(i) /\ Commit(i)' = Commit(i)
  BY <1>1 DEF SizeOf, Commit
<1>5. ASSUME Exists
      PROVE  \E i \in 0 .. 1 : \E c \in [1 .. SizeOf(i)' -> 0 .. 1] : Commit(i)' /\ Tree(i, c)'
  <2>1. PICK i \in 0 .. 1 : \E c \in [1 .. SizeOf(i) -> 0 .. 1] : Commit(i) /\ Tree(i, c)
    BY <1>5 DEF DiskInv
  <2>2. PICK c \in [1 .. SizeOf(i) -> 0 .. 1] : Commit(i) /\ Tree(i, c)
    BY <2>1
  <2>3. Tree(i, c)'
    BY <1>1, <2>2, TreeSame DEF DiskInv
  <2> QED BY <1>4, <2>2, <2>3
<1>6. mode' = "counter" /\ ~Exists' =>
        node'[1][0].hash = << >> /\ \A v \in 0 .. 1 : head'[v] = ZeroHead
  BY <1>1, <1>3 DEF DiskInv
<1>7. mode' = "counter" /\ Exists' => file' = "data"
  BY <1>1, <1>3 DEF DiskInv
<1> QED BY <1>2, <1>3, <1>5, <1>6, <1>7 DEF DiskInv

(* Losing power, or closing the file, keeps the invariant. *)
LEMMA LoseStep ==
  ASSUME Inv, Lose
  PROVE  Inv'
<1>1. DiskInv'
  BY DiskSame DEF Inv, Lose
<1>2. MemInv'
  BY DEF MemInv, Lose
<1> QED BY <1>1, <1>2 DEF Inv

----------------------------------------------------------------------------
(* Creating. *)

(* What a part of the file reads as that was never written. *)
LEMMA ZeroFacts ==
  /\ ZeroHead.counter = 0 /\ ZeroHead.root = << >> /\ ZeroHead.max = 0 /\ ZeroHead.len = 0
  /\ ZeroNode.hash = << >> /\ ZeroNode.tag = 0 /\ ZeroNode.blk = 0
  /\ ZeroNode.child \in Flags
BY DEF ZeroHead, ZeroNode, Flags

(* The types of a file that was never written. *)
LEMMA Zeroed ==
  ASSUME changes \in Nat, mode \in {"hash", "counter"},
         file \in {"absent", "empty", "data"},
         head = [v \in 0 .. 1 |-> ZeroHead],
         node = [n \in 1 .. MaxNode |-> [v \in 0 .. 1 |-> ZeroNode]],
         blk = [b \in Blocks |-> [v \in 0 .. 1 |-> ZeroBlock]]
  PROVE  DiskType /\ node[1][0].hash = << >> /\ \A v \in 0 .. 1 : head[v] = ZeroHead
<1>1. \A v \in 0 .. 1 : IsHead(head[v])
  BY Consts DEF IsHead, ZeroHead
<1>2. \A n \in 1 .. MaxNode : \A v \in 0 .. 1 : IsImage(node[n][v])
  BY DEF IsImage, ZeroNode, Flags
<1>3. head = [v \in 0 .. 1 |-> head[v]]
  OBVIOUS
<1>4. node = [n \in 1 .. MaxNode |-> [v \in 0 .. 1 |-> node[n][v]]]
  OBVIOUS
<1>5. blk \in [Blocks -> [0 .. 1 -> [tag : 0 .. changes, data : [0 .. BlockSize - 1 -> 0 .. changes]]]]
  BY DEF ZeroBlock
<1>6. node[1][0].hash = << >>
  BY Consts DEF ZeroNode
<1> QED BY <1>1, <1>2, <1>3, <1>4, <1>5, <1>6 DEF DiskType

(* The invariant holds initially. *)
LEMMA InitStep == Init => Inv
<1> SUFFICES ASSUME Init PROVE Inv
  OBVIOUS
<1>1. DiskType /\ node[1][0].hash = << >> /\ \A v \in 0 .. 1 : head[v] = ZeroHead
  BY Zeroed DEF Init
<1>2. ~Exists
  BY <1>1, ZeroFacts DEF Init, Exists
<1>3. DiskInv
  BY <1>1, <1>2 DEF DiskInv
<1>4. MemInv
  BY DEF MemInv, Init
<1> QED BY <1>3, <1>4 DEF Inv

(* The tree that create_and_sync starts with. *)
LEMMA NewTreeType ==
  ASSUME ht = NewTree, changes \in Nat
  PROVE  /\ TreeType /\ Size = 1
         /\ ht.counter = 0 /\ ht.max = 0 /\ ht.len = 0
<1>1. ht.counter = 0 /\ ht.max = 0 /\ ht.len = 0
  BY DEF NewTree
<1>2. Size = 1
  BY <1>1 DEF Size, Max2
<1>3. PICK r : r = [NewNode EXCEPT !.dirty = TRUE]
  OBVIOUS
<1>4. r = [blk |-> 0, child |-> [k \in 0 .. 1 |-> 0], tag |-> 0, hash |-> << >>,
           dirty |-> TRUE, updated |-> FALSE]
  BY <1>3 DEF NewNode
<1>5. ht.node = [n \in {1} |-> r]
  BY <1>3 DEF NewTree
<1>6. 1 .. 1 = {1}
  OBVIOUS
<1>7. IsNode(ht.node[1])
  BY <1>4, <1>5 DEF IsNode, Flags
<1>8. ht \in [counter : Nat, max : 0 .. MaxNode, len : 0 .. 2 * MaxNode, dirty : BOOLEAN,
             node : {ht.node}]
  BY Consts DEF NewTree
<1> QED BY <1>1, <1>2, <1>5, <1>6, <1>7, <1>8 DEF TreeType

(* The same after a step. *)
LEMMA NewTreeTypeNext ==
  ASSUME ht' = NewTree, changes' \in Nat
  PROVE  TreeType'
<1>1. (ht = NewTree /\ changes \in Nat => TreeType)'
  BY NewTreeType, PTL
<1> QED BY <1>1

(* The types of a file that was erased. *)
LEMMA ZeroedNext ==
  ASSUME DiskType, UNCHANGED <<mode, changes>>, NEW f \in {"absent", "empty"}, Erase(f)
  PROVE  DiskType' /\ node'[1][0].hash = << >> /\ \A v \in 0 .. 1 : head'[v] = ZeroHead
<1>1. (/\ changes \in Nat /\ mode \in {"hash", "counter"}
       /\ file \in {"absent", "empty", "data"}
       /\ head = [v \in 0 .. 1 |-> ZeroHead]
       /\ node = [n \in 1 .. MaxNode |-> [v \in 0 .. 1 |-> ZeroNode]]
       /\ blk = [b \in Blocks |-> [v \in 0 .. 1 |-> ZeroBlock]]
       => DiskType /\ node[1][0].hash = << >> /\ \A v \in 0 .. 1 : head[v] = ZeroHead)'
  BY Zeroed, PTL
<1> QED BY <1>1 DEF Erase, DiskType

(* Creating the file keeps the invariant. *)
LEMMA CreateStep ==
  ASSUME Inv, Create
  PROVE  Inv'
<1>1. DiskType /\ changes \in Nat /\ mode \in {"hash", "counter"}
  BY DEF Inv, DiskInv, DiskType
<1>2. DiskType' /\ node'[1][0].hash = << >> /\ \A v \in 0 .. 1 : head'[v] = ZeroHead
  BY <1>1, ZeroedNext DEF Create
<1>3. ~Exists'
  BY <1>1, <1>2, ZeroFacts DEF Exists, Create
<1>4. DiskInv'
  BY <1>2, <1>3 DEF DiskInv
<1>5. TreeType'
  BY <1>1, NewTreeTypeNext DEF Create, StartCreation
<1>6. Creating'
  BY <1>2, <1>3, ZeroFacts DEF Creating, Create, StartCreation
<1>7. MemInv'
  BY <1>5, <1>6 DEF MemInv, Create, StartCreation
<1> QED BY <1>4, <1>7 DEF Inv

(* Removing a file without heads keeps the invariant. *)
LEMMA OpenEmptyStep ==
  ASSUME Inv, OpenEmpty
  PROVE  Inv'
<1>1. DiskType /\ mode = "counter"
  BY DEF Inv, DiskInv, OpenEmpty
<1>2. DiskType' /\ node'[1][0].hash = << >> /\ \A v \in 0 .. 1 : head'[v] = ZeroHead
  BY <1>1, ZeroedNext DEF OpenEmpty
<1>3. ~Exists'
  BY <1>1, <1>2, ZeroFacts DEF Exists, OpenEmpty
<1>4. DiskInv'
  BY <1>2, <1>3 DEF DiskInv
<1>5. MemInv'
  BY DEF Inv, MemInv, OpenEmpty
<1> QED BY <1>4, <1>5 DEF Inv

(* Creation is started again only of a file that was never committed. *)
LEMMA OpenPartiallyDoneStep ==
  ASSUME Inv, OpenPartiallyDone
  PROVE  Inv' /\ ~Exists /\ ~Exists'
<1>1. DiskType /\ changes \in Nat /\ mode \in {"hash", "counter"}
  BY DEF Inv, DiskInv, DiskType
<1>2. DiskInv' /\ Exists' = Exists
  BY DiskSame DEF Inv, OpenPartiallyDone, StartCreation
<1>3. ~Exists
  <2> SUFFICES ASSUME Exists PROVE FALSE
    OBVIOUS
  <2>1. PICK i \in 0 .. 1 : \E c \in [1 .. SizeOf(i) -> 0 .. 1] : Commit(i) /\ Tree(i, c)
    BY DEF Inv, DiskInv
  <2>2. PICK c : Commit(i) /\ Tree(i, c)
    BY <2>1
  <2>3. InitHeadFromData = i
    BY <1>1, <2>2, Taken
  <2>4. VerifyRoot(i)
    BY <1>1, <2>2, Opens DEF OpenSucceeds
  <2> QED BY <2>3, <2>4 DEF OpenPartiallyDone, HeadIsPartiallyDone, VerifyRoot
<1>4. mode = "counter"
  BY <1>1, <1>3 DEF OpenPartiallyDone, HasName, Exists
<1>5. UNCHANGED <<node, head, mode, changes, trusted>>
  BY DEF OpenPartiallyDone, StartCreation, disk
<1>6. node'[1][0].hash = << >> /\ head'[0].counter = 0
  BY <1>3, <1>4, <1>5, ZeroFacts DEF Inv, DiskInv
<1>7. TreeType'
  BY <1>1, <1>5, NewTreeTypeNext DEF OpenPartiallyDone, StartCreation
<1>8. Creating'
  BY <1>2, <1>3, <1>6 DEF Creating, OpenPartiallyDone, StartCreation
<1>9. MemInv'
  BY <1>7, <1>8 DEF MemInv, OpenPartiallyDone, StartCreation
<1> QED BY <1>2, <1>3, <1>9 DEF Inv

----------------------------------------------------------------------------
(* Opening. *)

(* t is version i of the file, as tee_fs_htree_open loads it. *)
AsLoaded(t, i, c) ==
  /\ t.counter = head[i].counter /\ t.max = head[i].max /\ t.len = head[i].len
  /\ t.dirty = FALSE /\ Nodes(t) = 1 .. SizeOf(i)
  /\ t \in [counter : Nat, max : 0 .. MaxNode, len : 0 .. 2 * MaxNode, dirty : BOOLEAN,
            node : {t.node}]
  /\ t.node = [n \in 1 .. SizeOf(i) |-> t.node[n]]
  /\ \A n \in 1 .. SizeOf(i) :
       t.node[n] = [blk |-> node[n][c[n]].blk, child |-> node[n][c[n]].child,
                    tag |-> node[n][c[n]].tag, hash |-> node[n][c[n]].hash,
                    dirty |-> FALSE, updated |-> FALSE]

(* What tee_fs_htree_open loads from version i. *)
LEMMA FromData ==
  ASSUME DiskType, NEW i, NEW c, Tree(i, c)
  PROVE  AsLoaded(TreeFromData(i), i, c)
<1>12. PICK t : t = TreeFromData(i)
  OBVIOUS
<1>1. i \in 0 .. 1
  BY DEF Tree
<1>2. PICK f : f = Loaded(i, c)
  OBVIOUS
<1>3. InitTreeFromData(i) = f
  BY <1>2, LoadedIs
<1>4. DOMAIN f = 1 .. SizeOf(i) /\ \A n \in 1 .. SizeOf(i) : f[n] = node[n][c[n]]
  BY <1>2 DEF Loaded
<1>5. t = [counter |-> head[i].counter, max |-> head[i].max, len |-> head[i].len,
           dirty |-> FALSE,
           node |-> [n \in DOMAIN f |->
                      [blk |-> f[n].blk, child |-> f[n].child,
                       tag |-> f[n].tag, hash |-> f[n].hash,
                       dirty |-> FALSE, updated |-> FALSE]]]
  BY <1>3, <1>12 DEF TreeFromData
<1>6. /\ head[i].counter \in Nat /\ head[i].max \in 0 .. MaxNode
      /\ head[i].len \in 0 .. 2 * MaxNode
  BY <1>1, HeadFacts
<1>7. PICK g : g = [n \in 1 .. SizeOf(i) |->
                      [blk |-> node[n][c[n]].blk, child |-> node[n][c[n]].child,
                       tag |-> node[n][c[n]].tag, hash |-> node[n][c[n]].hash,
                       dirty |-> FALSE, updated |-> FALSE]]
  OBVIOUS
<1>8. t.node = g
  <2>1. PICK h : h = t.node
    OBVIOUS
  <2>2. h = [n \in 1 .. SizeOf(i) |->
                      [blk |-> f[n].blk, child |-> f[n].child,
                       tag |-> f[n].tag, hash |-> f[n].hash,
                       dirty |-> FALSE, updated |-> FALSE]]
    BY <1>4, <1>5, <2>1
  <2>3. \A n \in 1 .. SizeOf(i) : h[n] = g[n]
    BY <1>4, <1>7, <2>2
  <2>4. h = [n \in 1 .. SizeOf(i) |-> h[n]] /\ g = [n \in 1 .. SizeOf(i) |-> g[n]]
    BY <1>7, <2>2
  <2> QED BY <2>1, <2>3, <2>4
<1>9. /\ DOMAIN g = 1 .. SizeOf(i)
      /\ g = [n \in 1 .. SizeOf(i) |-> g[n]]
      /\ \A n \in 1 .. SizeOf(i) :
              g[n] = [blk |-> node[n][c[n]].blk, child |-> node[n][c[n]].child,
                           tag |-> node[n][c[n]].tag, hash |-> node[n][c[n]].hash,
                           dirty |-> FALSE, updated |-> FALSE]
  BY <1>7
<1>10. /\ t.counter = head[i].counter /\ t.max = head[i].max /\ t.len = head[i].len
       /\ t.dirty = FALSE
  BY <1>5
<1>11. t \in [counter : Nat, max : 0 .. MaxNode, len : 0 .. 2 * MaxNode, dirty : BOOLEAN,
                   node : {t.node}]
  BY <1>5, <1>6
<1> QED BY <1>8, <1>9, <1>10, <1>11, <1>12, Zenon DEF Nodes, AsLoaded

(* The tree in memory is the committed one. *)
LEMMA OpenStep ==
  ASSUME Inv, Open
  PROVE  /\ Inv'
         /\ \E i, c : Commit(i) /\ Tree(i, c) /\ ht' = TreeFromData(i) /\ Exists
<1>1. DiskType /\ mode \in {"hash", "counter"} /\ changes \in Nat
  BY DEF Inv, DiskInv, DiskType
<1>2. DiskInv' /\ Exists' = Exists
  BY DiskSame DEF Inv, Open
<1>3. UNCHANGED <<mode, file, head, node, blk, trusted, changes, todo>>
  BY DEF Open, disk
<1>4. Exists
  <2>1. CASE mode = "hash"
    BY <2>1 DEF Open, HasName, Exists
  <2>2. CASE mode = "counter" /\ ~Exists
    <3>1. \A v \in 0 .. 1 : head[v].root = << >>
      BY <2>2, ZeroFacts DEF Inv, DiskInv
    <3> QED BY <3>1 DEF Open, OpenSucceeds, VerifyRoot
  <2> QED BY <1>1, <2>1, <2>2
<1>5. PICK i \in 0 .. 1 : \E c \in [1 .. SizeOf(i) -> 0 .. 1] : Commit(i) /\ Tree(i, c)
  BY <1>4 DEF Inv, DiskInv
<1>6. PICK c \in [1 .. SizeOf(i) -> 0 .. 1] : Commit(i) /\ Tree(i, c)
  BY <1>5
<1>7. InitHeadFromData = i
  BY <1>1, <1>6, Taken
<1>8. ht' = TreeFromData(i) /\ pc' = "idle"
  BY <1>7 DEF Open
<1>21. PICK t : t = ht'
  OBVIOUS
<1>22. /\ t.counter = head[i].counter /\ t.max = head[i].max /\ t.len = head[i].len
      /\ t.dirty = FALSE
      /\ t \in [counter : Nat, max : 0 .. MaxNode, len : 0 .. 2 * MaxNode, dirty : BOOLEAN,
                   node : {t.node}]
      /\ t.node = [n \in 1 .. SizeOf(i) |-> t.node[n]]
      /\ \A n \in 1 .. SizeOf(i) :
              t.node[n] = [blk |-> node[n][c[n]].blk, child |-> node[n][c[n]].child,
                           tag |-> node[n][c[n]].tag, hash |-> node[n][c[n]].hash,
                           dirty |-> FALSE, updated |-> FALSE]
  <2>1. AsLoaded(t, i, c)
    BY <1>1, <1>6, <1>8, <1>21, FromData
  <2> QED BY <2>1, Zenon DEF AsLoaded
<1>9. /\ ht'.counter = head[i].counter /\ ht'.max = head[i].max /\ ht'.len = head[i].len
      /\ ht'.dirty = FALSE
      /\ ht' \in [counter : Nat, max : 0 .. MaxNode, len : 0 .. 2 * MaxNode, dirty : BOOLEAN,
                   node : {ht'.node}]
      /\ ht'.node = [n \in 1 .. SizeOf(i) |-> ht'.node[n]]
      /\ \A n \in 1 .. SizeOf(i) :
              ht'.node[n] = [blk |-> node[n][c[n]].blk, child |-> node[n][c[n]].child,
                           tag |-> node[n][c[n]].tag, hash |-> node[n][c[n]].hash,
                           dirty |-> FALSE, updated |-> FALSE]
  BY <1>21, <1>22, Zenon
<1>10. ASSUME NEW n \in 1 .. SizeOf(i)
       PROVE  /\ ht'.node[n].blk = node[n][c[n]].blk /\ ht'.node[n].child = node[n][c[n]].child
              /\ ht'.node[n].tag = node[n][c[n]].tag /\ ht'.node[n].hash = node[n][c[n]].hash
              /\ ht'.node[n].dirty = FALSE /\ ht'.node[n].updated = FALSE
  <2>1. PICK r : r = ht'.node[n]
    OBVIOUS
  <2>2. r = [blk |-> node[n][c[n]].blk, child |-> node[n][c[n]].child,
                           tag |-> node[n][c[n]].tag, hash |-> node[n][c[n]].hash,
                           dirty |-> FALSE, updated |-> FALSE]
    BY <1>9, <2>1
  <2> QED BY <2>1, <2>2
<1>11. Cur' = i /\ Size' = SizeOf(i) /\ SizeOf(i)' = SizeOf(i) /\ SizeOf(i) \in 1 .. MaxNode
  BY <1>1, <1>3, <1>6, <1>9, HeadFacts DEF Cur, Size, SizeOf, Tree
<1>12. TreeType'
  <2>1. ASSUME NEW n \in 1 .. SizeOf(i) PROVE IsNode(ht.node[n])'
    <3>1. n \in 1 .. MaxNode /\ c[n] \in 0 .. 1
      BY <1>6, <1>11, Consts
    <3>2. /\ node[n][c[n]].blk \in 0 .. 1 /\ node[n][c[n]].child \in Flags
          /\ node[n][c[n]].tag \in 0 .. changes
      BY <1>1, <3>1, ImageFacts
    <3>3. PICK r : r = ht'.node[n]
      OBVIOUS
    <3>4. r = [blk |-> node[n][c[n]].blk, child |-> node[n][c[n]].child,
                           tag |-> node[n][c[n]].tag, hash |-> node[n][c[n]].hash,
                           dirty |-> FALSE, updated |-> FALSE]
      BY <1>9, <3>3
    <3>5. r \in [blk : 0 .. 1, child : Flags, tag : 0 .. changes, hash : {r.hash},
                    dirty : BOOLEAN, updated : BOOLEAN]
      BY <3>2, <3>4
    <3> QED BY <1>3, <3>3, <3>5 DEF IsNode
  <2> QED BY <1>9, <1>11, <2>1 DEF TreeType
<1>13. Tree(i, c)'
  BY <1>1, <1>3, <1>6, TreeSame
<1>14. Near(c)'
  <2>1. ASSUME NEW n \in 1 .. SizeOf(i) PROVE Block(n, node[n][c[n]])'
    BY <1>3, <1>10 DEF Block
  <2>2. head[i].len \in Nat
    BY <1>1, HeadFacts
  <2>3. \A n \in 1 .. SizeOf(i) : ~(n > SizeOf(i))
    BY <1>11
  <2>4. /\ head'[i].counter = ht'.counter /\ head'[i].len = ht'.len /\ head'[i].max = ht'.max
        /\ SizeOf(i)' = SizeOf(i) /\ Size' = SizeOf(i) /\ Cur' = i
    BY <1>3, <1>9, <1>11
  <2>5. \A n \in 1 .. SizeOf(i) :
          /\ ht'.node[n].child = node'[n][c[n]].child /\ ht'.node[n].hash = node'[n][c[n]].hash
          /\ ~ht'.node[n].dirty /\ ~ht'.node[n].updated
    BY <1>3, <1>10
  <2>6. ht'.len \in Nat /\ SizeOf(i) <= SizeOf(i) /\ ~ht'.dirty
    BY <1>9, <1>11, <2>2
  <2> QED BY <2>1, <2>3, <2>4, <2>5, <2>6 DEF Near
<1>15. Reads'
  <2> SUFFICES ASSUME NEW b \in Blocks, b * BlockSize < ht'.len
               PROVE  b + 1 <= Size' /\ Decrypts(b, ht.node[b + 1])'
    BY DEF Reads
  <2>1. b + 1 <= SizeOf(i) /\ Decrypts(b, node[b + 1][c[b + 1]])
    BY <1>6, <1>9 DEF Tree
  <2>2. b + 1 \in 1 .. SizeOf(i)
    BY <2>1, <1>11, Consts DEF Blocks
  <2> QED BY <1>3, <1>10, <1>11, <2>1, <2>2 DEF Decrypts
<1>16. RootsDiffer'
  BY <1>3, <1>6 DEF RootsDiffer, Commit
<1>17. Commit(i)'
  BY <1>3, <1>6 DEF Commit
<1>18. Idle'
  BY <1>11, <1>13, <1>14 DEF Idle, Tree
<1>19. todo' = << >>
  BY <1>3 DEF Inv, MemInv, Open
<1>20. MemInv'
  BY <1>2, <1>4, <1>8, <1>11, <1>12, <1>15, <1>16, <1>17, <1>18, <1>19 DEF MemInv
<1> QED BY <1>2, <1>4, <1>6, <1>8, <1>20 DEF Inv

----------------------------------------------------------------------------
(* Starting a sync, and what follows it. *)

(* The fields of the tree in memory. *)
LEMMA TreeFacts ==
  ASSUME TreeType
  PROVE  /\ ht.counter \in Nat /\ ht.max \in 0 .. MaxNode /\ ht.len \in 0 .. 2 * MaxNode
         /\ ht.dirty \in BOOLEAN /\ Size \in 1 .. MaxNode /\ Cur \in 0 .. 1
         /\ Nodes(ht) = 1 .. Size
<1>1. /\ ht.counter \in Nat /\ ht.max \in 0 .. MaxNode /\ ht.len \in 0 .. 2 * MaxNode
      /\ ht.dirty \in BOOLEAN
  BY DEF TreeType
<1>2. Size \in 1 .. MaxNode /\ Cur \in 0 .. 1
  BY <1>1, Consts DEF Size, Max2, Cur
<1>3. Nodes(ht) = 1 .. Size
  <2>1. DOMAIN [n \in 1 .. Size |-> ht.node[n]] = 1 .. Size
    OBVIOUS
  <2> QED BY <2>1, Zenon DEF TreeType, Nodes
<1> QED BY <1>1, <1>2, <1>3

(* The fields of a node in memory. *)
LEMMA NodeFacts ==
  ASSUME TreeType, NEW n \in 1 .. Size
  PROVE  /\ ht.node[n].blk \in 0 .. 1 /\ ht.node[n].child \in Flags
         /\ ht.node[n].tag \in 0 .. changes /\ ht.node[n].dirty \in BOOLEAN
         /\ ht.node[n].updated \in BOOLEAN
         /\ ht.node[n].child[0] \in 0 .. 1 /\ ht.node[n].child[1] \in 0 .. 1
<1>1. IsNode(ht.node[n])
  BY DEF TreeType
<1>2. /\ ht.node[n].blk \in 0 .. 1 /\ ht.node[n].child \in Flags
      /\ ht.node[n].tag \in 0 .. changes /\ ht.node[n].dirty \in BOOLEAN
      /\ ht.node[n].updated \in BOOLEAN
  BY <1>1 DEF IsNode
<1>3. ht.node[n].child[0] \in 0 .. 1 /\ ht.node[n].child[1] \in 0 .. 1
  BY <1>2 DEF Flags
<1> QED BY <1>2, <1>3

(* A sync starts with all nodes before it, each after its children. *)
LEMMA OrderStarts ==
  ASSUME ht.max \in 0 .. MaxNode, todo = PostOrder(ht.max)
  PROVE  Order(todo) /\ Pending = 1 .. Size /\ todo # << >>
<1>1. Size = Sized(ht.max)
  BY DEF Size, Sized
<1>2. Below(Size, 1, todo) /\ Elements(todo) = 1 .. Size
  BY <1>1, Ordered
<1>3. todo # << >>
  <2>1. 1 \in 1 .. Size
    BY <1>1, Consts DEF Sized, Max2
  <2>2. Elements(<< >>) = {}
    BY DEF Elements
  <2> QED BY <1>2, <2>1, <2>2
<1> QED BY <1>2, <1>3 DEF Below, Order, Pending

(* A tree that differs from its base is written as a whole. *)
LEMMA SyncStarts ==
  ASSUME DiskType, TreeType, NEW c, Tree(Cur, c), Near(c), ht.dirty, todo = PostOrder(ht.max)
  PROVE  Syncing(c)
<1>1. Order(todo) /\ Pending = 1 .. Size /\ todo # << >>
  BY OrderStarts, TreeFacts
<1>2. Size \in 1 .. MaxNode /\ MaxNode \in Nat /\ Cur \in 0 .. 1 /\ SizeOf(Cur) \in 1 .. MaxNode
  BY TreeFacts, HeadFacts, Consts
<1>3. ht.len \in Nat /\ head[Cur].len \in Nat /\ SizeOf(Cur) <= Size
  BY <1>2, TreeFacts, HeadFacts DEF Near
<1>4. ASSUME NEW n \in 1 .. Size PROVE Unsynced(c, n)
  <2>1. ht.node[n].updated => ht.node[n].dirty
    BY DEF Near
  <2>2. n <= SizeOf(Cur) =>
          /\ n \in 1 .. SizeOf(Cur)
          /\ ht.node[n].child = node[n][c[n]].child /\ ht.node[n].hash = node[n][c[n]].hash
          /\ Block(n, node[n][c[n]])
    BY <1>2 DEF Near
  <2>3. n > SizeOf(Cur) => ht.node[n].updated
    BY DEF Near
  <2>4. Differs(c, n) => ht.node[n].dirty
    <3>1. CASE n > SizeOf(Cur)
      BY <2>1, <2>3, <3>1
    <3>2. CASE n <= SizeOf(Cur) /\ ht.node[n].tag # node[n][c[n]].tag
      BY <2>1, <2>2, <3>2 DEF Block
    <3>3. CASE n = 1 /\ ht.len # head[Cur].len
      BY <1>3, <3>3 DEF Near
    <3> QED BY <1>2, <2>2, <3>1, <3>2, <3>3 DEF Differs
  <2>5. ~ht.node[n].dirty => n <= SizeOf(Cur)
    BY <1>2, <2>1, <2>3
  <2>6. \A m \in Kids(n) : m <= SizeOf(Cur) => m <= Size
    BY <1>2, <1>3 DEF Kids
  <2> QED BY <1>1, <2>1, <2>2, <2>4, <2>5, <2>6 DEF Unsynced
<1>5. \E n \in 1 .. Size : Differs(c, n)
  <2>1. PICK n \in 1 .. Size : ht.node[n].updated
    BY DEF Near
  <2>2. CASE n <= SizeOf(Cur)
    <3>1. n \in 1 .. SizeOf(Cur) /\ n \in 1 .. MaxNode /\ c[n] \in 0 .. 1
      BY <1>2, <2>2 DEF Tree
    <3>2. ht.node[n].tag > node[n][c[n]].tag
      BY <2>1, <3>1 DEF Near, Block
    <3>3. ht.node[n].tag \in Int /\ node[n][c[n]].tag \in Int
      BY <3>1, NodeFacts, ImageFacts DEF DiskType
    <3> QED BY <3>2, <3>3 DEF Differs
  <2>3. CASE ~(n <= SizeOf(Cur))
    <3>1. n > SizeOf(Cur)
      BY <1>2, <2>3
    <3> QED BY <3>1 DEF Differs
  <2> QED BY <2>2, <2>3
<1>6. head[Cur].counter = ht.counter
  BY DEF Near
<1> QED BY <1>1, <1>4, <1>5, <1>6 DEF Syncing

(* The base of the tree in memory, by its number. *)
LEMMA CurIs ==
  ASSUME NEW i, NEW c
  PROVE  i = Cur => (Tree(Cur, c) <=> Tree(i, c)) /\ (Commit(Cur) <=> Commit(i))
OBVIOUS

(* The same after a step. *)
LEMMA CurTree ==
  ASSUME NEW i, NEW c, i = Cur'
  PROVE  /\ Tree(Cur, c)' <=> Tree(i, c)'
         /\ Commit(Cur)' <=> Commit(i)'
<1>1. (i = Cur => (Tree(Cur, c) <=> Tree(i, c)) /\ (Commit(Cur) <=> Commit(i)))'
  BY CurIs, PTL
<1> QED BY <1>1

(* What holds of the tree in memory, when neither it nor the file changes. *)
LEMMA MemorySame ==
  ASSUME UNCHANGED <<head, node, blk, ht, changes, mode, trusted>>
  PROVE  /\ Cur' = Cur /\ Size' = Size /\ TreeType' = TreeType /\ Reads' = Reads
         /\ RootsDiffer' = RootsDiffer /\ Exists' = Exists
         /\ \A i : SizeOf(i)' = SizeOf(i) /\ Commit(i)' = Commit(i)
         /\ \A c : Near(c)' = Near(c)
<1>1. /\ Cur' = Cur /\ Size' = Size /\ TreeType' = TreeType /\ Reads' = Reads
      /\ RootsDiffer' = RootsDiffer /\ Exists' = Exists
  BY DEF Cur, Size, TreeType, IsNode, Reads, Decrypts, RootsDiffer, Exists
<1>2. \A i : SizeOf(i)' = SizeOf(i) /\ Commit(i)' = Commit(i)
  BY DEF SizeOf, Commit
<1>3. \A c : Near(c)' = Near(c)
  BY <1>1 DEF Near, SizeOf, Block
<1> QED BY <1>1, <1>2, <1>3

(* Starting a sync keeps the invariant. *)
LEMMA SyncToStorageStep ==
  ASSUME Inv, SyncToStorage
  PROVE  Inv'
<1>1. UNCHANGED <<mode, file, head, node, blk, trusted, ht, changes>> /\ pc = "idle"
  BY DEF SyncToStorage, disk
<1>2. DiskInv' /\ Exists' = Exists /\ DiskType /\ DiskType' /\ mode \in {"hash", "counter"}
  BY <1>1, DiskSame DEF Inv, DiskInv, disk, DiskType
<1>3. /\ TreeType /\ todo = << >> /\ Reads /\ RootsDiffer
      /\ (mode = "counter" => Exists) /\ (Exists => Commit(Cur))
  BY <1>1 DEF Inv, MemInv
<1>4. PICK c \in [1 .. SizeOf(Cur) -> 0 .. 1] : Tree(Cur, c) /\ Near(c)
  BY <1>1 DEF Inv, MemInv, Idle
<1>5. Cur \in 0 .. 1 /\ Tree(Cur, c)'
  <2>1. PICK i : i = Cur
    OBVIOUS
  <2>2. Tree(i, c)' /\ i = Cur'
    BY <1>1, <1>2, <1>4, <2>1, TreeSame DEF Cur
  <2> QED BY <1>3, <2>1, <2>2, TreeFacts, CurTree
<1>6. /\ Cur' = Cur /\ TreeType' /\ Reads' /\ RootsDiffer'
      /\ SizeOf(Cur)' = SizeOf(Cur) /\ (Commit(Cur) => Commit(Cur)') /\ Near(c)'
  BY <1>1, <1>3, <1>4, MemorySame
<1>7. CASE ht.dirty
  <2>1. pc' = "sync" /\ todo' = PostOrder(ht'.max)
    BY <1>1, <1>7 DEF SyncToStorage, SyncOf
  <2>2. (DiskType /\ TreeType /\ Tree(Cur, c) /\ Near(c) /\ ht.dirty /\ todo = PostOrder(ht.max)
           => Syncing(c))'
    BY SyncStarts, PTL
  <2>3. Syncing(c)'
    BY <1>1, <1>2, <1>5, <1>6, <1>7, <2>1, <2>2
  <2>4. InSync'
    BY <1>5, <1>6, <2>3 DEF InSync, Tree
  <2> QED BY <1>2, <1>3, <1>1, <1>6, <2>1, <2>4 DEF Inv, MemInv
<1>8. CASE ~ht.dirty
  <2>1. pc' = AfterSync /\ todo' = << >>
    BY <1>3, <1>8 DEF SyncToStorage
  <2>2. Idle'
    BY <1>5, <1>6 DEF Idle, Tree
  <2>3. CASE mode = "hash"
    <3>1. pc' = "anchor"
      BY <2>1, <2>3 DEF AfterSync
    <3> QED BY <1>1, <1>2, <1>3, <1>6, <1>8, <2>1, <2>2, <2>3, <3>1 DEF Inv, MemInv
  <2>4. CASE mode = "counter"
    <3>1. pc' = "idle"
      BY <2>1, <2>4 DEF AfterSync
    <3> QED BY <1>1, <1>2, <1>3, <1>6, <1>8, <2>1, <2>2, <2>4, <3>1 DEF Inv, MemInv
  <2> QED BY <1>2, <2>3, <2>4
<1> QED BY <1>7, <1>8

(* Committing the root hash to the directory file keeps the invariant. *)
LEMMA AnchorStep ==
  ASSUME Inv, Anchor
  PROVE  /\ Inv'
         /\ \E c : Tree(Cur, c) /\ Near(c) /\ ~ht.dirty /\ Tree(Cur, c)' /\ Commit(Cur)'
<1>1. UNCHANGED <<mode, file, head, node, blk, ht, changes, todo>> /\ pc = "anchor" /\ pc' = "idle"
      /\ trusted' = ht.node[1].hash
  BY DEF Anchor, disk
<1>2. DiskType /\ mode = "hash" /\ ~ht.dirty
  BY <1>1 DEF Inv, DiskInv, MemInv
<1>3. /\ TreeType /\ todo = << >> /\ Reads /\ RootsDiffer
  BY <1>1 DEF Inv, MemInv
<1>4. PICK c \in [1 .. SizeOf(Cur) -> 0 .. 1] : Tree(Cur, c) /\ Near(c)
  BY <1>1 DEF Inv, MemInv, Idle
<1>5. Cur \in 0 .. 1 /\ Tree(Cur, c)' /\ SizeOf(Cur) \in 1 .. MaxNode
  <2>1. PICK i : i = Cur
    OBVIOUS
  <2>2. Tree(i, c)' /\ i = Cur'
    BY <1>1, <1>2, <1>4, <2>1, TreeSame DEF Cur
  <2> QED BY <1>2, <1>3, <2>1, <2>2, TreeFacts, HeadFacts, CurTree
<1>6. /\ Cur' = Cur /\ TreeType' /\ Reads' /\ RootsDiffer'
      /\ \A i : SizeOf(i)' = SizeOf(i)
  BY <1>1, <1>3 DEF Cur, TreeType, IsNode, Size, Reads, Decrypts, RootsDiffer, SizeOf
<1>7. Near(c)'
  BY <1>1, <1>4, <1>6 DEF Near, Block, Size
<1>8. DiskType'
  BY <1>1, <1>2 DEF DiskType, IsHead, IsImage
<1>9. Commit(Cur)'
  <2>1. ht.node[1].hash = node[1][Cur].hash
    BY <1>4, <1>5, Consts DEF Near, Tree
  <2>2. node[1][1 - Cur].hash # node[1][Cur].hash
    BY <1>2, <1>3, <1>5 DEF RootsDiffer
  <2> QED BY <1>1, <1>2, <1>5, <1>6, <2>1, <2>2 DEF Commit
<1>10. DiskInv'
  BY <1>1, <1>2, <1>5, <1>6, <1>8, <1>9 DEF DiskInv, Tree
<1>11. Idle'
  BY <1>5, <1>6, <1>7 DEF Idle, Tree
<1>12. MemInv'
  BY <1>1, <1>2, <1>3, <1>6, <1>9, <1>11 DEF MemInv
<1> QED BY <1>2, <1>4, <1>5, <1>9, <1>10, <1>12 DEF Inv

(* The dummy head at the end of a creation keeps the invariant. *)
LEMMA WriteDummyHeadStep ==
  ASSUME Inv, WriteDummyHead
  PROVE  Inv' /\ head' = [head EXCEPT ![0] = ZeroHead] /\ Cur = 1
<1>1. UNCHANGED <<mode, file, node, blk, trusted, ht, todo, changes>> /\ pc = "dummy" /\ pc' = "idle"
      /\ head' = [head EXCEPT ![0] = ZeroHead]
  BY DEF WriteDummyHead
<1>2. /\ DiskType /\ mode \in {"hash", "counter"} /\ Cur = 1 /\ (mode = "hash" => ~Exists)
      /\ (mode = "counter" => Exists) /\ (Exists => Commit(Cur))
  BY <1>1 DEF Inv, DiskInv, MemInv, DiskType
<1>3. /\ TreeType /\ todo = << >> /\ Reads /\ RootsDiffer
  BY <1>1 DEF Inv, MemInv
<1>4. PICK c \in [1 .. SizeOf(1) -> 0 .. 1] : Tree(1, c) /\ Near(c)
  BY <1>1, <1>2 DEF Inv, MemInv, Idle
<1>5. head'[0] = ZeroHead /\ head'[1] = head[1]
  BY <1>1, <1>2 DEF DiskType
<1>6. DiskType'
  <2>1. \A v \in 0 .. 1 : IsHead(head[v])'
    <3>1. IsHead(ZeroHead)
      BY Consts DEF IsHead, ZeroHead
    <3>2. IsHead(head[1])
      BY <1>2 DEF DiskType
    <3> QED BY <1>5, <3>1, <3>2 DEF IsHead
  <2>2. head' = [v \in 0 .. 1 |-> head'[v]]
    BY <1>1, <1>2 DEF DiskType
  <2> QED BY <1>1, <1>2, <2>1, <2>2 DEF DiskType, IsImage
<1>7. Tree(1, c)'
  BY <1>1, <1>2, <1>4, <1>5, TreeKept
<1>8. SizeOf(1)' = SizeOf(1) /\ Cur' = 1 /\ Size' = Size
  BY <1>1, <1>2, <1>5 DEF SizeOf, Cur, Size
<1>9. Near(c)'
  BY <1>1, <1>2, <1>4, <1>5, <1>8 DEF Near, Block
<1>10. TreeType' /\ Reads' /\ RootsDiffer'
  BY <1>1, <1>3, <1>8 DEF TreeType, IsNode, Reads, Decrypts, RootsDiffer
<1>11. Exists' = Exists
  BY <1>1, <1>5 DEF Exists
<1>12. Exists => Commit(1)'
  <2>1. head[1].counter \in Nat /\ head[1].counter % 2 = 1
    BY <1>2, <1>4, HeadFacts DEF Tree
  <2>2. head[1].counter > 0
    BY <2>1
  <2>3. 0 % 2 = 0
    OBVIOUS
  <2> QED BY <1>1, <1>2, <1>5, <2>1, <2>2, <2>3, ZeroFacts DEF Commit
<1>13. DiskInv'
  BY <1>1, <1>2, <1>4, <1>6, <1>7, <1>8, <1>11, <1>12 DEF DiskInv, Inv
<1>14. Idle'
  BY <1>4, <1>7, <1>8, <1>9 DEF Idle
<1>15. MemInv'
  BY <1>1, <1>2, <1>3, <1>8, <1>10, <1>11, <1>12, <1>14 DEF MemInv
<1> QED BY <1>1, <1>2, <1>13, <1>15 DEF Inv

----------------------------------------------------------------------------
(* Writing. *)

(* t is the tree in memory after its blocks lo .. hi were written. *)
Rewritten(t, lo, hi, tag, len) ==
  /\ t.counter = ht.counter /\ t.len = len /\ t.dirty = TRUE
  /\ Max2(1, t.max) = Max2(Size, hi + 1)
  /\ t \in [counter : Nat, max : 0 .. MaxNode, len : 0 .. 2 * MaxNode, dirty : BOOLEAN,
            node : {t.node}]
  /\ t.node = [n \in 1 .. Max2(Size, hi + 1) |-> t.node[n]]
  /\ \A n \in 1 .. Max2(Size, hi + 1) :
       /\ t.node[n] \in [blk : 0 .. 1, child : Flags, tag : 0 .. tag, hash : {t.node[n].hash},
                         dirty : BOOLEAN, updated : BOOLEAN]
       /\ n - 1 \in lo .. hi => t.node[n].updated /\ t.node[n].dirty /\ t.node[n].tag = tag
       /\ n - 1 \notin lo .. hi =>
            /\ n <= Size /\ t.node[n].blk = ht.node[n].blk /\ t.node[n].tag = ht.node[n].tag
            /\ t.node[n].updated = ht.node[n].updated
       /\ n <= Size =>
            /\ t.node[n].child = ht.node[n].child /\ t.node[n].hash = ht.node[n].hash
            /\ ht.node[n].dirty => t.node[n].dirty
       /\ n <= Size /\ n - 1 \in lo .. hi =>
            t.node[n].blk = IF ht.node[n].updated THEN ht.node[n].blk ELSE 1 - ht.node[n].blk

(* The last of consecutive blocks. *)
LEMMA LastOf ==
  ASSUME NEW lo \in Nat, NEW hi \in Nat, lo <= hi
  PROVE  (CHOOSE b \in lo .. hi : \A d \in lo .. hi : d <= b) = hi
<1>1. hi \in lo .. hi /\ \A d \in lo .. hi : d <= hi
  OBVIOUS
<1>2. \A b \in lo .. hi : (\A d \in lo .. hi : d <= b) => b = hi
  BY <1>1
<1> QED BY <1>1, <1>2

(* The fields of a node that get_node makes. *)
LEMMA NewNodeFacts ==
  NewNode \in [blk : 0 .. 1, child : Flags, tag : {0}, hash : {<< >>}, dirty : BOOLEAN,
               updated : BOOLEAN]
  /\ NewNode.blk = 0 /\ NewNode.updated = FALSE
BY DEF NewNode, Flags

(* TreeWritten, with its last block as a parameter. *)
Upto(t, bs, tag, last) ==
  LET ids == Nodes(t) \cup 1 .. last + 1
      old(n) == IF n \in Nodes(t) THEN t.node[n] ELSE NewNode
  IN  [t EXCEPT
         !.dirty = TRUE,
         !.max = IF last + 1 \in Nodes(t) THEN @ ELSE Max2(@, last + 1),
         !.node = [n \in ids |->
             IF n - 1 \in bs
             THEN [old(n) EXCEPT
                     !.blk = IF old(n).updated THEN @ ELSE 1 - @,
                     !.tag = tag, !.updated = TRUE, !.dirty = TRUE]
             ELSE old(n)]]

(* TreeWritten, with its last block as a parameter. *)
LEMMA UptoIs ==
  ASSUME NEW t, NEW bs, NEW tag
  PROVE  TreeWritten(t, bs, tag) = Upto(t, bs, tag, CHOOSE b \in bs : \A c \in bs : c <= b)
BY Zenon DEF TreeWritten, Upto

(* What tee_fs_htree_write_block makes of the tree. *)
LEMMA TreeRewritten ==
  ASSUME TreeType, changes \in Nat, NEW lo \in Nat, NEW hi \in Nat, lo <= hi, hi < MaxNode,
         lo <= Size
  PROVE  Rewritten(TreeWritten(ht, lo .. hi, changes + 1), lo, hi, changes + 1, ht.len)
<1>1. /\ ht.counter \in Nat /\ ht.max \in 0 .. MaxNode /\ ht.len \in 0 .. 2 * MaxNode
      /\ Size \in 1 .. MaxNode /\ Nodes(ht) = 1 .. Size /\ MaxNode \in Nat
  BY TreeFacts, Consts
<1> DEFINE N == Max2(Size, hi + 1)
           Old(n) == IF n \in Nodes(ht) THEN ht.node[n] ELSE NewNode
           New(n) == IF n - 1 \in lo .. hi
                     THEN [Old(n) EXCEPT !.blk = IF Old(n).updated THEN @ ELSE 1 - @,
                             !.tag = changes + 1, !.updated = TRUE, !.dirty = TRUE]
                     ELSE Old(n)
           Max == IF hi + 1 \in Nodes(ht) THEN ht.max ELSE Max2(ht.max, hi + 1)
<1>2. PICK t : t = TreeWritten(ht, lo .. hi, changes + 1)
  OBVIOUS
<1>3. Nodes(ht) \cup 1 .. hi + 1 = 1 .. N
  BY <1>1 DEF Max2
<1>4. t = [ht EXCEPT !.dirty = TRUE, !.max = Max, !.node = [n \in 1 .. N |-> New(n)]]
  <2>1. (CHOOSE b \in lo .. hi : \A d \in lo .. hi : d <= b) = hi
    BY LastOf
  <2>2. t = [ht EXCEPT !.dirty = TRUE, !.max = IF hi + 1 \in Nodes(ht) THEN @ ELSE Max2(@, hi + 1),
                       !.node = [n \in Nodes(ht) \cup 1 .. hi + 1 |-> New(n)]]
    <3>1. t = Upto(ht, lo .. hi, changes + 1, hi)
      BY <1>2, <2>1, UptoIs
    <3> QED BY <3>1, Zenon DEF Upto
  <2> QED BY <1>3, <2>2, Zenon
<1>5. N \in 1 .. MaxNode /\ Max \in 0 .. MaxNode /\ Max2(1, Max) = N
  BY <1>1 DEF Max2, Size
<1> HIDE DEF N, Max
<1>6. PICK g : g = [n \in 1 .. N |-> New(n)]
  OBVIOUS
<1>7. /\ t.counter = ht.counter /\ t.len = ht.len /\ t.dirty = TRUE /\ t.max = Max /\ t.node = g
      /\ t \in [counter : Nat, max : 0 .. MaxNode, len : 0 .. 2 * MaxNode, dirty : BOOLEAN,
            node : {t.node}]
  BY <1>1, <1>4, <1>5, <1>6 DEF TreeType
<1>8. /\ g = [n \in 1 .. N |-> g[n]]
      /\ \A n \in 1 .. N : g[n] = New(n)
  BY <1>6
<1>9. ASSUME NEW n \in 1 .. N
      PROVE  /\ g[n] \in [blk : 0 .. 1, child : Flags, tag : 0 .. changes + 1, hash : {g[n].hash},
                         dirty : BOOLEAN, updated : BOOLEAN]
             /\ n - 1 \in lo .. hi => g[n].updated /\ g[n].dirty /\ g[n].tag = changes + 1
             /\ n - 1 \notin lo .. hi => n <= Size /\ g[n] = ht.node[n]
             /\ n <= Size =>
                  /\ g[n].child = ht.node[n].child /\ g[n].hash = ht.node[n].hash
                  /\ ht.node[n].dirty => g[n].dirty
             /\ n <= Size /\ n - 1 \in lo .. hi =>
                  g[n].blk = IF ht.node[n].updated THEN ht.node[n].blk ELSE 1 - ht.node[n].blk
  <2>1. PICK r : r = Old(n)
    OBVIOUS
  <2>2. /\ r \in [blk : 0 .. 1, child : Flags, tag : 0 .. changes, hash : {r.hash},
                  dirty : BOOLEAN, updated : BOOLEAN]
        /\ n <= Size => r = ht.node[n]
    <3>1. CASE n \in 1 .. Size
      <4>1. r = ht.node[n]
        BY <1>1, <2>1, <3>1
      <4>2. IsNode(ht.node[n])
        BY <3>1 DEF TreeType
      <4> QED BY <4>1, <4>2 DEF IsNode
    <3>2. CASE n \notin 1 .. Size
      <4>1. r = NewNode /\ ~(n <= Size)
        BY <1>1, <1>5, <2>1, <3>2
      <4>2. r \in [blk : 0 .. 1, child : Flags, tag : 0 .. changes, hash : {r.hash},
                  dirty : BOOLEAN, updated : BOOLEAN]
        BY <4>1 DEF NewNode, Flags
      <4> QED BY <4>1, <4>2
    <3> QED BY <3>1, <3>2
  <2>3. g[n] = IF n - 1 \in lo .. hi
               THEN [r EXCEPT !.blk = IF r.updated THEN @ ELSE 1 - @,
                              !.tag = changes + 1, !.updated = TRUE, !.dirty = TRUE]
               ELSE r
    BY <1>8, <2>1, Zenon
  <2>4. CASE n - 1 \in lo .. hi
    <3>1. PICK s : s = g[n]
      OBVIOUS
    <3>2. s = [r EXCEPT !.blk = IF r.updated THEN @ ELSE 1 - @,
                              !.tag = changes + 1, !.updated = TRUE, !.dirty = TRUE]
      BY <2>3, <2>4, <3>1
    <3>3. /\ s.blk = (IF r.updated THEN r.blk ELSE 1 - r.blk) /\ s.child = r.child
          /\ s.tag = changes + 1 /\ s.hash = r.hash /\ s.dirty = TRUE /\ s.updated = TRUE
      BY <2>2, <3>2
    <3>4. PICK x : x = IF r.updated THEN r.blk ELSE 1 - r.blk
      OBVIOUS
    <3>5. x \in 0 .. 1
      BY <2>2, <3>4
    <3>6. s = [r EXCEPT !.blk = x, !.tag = changes + 1, !.updated = TRUE, !.dirty = TRUE]
      BY <3>2, <3>4
    <3>7. s \in [blk : 0 .. 1, child : Flags, tag : 0 .. changes + 1, hash : {s.hash},
                         dirty : BOOLEAN, updated : BOOLEAN]
      <4>1. s = [blk |-> x, child |-> r.child, tag |-> changes + 1, hash |-> r.hash,
                 dirty |-> TRUE, updated |-> TRUE]
        BY <2>2, <3>6
      <4>2. r.child \in Flags /\ changes + 1 \in 0 .. changes + 1
        BY <2>2
      <4> QED BY <3>3, <3>5, <4>1, <4>2
    <3> QED BY <2>2, <2>4, <3>1, <3>3, <3>7
  <2>5. CASE n - 1 \notin lo .. hi
    <3>1. g[n] = r
      BY <2>3, <2>5
    <3>2. n <= Size
      BY <1>1, <1>5, <2>5 DEF N, Max2
    <3>3. r \in [blk : 0 .. 1, child : Flags, tag : 0 .. changes + 1, hash : {r.hash},
                  dirty : BOOLEAN, updated : BOOLEAN]
      BY <2>2
    <3> QED BY <2>2, <2>5, <3>1, <3>2, <3>3
  <2> QED BY <2>4, <2>5
<1>10. Rewritten(t, lo, hi, changes + 1, ht.len)
  <2>1. t.node = [n \in 1 .. N |-> t.node[n]] /\ Max2(1, t.max) = N
    BY <1>5, <1>7, <1>8
  <2>2. \A n \in 1 .. N :
       /\ t.node[n] \in [blk : 0 .. 1, child : Flags, tag : 0 .. changes + 1, hash : {t.node[n].hash},
                         dirty : BOOLEAN, updated : BOOLEAN]
       /\ n - 1 \in lo .. hi => t.node[n].updated /\ t.node[n].dirty /\ t.node[n].tag = changes + 1
       /\ n - 1 \notin lo .. hi =>
            /\ n <= Size /\ t.node[n].blk = ht.node[n].blk /\ t.node[n].tag = ht.node[n].tag
            /\ t.node[n].updated = ht.node[n].updated
       /\ n <= Size =>
            /\ t.node[n].child = ht.node[n].child /\ t.node[n].hash = ht.node[n].hash
            /\ ht.node[n].dirty => t.node[n].dirty
       /\ n <= Size /\ n - 1 \in lo .. hi =>
            t.node[n].blk = IF ht.node[n].updated THEN ht.node[n].blk ELSE 1 - ht.node[n].blk
    <3> HIDE DEF New, Old
    <3> QED BY <1>7, <1>9
  <2> QED BY <1>7, <2>1, <2>2, Zenon DEF Rewritten, N
<1> QED BY <1>2, <1>10

(* The tree that a write past the end leaves. *)
WithLen(t, to) == [t EXCEPT !.len = to, !.node[1].dirty = TRUE]

(* u is t with the length to. *)
GrownTo(u, t, lo, hi, tag, to) ==
  /\ Rewritten(u, lo, hi, tag, to) /\ u.node[1].dirty
  /\ \A n \in 1 .. Max2(Size, hi + 1) : u.node[n].blk = t.node[n].blk

(* What a new length makes of the tree. *)
LEMMA Lengthened ==
  ASSUME TreeType, NEW t, NEW lo \in Nat, NEW hi \in Nat, NEW tag \in Nat, NEW len,
         Rewritten(t, lo, hi, tag, len), NEW to \in 0 .. 2 * MaxNode
  PROVE  GrownTo(WithLen(t, to), t, lo, hi, tag, to)
<1>0. PICK u : u = WithLen(t, to)
  OBVIOUS
<1>1. u = [t EXCEPT !.len = to, !.node[1].dirty = TRUE]
  BY <1>0 DEF WithLen
<1>2. PICK N : N = Max2(Size, hi + 1)
  OBVIOUS
<1>3. N \in Nat /\ 1 \in 1 .. N
  BY <1>2, TreeFacts, Consts DEF Max2
<1>4. t \in [counter : Nat, max : 0 .. MaxNode, len : 0 .. 2 * MaxNode, dirty : BOOLEAN,
            node : {t.node}]
  BY DEF Rewritten
<1>5. /\ u.counter = t.counter /\ u.max = t.max /\ u.len = to /\ u.dirty = t.dirty
      /\ u.node = [t.node EXCEPT ![1].dirty = TRUE]
      /\ u \in [counter : Nat, max : 0 .. MaxNode, len : 0 .. 2 * MaxNode, dirty : BOOLEAN,
            node : {u.node}]
  BY <1>1, <1>4
<1>6. t.node = [n \in 1 .. N |-> t.node[n]]
  BY <1>2 DEF Rewritten
<1>7. \A n \in 1 .. N : u.node[n] = IF n = 1 THEN [t.node[1] EXCEPT !.dirty = TRUE] ELSE t.node[n]
  BY <1>3, <1>5, <1>6
<1>8. u.node = [n \in 1 .. N |-> u.node[n]]
  BY <1>5, <1>6
<1>9. ASSUME NEW n \in 1 .. N
      PROVE  /\ u.node[n].blk = t.node[n].blk /\ u.node[n].child = t.node[n].child
             /\ u.node[n].tag = t.node[n].tag /\ u.node[n].hash = t.node[n].hash
             /\ u.node[n].updated = t.node[n].updated
             /\ (t.node[n].dirty => u.node[n].dirty)
             /\ (n = 1 => u.node[n].dirty)
             /\ u.node[n] \in [blk : 0 .. 1, child : Flags, tag : 0 .. tag, hash : {u.node[n].hash},
                         dirty : BOOLEAN, updated : BOOLEAN]
  <2>1. PICK r : r = t.node[n]
    OBVIOUS
  <2>2. r \in [blk : 0 .. 1, child : Flags, tag : 0 .. tag, hash : {r.hash},
                         dirty : BOOLEAN, updated : BOOLEAN]
    BY <1>2, <2>1 DEF Rewritten
  <2>3. PICK s : s = u.node[n]
    OBVIOUS
  <2>4. s = IF n = 1 THEN [r EXCEPT !.dirty = TRUE] ELSE r
    BY <1>7, <2>1, <2>3
  <2>5. /\ s.blk = r.blk /\ s.child = r.child /\ s.tag = r.tag /\ s.hash = r.hash
        /\ s.updated = r.updated /\ (r.dirty => s.dirty) /\ (n = 1 => s.dirty)
        /\ s \in [blk : 0 .. 1, child : Flags, tag : 0 .. tag, hash : {s.hash},
                         dirty : BOOLEAN, updated : BOOLEAN]
    BY <2>2, <2>4
  <2> QED BY <2>1, <2>3, <2>5
<1>10. Rewritten(u, lo, hi, tag, to)
  <2>1. u.counter = ht.counter /\ u.dirty = TRUE /\ Max2(1, u.max) = N
    BY <1>2, <1>5 DEF Rewritten
  <2>2. ASSUME NEW n \in 1 .. N
        PROVE
       /\ n - 1 \in lo .. hi => u.node[n].updated /\ u.node[n].dirty /\ u.node[n].tag = tag
       /\ n - 1 \notin lo .. hi =>
            /\ n <= Size /\ u.node[n].blk = ht.node[n].blk /\ u.node[n].tag = ht.node[n].tag
            /\ u.node[n].updated = ht.node[n].updated
       /\ n <= Size =>
            /\ u.node[n].child = ht.node[n].child /\ u.node[n].hash = ht.node[n].hash
            /\ ht.node[n].dirty => u.node[n].dirty
       /\ n <= Size /\ n - 1 \in lo .. hi =>
            u.node[n].blk = IF ht.node[n].updated THEN ht.node[n].blk ELSE 1 - ht.node[n].blk
    BY <1>2, <1>9 DEF Rewritten
  <2> QED BY <1>2, <1>5, <1>8, <1>9, <2>1, <2>2, Zenon DEF Rewritten
<1> QED BY <1>0, <1>2, <1>3, <1>9, <1>10 DEF GrownTo

(* A block that the file uses has a node and decrypts. *)
LEMMA InUse ==
  ASSUME TreeType, Reads, NEW b \in Blocks, b < CeilBlocks(ht.len)
  PROVE  b + 1 \in 1 .. Size /\ Decrypts(b, ht.node[b + 1]) /\ b * BlockSize < ht.len
<1>1. ht.len \in Nat /\ b \in Nat /\ Size \in Nat
  BY TreeFacts, Consts DEF Blocks
<1>2. b * BlockSize < ht.len
  BY <1>1, Consts DEF CeilBlocks, BlockSize
<1> QED BY <1>1, <1>2 DEF Reads

(* The fields of an image of a block. *)
LEMMA BlockFacts ==
  ASSUME DiskType, NEW b \in Blocks, NEW v \in 0 .. 1
  PROVE  /\ blk[b][v].tag \in 0 .. changes
         /\ \A u \in 0 .. BlockSize - 1 : blk[b][v].data[u] \in 0 .. changes
<1>1. PICK r : r = blk[b][v]
  OBVIOUS
<1>2. r \in [tag : 0 .. changes, data : [0 .. BlockSize - 1 -> 0 .. changes]]
  BY <1>1 DEF DiskType
<1>3. r.tag \in 0 .. changes /\ r.data \in [0 .. BlockSize - 1 -> 0 .. changes]
  BY <1>2
<1> QED BY <1>1, <1>3

(* The content that a block gets is a content. *)
LEMMA NewDataType ==
  ASSUME DiskType, TreeType, Reads, NEW b \in Blocks, NEW from, NEW to, NEW w \in 0 .. changes + 1
  PROVE  NewData(b, from, to, w) \in [0 .. BlockSize - 1 -> 0 .. changes + 1]
<1>1. changes \in Nat /\ 0 \in 0 .. changes + 1
  BY DEF DiskType
<1>2. ASSUME b < CeilBlocks(ht.len), NEW u \in 0 .. BlockSize - 1
      PROVE  BlockData(ht, b)[u] \in 0 .. changes + 1
  <2>1. b + 1 \in 1 .. Size
    BY <1>2, InUse
  <2>2. ht.node[b + 1].blk \in 0 .. 1
    BY <2>1, NodeFacts
  <2>3. blk[b][ht.node[b + 1].blk].data[u] \in 0 .. changes
    BY <2>2, BlockFacts
  <2> QED BY <1>1, <2>3 DEF BlockData
<1> QED BY <1>1, <1>2 DEF NewData

(* Each node of f names the version its block was written to. *)
Placed(f, lo, hi) ==
  \A n \in 1 .. Max2(Size, hi + 1) :
     f[n].blk = TreeWritten(ht, lo .. hi, changes + 1).node[n].blk

(* Which images of blocks a write changes, and to what. *)
LEMMA BlocksWritten ==
  ASSUME DiskType, TreeType, Reads, NEW lo \in Nat, NEW hi \in Nat, lo <= hi, hi < MaxNode,
         lo <= Size, NEW from, NEW to, NEW w \in 0 .. changes + 1,
         WriteBlocks(lo .. hi, from, to, w), NEW f, Placed(f, lo, hi)
  PROVE  /\ changes' = changes + 1
         /\ blk' \in [Blocks -> [0 .. 1 -> [tag : 0 .. changes + 1,
                                            data : [0 .. BlockSize - 1 -> 0 .. changes + 1]]]]
         /\ \A b \in Blocks : b \notin lo .. hi => blk'[b] = blk[b]
         /\ \A b \in lo .. hi :
              /\ blk'[b][f[b + 1].blk] = [tag |-> changes + 1, data |-> NewData(b, from, to, w)]
              /\ blk'[b][1 - f[b + 1].blk] = blk[b][1 - f[b + 1].blk]
<1>1. changes \in Nat /\ Size \in 1 .. MaxNode /\ MaxNode \in Nat
  BY TreeFacts, Consts DEF DiskType
<1>2. PICK t : t = TreeWritten(ht, lo .. hi, changes + 1)
  OBVIOUS
<1>3. Rewritten(t, lo, hi, changes + 1, ht.len)
  BY <1>1, <1>2, TreeRewritten
<1> DEFINE New(b) == [tag |-> changes + 1, data |-> NewData(b, from, to, w)]
<1>4. /\ blk' = [b \in Blocks |-> IF b \in lo .. hi
                                  THEN [blk[b] EXCEPT ![t.node[b + 1].blk] = New(b)]
                                  ELSE blk[b]]
      /\ changes' = changes + 1
  BY <1>2, Zenon DEF WriteBlocks
<1>5. \A b \in Blocks : New(b) \in [tag : 0 .. changes + 1,
                                     data : [0 .. BlockSize - 1 -> 0 .. changes + 1]]
  BY <1>1, NewDataType
<1> DEFINE Old == [tag : 0 .. changes, data : [0 .. BlockSize - 1 -> 0 .. changes]]
           Set == [tag : 0 .. changes + 1, data : [0 .. BlockSize - 1 -> 0 .. changes + 1]]
<1>6. Old \subseteq Set
  BY <1>1
<1>7. blk \in [Blocks -> [0 .. 1 -> Old]]
  BY DEF DiskType
<1> HIDE DEF New, Old, Set
<1>8. ASSUME NEW b \in lo .. hi
      PROVE  /\ b \in Blocks /\ f[b + 1].blk \in 0 .. 1
             /\ blk'[b] = [blk[b] EXCEPT ![f[b + 1].blk] = New(b)]
             /\ blk'[b] \in [0 .. 1 -> Set]
             /\ blk'[b][f[b + 1].blk] = New(b)
             /\ blk'[b][1 - f[b + 1].blk] = blk[b][1 - f[b + 1].blk]
  <2>1. b \in Blocks /\ b + 1 \in 1 .. Max2(Size, hi + 1)
    BY <1>1 DEF Blocks, Max2
  <2>2. PICK v : v = f[b + 1].blk
    OBVIOUS
  <2>3. v = t.node[b + 1].blk
    BY <1>2, <2>1, <2>2 DEF Placed
  <2>4. v \in 0 .. 1
    BY <1>3, <2>1, <2>3 DEF Rewritten
  <2>5. blk'[b] = [blk[b] EXCEPT ![v] = New(b)]
    BY <1>4, <2>1, <2>3
  <2>6. New(b) \in Set /\ blk[b] \in [0 .. 1 -> Set]
    BY <1>5, <1>6, <1>7, <2>1 DEF Set
  <2>7. /\ [blk[b] EXCEPT ![v] = New(b)] \in [0 .. 1 -> Set]
        /\ [blk[b] EXCEPT ![v] = New(b)][v] = New(b)
        /\ [blk[b] EXCEPT ![v] = New(b)][1 - v] = blk[b][1 - v]
    BY <2>4, <2>6
  <2> QED BY <2>1, <2>2, <2>4, <2>5, <2>7
<1>9. \A b \in Blocks : b \notin lo .. hi => blk'[b] = blk[b] /\ blk'[b] \in [0 .. 1 -> Set]
  BY <1>4, <1>6, <1>7
<1>10. blk' \in [Blocks -> [0 .. 1 -> Set]]
  <2>1. \A b \in Blocks : blk'[b] \in [0 .. 1 -> Set]
    BY <1>8, <1>9
  <2>2. blk' = [b \in Blocks |-> blk'[b]]
    BY <1>4
  <2> QED BY <2>1, <2>2
<1> QED BY <1>4, <1>8, <1>9, <1>10 DEF New, Set

(* Halves of naturals. *)
LEMMA Halved ==
  ASSUME NEW x \in Nat
  PROVE  x \div 2 \in Nat /\ 2 * (x \div 2) <= x /\ x < 2 * (x \div 2) + 2
OBVIOUS

(* The block of a unit. *)
LEMMA BlockOf ==
  ASSUME NEW x \in Nat
  PROVE  /\ x \div BlockSize \in Nat /\ BlockSize * (x \div BlockSize) <= x
         /\ x < BlockSize * (x \div BlockSize) + BlockSize
         /\ x \div BlockSize = x \div 2
BY Halved DEF BlockSize

(* A write changes no block of its base. *)
LEMMA WriteStep ==
  ASSUME Inv, pc = "idle", NEW lo \in Nat, NEW hi \in Nat, lo <= hi, hi < MaxNode,
         NEW from \in Nat, NEW to \in Nat, from <= ht.len, to <= 2 * MaxNode,
         lo = from \div 2, NEW w \in 0 .. changes + 1,
         WriteBlocks(lo .. hi, from, to, w),
         Rewritten(ht', lo, hi, changes + 1, ht'.len),
         Placed(ht'.node, lo, hi),
         \/ ht'.len = ht.len
         \/ ht'.len = to /\ to > ht.len /\ hi = (to - 1) \div 2 /\ ht'.node[1].dirty,
         UNCHANGED <<mode, file, head, node, trusted, pc, todo>>
  PROVE  /\ Inv' /\ Exists' = Exists
         /\ \A c : Tree(Cur, c) /\ Near(c) => Tree(Cur, c)'
         /\ \A c \in [1 .. SizeOf(Cur) -> 0 .. 1] : Tree(Cur, c) /\ Near(c) =>
               \A b \in Blocks : b + 1 <= SizeOf(Cur) =>
                  blk'[b][node[b + 1][c[b + 1]].blk] = blk[b][node[b + 1][c[b + 1]].blk]
<1>1. /\ DiskInv /\ DiskType /\ TreeType /\ todo = << >> /\ Reads /\ RootsDiffer
      /\ mode \in {"hash", "counter"} /\ changes \in Nat
      /\ (mode = "counter" => Exists) /\ (Exists => Commit(Cur))
  BY DEF Inv, DiskInv, MemInv, DiskType
<1>2. PICK i \in 0 .. 1 : i = Cur
  BY <1>1, TreeFacts
<1>3. /\ ht.len \in Nat /\ Size \in 1 .. MaxNode /\ MaxNode \in Nat /\ SizeOf(i) \in 1 .. MaxNode
      /\ head[i].len \in Nat /\ ht.counter \in Nat
  <2>1. ht.len \in Nat /\ Size \in 1 .. MaxNode /\ MaxNode \in Nat /\ ht.counter \in Nat
    BY <1>1, TreeFacts, Consts
  <2>2. SizeOf(i) \in 1 .. MaxNode /\ head[i].len \in 0 .. 2 * MaxNode
    BY <1>1, <1>2, HeadFacts
  <2> QED BY <2>1, <2>2
<1>4. lo <= Size
  <2>1. CASE lo = 0
    BY <1>3, <2>1
  <2>2. CASE lo > 0
    <3>1. lo - 1 \in Blocks /\ (lo - 1) * BlockSize < ht.len
      BY <1>3, <2>2, Consts DEF Blocks, BlockSize
    <3>2. (lo - 1) + 1 <= Size
      BY <1>1, <3>1 DEF Reads
    <3> QED BY <3>2
  <2> QED BY <2>1, <2>2
<1>5. PICK N : N = Max2(Size, hi + 1)
  OBVIOUS
<1>6. N \in 1 .. MaxNode /\ N >= Size /\ N >= hi + 1
  BY <1>3, <1>5 DEF Max2
<1>7. PICK f : f = ht'.node
  OBVIOUS
<1>8. /\ changes' = changes + 1
      /\ blk' \in [Blocks -> [0 .. 1 -> [tag : 0 .. changes + 1,
                                            data : [0 .. BlockSize - 1 -> 0 .. changes + 1]]]]
      /\ \A b \in Blocks : b \notin lo .. hi => blk'[b] = blk[b]
      /\ \A b \in lo .. hi :
              /\ blk'[b][f[b + 1].blk] = [tag |-> changes + 1, data |-> NewData(b, from, to, w)]
              /\ blk'[b][1 - f[b + 1].blk] = blk[b][1 - f[b + 1].blk]
  <2>1. Placed(f, lo, hi)
    BY <1>7
  <2> QED BY <1>1, <1>4, <2>1, BlocksWritten
<1>9. /\ ht'.counter = ht.counter /\ ht'.dirty = TRUE /\ Cur' = i /\ Size' = N
      /\ SizeOf(i)' = SizeOf(i) /\ ht'.len \in Nat
      /\ ht' \in [counter : Nat, max : 0 .. MaxNode, len : 0 .. 2 * MaxNode, dirty : BOOLEAN,
            node : {ht'.node}]
  BY <1>2, <1>3, <1>5 DEF Rewritten, Cur, Size, SizeOf
<1>10. \A n \in 1 .. N :
       /\ f[n] \in [blk : 0 .. 1, child : Flags, tag : 0 .. changes + 1, hash : {f[n].hash},
                         dirty : BOOLEAN, updated : BOOLEAN]
       /\ n - 1 \in lo .. hi => f[n].updated /\ f[n].dirty /\ f[n].tag = changes + 1
       /\ n - 1 \notin lo .. hi =>
            /\ n <= Size /\ f[n].blk = ht.node[n].blk /\ f[n].tag = ht.node[n].tag
            /\ f[n].updated = ht.node[n].updated
       /\ n <= Size =>
            /\ f[n].child = ht.node[n].child /\ f[n].hash = ht.node[n].hash
            /\ ht.node[n].dirty => f[n].dirty
       /\ n <= Size /\ n - 1 \in lo .. hi =>
            f[n].blk = IF ht.node[n].updated THEN ht.node[n].blk ELSE 1 - ht.node[n].blk
  BY <1>5, <1>7, Zenon DEF Rewritten
<1>11. TreeType'
  <2>1. \A n \in 1 .. N : IsNode(ht.node[n])'
    BY <1>7, <1>8, <1>10 DEF IsNode
  <2>2. ht'.node = [n \in 1 .. N |-> ht'.node[n]]
    BY <1>5 DEF Rewritten
  <2> QED BY <1>9, <2>1, <2>2 DEF TreeType
<1>12. DiskType'
  <2>1. \A v \in 0 .. 1 : IsHead(head[v])'
    BY <1>1 DEF DiskType, IsHead
  <2>2. ASSUME NEW n \in 1 .. MaxNode, NEW v \in 0 .. 1 PROVE IsImage(node[n][v])'
    <3>1. PICK r : r = node[n][v]
      OBVIOUS
    <3>2. r \in [blk : 0 .. 1, child : Flags, tag : 0 .. changes, hash : {r.hash}]
      BY <1>1, <3>1 DEF DiskType, IsImage
    <3>3. r \in [blk : 0 .. 1, child : Flags, tag : 0 .. changes + 1, hash : {r.hash}]
      BY <1>1, <3>2
    <3> QED BY <1>8, <3>1, <3>3 DEF IsImage
  <2>3. changes' \in Nat
    BY <1>1, <1>8
  <2>4. head' = [v \in 0 .. 1 |-> head'[v]] /\ node' = [n \in 1 .. MaxNode |-> [v \in 0 .. 1 |-> node'[n][v]]]
    BY <1>1 DEF DiskType
  <2> QED BY <1>1, <1>8, <2>1, <2>2, <2>3, <2>4 DEF DiskType
<1>13. ASSUME NEW c, Tree(i, c), Near(c), NEW n \in 1 .. SizeOf(i)
       PROVE  /\ n \in 1 .. Size /\ n \in 1 .. N /\ c[n] \in 0 .. 1 /\ n \in 1 .. MaxNode
              /\ node[n][c[n]].blk \in 0 .. 1 /\ node[n][c[n]].tag \in 0 .. changes
              /\ ht.node[n].updated \in BOOLEAN
              /\ ht.node[n].child = node[n][c[n]].child /\ ht.node[n].hash = node[n][c[n]].hash
              /\ Block(n, node[n][c[n]])
              /\ n - 1 \in lo .. hi => f[n].blk = 1 - node[n][c[n]].blk
  <2>1. n \in 1 .. Size /\ n \in 1 .. N /\ c[n] \in 0 .. 1 /\ n \in 1 .. MaxNode
    <3>1. SizeOf(i) <= Size
      BY <1>2, <1>13, Zenon DEF Near
    <3>2. c \in [1 .. SizeOf(i) -> 0 .. 1]
      BY <1>13, Zenon DEF Tree
    <3> QED BY <1>3, <1>6, <3>1, <3>2
  <2>2. /\ node[n][c[n]].blk \in 0 .. 1 /\ node[n][c[n]].tag \in 0 .. changes
        /\ ht.node[n].updated \in BOOLEAN
    BY <1>1, <2>1, ImageFacts, NodeFacts
  <2>3. /\ ht.node[n].child = node[n][c[n]].child /\ ht.node[n].hash = node[n][c[n]].hash
        /\ Block(n, node[n][c[n]])
    BY <1>2, <1>13 DEF Near
  <2>4. n - 1 \in lo .. hi => f[n].blk = 1 - node[n][c[n]].blk
    BY <1>10, <2>1, <2>2, <2>3 DEF Block
  <2> QED BY <2>1, <2>2, <2>3, <2>4
<1>14. ASSUME NEW c, Tree(i, c), Near(c), NEW b \in Blocks, b + 1 <= SizeOf(i)
       PROVE  blk'[b][node[b + 1][c[b + 1]].blk] = blk[b][node[b + 1][c[b + 1]].blk]
  <2>1. CASE b \notin lo .. hi
    BY <1>8, <2>1
  <2>2. CASE b \in lo .. hi
    <3>1. b + 1 \in 1 .. SizeOf(i) /\ (b + 1) - 1 = b
      BY <1>3, <1>14, Consts DEF Blocks
    <3>2. f[b + 1].blk = 1 - node[b + 1][c[b + 1]].blk /\ node[b + 1][c[b + 1]].blk \in 0 .. 1
      BY <1>13, <1>14, <2>2, <3>1
    <3>3. 1 - f[b + 1].blk = node[b + 1][c[b + 1]].blk
      BY <3>2
    <3>4. PICK v : v = 1 - f[b + 1].blk
      OBVIOUS
    <3>5. blk'[b][v] = blk[b][v]
      BY <1>8, <2>2, <3>4, Zenon
    <3> QED BY <3>3, <3>4, <3>5
  <2> QED BY <2>1, <2>2
<1>15. ASSUME NEW c, Tree(i, c), Near(c) PROVE Tree(i, c)'
  <2>1. \A b \in Blocks : b * BlockSize < head[i].len =>
            blk'[b][node[b + 1][c[b + 1]].blk].tag = blk[b][node[b + 1][c[b + 1]].blk].tag
    <3> SUFFICES ASSUME NEW b \in Blocks, b * BlockSize < head[i].len
                 PROVE  blk'[b][node[b + 1][c[b + 1]].blk].tag = blk[b][node[b + 1][c[b + 1]].blk].tag
      OBVIOUS
    <3>1. b + 1 <= SizeOf(i)
      BY <1>15 DEF Tree
    <3> QED BY <1>14, <1>15, <3>1
  <2> QED BY <1>1, <1>15, <2>1, TreeKept
<1>16. PICK c \in [1 .. SizeOf(i) -> 0 .. 1] : Tree(i, c) /\ Near(c)
  BY <1>2 DEF Inv, MemInv, Idle
<1> HIDE DEF BlockSize
<1>17. Near(c)'
  <2>0. /\ ht.len >= head[i].len
        /\ ht.len > head[i].len =>
             /\ ht.node[1].dirty
             /\ head[i].len \div BlockSize < Size /\ ht.node[head[i].len \div BlockSize + 1].updated
    BY <1>2, <1>16, Zenon DEF Near
  <2>1. head'[i].counter = ht'.counter /\ SizeOf(i) <= N
    BY <1>2, <1>6, <1>9, <1>16, <1>3 DEF Near
  <2>2. ASSUME NEW n \in 1 .. SizeOf(i)
        PROVE  /\ f[n].child = node[n][c[n]].child /\ f[n].hash = node[n][c[n]].hash
               /\ ~f[n].updated => f[n].blk = node[n][c[n]].blk /\ f[n].tag = node[n][c[n]].tag
               /\ f[n].updated => f[n].blk = 1 - node[n][c[n]].blk /\ f[n].tag > node[n][c[n]].tag
    <3>1. /\ n \in 1 .. Size /\ n \in 1 .. N /\ n <= Size
          /\ node[n][c[n]].tag \in 0 .. changes
          /\ ht.node[n].child = node[n][c[n]].child /\ ht.node[n].hash = node[n][c[n]].hash
          /\ Block(n, node[n][c[n]])
          /\ n - 1 \in lo .. hi => f[n].blk = 1 - node[n][c[n]].blk
      <4>1. /\ n \in 1 .. Size /\ n \in 1 .. N
            /\ node[n][c[n]].tag \in 0 .. changes
            /\ ht.node[n].child = node[n][c[n]].child /\ ht.node[n].hash = node[n][c[n]].hash
            /\ Block(n, node[n][c[n]])
            /\ n - 1 \in lo .. hi => f[n].blk = 1 - node[n][c[n]].blk
        BY <1>13, <1>16, Zenon
      <4> QED BY <1>3, <4>1
    <3>2. CASE n - 1 \in lo .. hi
      BY <1>1, <1>10, <3>1, <3>2
    <3>3. CASE n - 1 \notin lo .. hi
      BY <1>10, <3>1, <3>3 DEF Block
    <3> QED BY <3>2, <3>3
  <2>3. ASSUME NEW n \in 1 .. N PROVE (n > SizeOf(i) => f[n].updated) /\ (f[n].updated => f[n].dirty)
    <3>1. CASE n - 1 \in lo .. hi
      BY <1>10, <3>1
    <3>2. CASE n - 1 \notin lo .. hi
      <4>1. n \in 1 .. Size /\ f[n].updated = ht.node[n].updated /\ (ht.node[n].dirty => f[n].dirty)
        BY <1>3, <1>6, <1>10, <3>2
      <4> QED BY <1>2, <1>16, <4>1 DEF Near
    <3> QED BY <3>1, <3>2
  <2>4. ht'.len >= head[i].len
    <3>1. PICK x, y, z : x = ht'.len /\ y = ht.len /\ z = head[i].len
      OBVIOUS
    <3>2. x \in Nat /\ y \in Nat /\ z \in Nat /\ (x = y \/ x > y) /\ y >= z
      BY <1>3, <1>9, <2>0, <3>1
    <3>3. x >= z
      BY <3>2
    <3> QED BY <3>1, <3>3
  <2>5. ASSUME ht'.len > head[i].len
        PROVE  /\ f[1].dirty
               /\ head[i].len \div BlockSize < N /\ f[head[i].len \div BlockSize + 1].updated
    <3>1. PICK m : m = head[i].len \div BlockSize + 1
      OBVIOUS
    <3>a. m \in Nat /\ m = head[i].len \div 2 + 1 /\ m >= 1
      <4>1. head[i].len \div BlockSize \in Nat /\ head[i].len \div BlockSize = head[i].len \div 2
        BY <1>3, BlockOf
      <4> QED BY <3>1, <4>1
    <3>b. PICK H \in Nat : H = head[i].len
      BY <1>3
    <3>c. m - 1 = H \div 2 /\ 2 * (H \div 2) <= H /\ H < 2 * (H \div 2) + 2
      BY <3>a, <3>b, Halved
    <3>2. CASE ht.len > head[i].len
      <4>1. /\ ht.node[1].dirty /\ m - 1 < Size /\ ht.node[m].updated
        BY <1>3, <2>0, <3>1, <3>2, <3>a, Consts
      <4>2. m \in 1 .. N /\ 1 \in 1 .. N /\ m <= Size /\ 1 <= Size
        <5>1. m <= Size
          BY <1>3, <3>a, <4>1
        <5> QED BY <1>3, <1>6, <3>a, <5>1
      <4>3. f[1].dirty /\ f[m].updated
        BY <1>10, <4>1, <4>2
      <4>4. PICK q \in Nat : q = head[i].len \div BlockSize
        BY <1>3, BlockOf
      <4>5. N \in Nat /\ m \in Nat /\ m = q + 1 /\ m <= N
        BY <1>3, <1>6, <3>1, <3>a, <4>2, <4>4
      <4>6. q < N
        BY <4>5
      <4>7. head[i].len \div BlockSize < N /\ head[i].len \div BlockSize + 1 = m
        BY <4>4, <4>5, <4>6
      <4> QED BY <4>3, <4>7
    <3>3. CASE ht.len = head[i].len
      <4>1. ht'.len = to /\ to > ht.len /\ hi = (to - 1) \div 2 /\ f[1].dirty
        BY <1>3, <1>7, <1>9, <2>5, <3>3
      <4>2. m - 1 \in lo .. hi /\ m \in 1 .. N
        <5>1. from <= H /\ H <= to - 1 /\ to - 1 \in Nat
          BY <3>b, <3>3, <4>1
        <5>2. 2 * lo <= from /\ to - 1 < 2 * hi + 2
          BY <4>1, <5>1, Halved
        <5>3. PICK q \in Nat : q = m - 1
          BY <3>a
        <5>4. 2 * q <= H /\ H < 2 * q + 2
          BY <3>c, <5>3
        <5>5. lo <= q /\ q <= hi
          BY <5>1, <5>2, <5>4
        <5> QED BY <1>6, <3>a, <5>3, <5>5
      <4>3. f[m].updated
        BY <1>10, <4>2
      <4>4. m - 1 < N
        BY <1>6, <3>a, <4>2
      <4>5. head[i].len \div BlockSize = m - 1
        <5>1. PICK q : q = head[i].len \div BlockSize
          OBVIOUS
        <5>2. q \in Nat
          BY <1>3, <5>1, BlockOf
        <5>3. m = q + 1
          BY <3>1, <5>1
        <5>4. q = m - 1
          BY <5>2, <5>3
        <5> QED BY <5>1, <5>4
      <4> QED BY <3>1, <4>1, <4>3, <4>4, <4>5
    <3> QED BY <1>3, <2>0, <3>2, <3>3
  <2>6. \E n \in 1 .. N : f[n].updated
    <3>1. lo + 1 \in 1 .. N /\ (lo + 1) - 1 \in lo .. hi
      BY <1>6
    <3> QED BY <1>10, <3>1
  <2>7. \A n \in 1 .. SizeOf(i) : Block(n, node[n][c[n]])'
    BY <1>7, <2>2 DEF Block
  <2> QED BY <1>7, <1>9, <2>1, <2>2, <2>3, <2>4, <2>5, <2>6, <2>7 DEF Near
<1>18. Reads'
  <2> SUFFICES ASSUME NEW b \in Blocks, b * BlockSize < ht'.len
               PROVE  b + 1 <= Size' /\ Decrypts(b, ht.node[b + 1])'
    BY DEF Reads
  <2>1. b \in Nat /\ b * 2 < ht'.len
    BY Consts DEF Blocks
  <2>2. CASE b \in lo .. hi
    <3>1. b + 1 \in 1 .. N /\ (b + 1) - 1 = b
      BY <1>6, <2>1, <2>2
    <3>2. f[b + 1].tag = changes + 1 /\ blk'[b][f[b + 1].blk].tag = changes + 1
      <4>1. PICK x : x = [tag |-> changes + 1, data |-> NewData(b, from, to, w)]
        OBVIOUS
      <4>2. x.tag = changes + 1
        BY <4>1
      <4>3. blk'[b][f[b + 1].blk] = x
        BY <1>8, <2>2, <4>1, Zenon
      <4>4. f[b + 1].tag = changes + 1
        BY <1>10, <2>2, <3>1
      <4> QED BY <4>2, <4>3, <4>4
    <3> QED BY <1>1, <1>6, <1>7, <1>9, <3>1, <3>2 DEF Decrypts
  <2>3. CASE b \notin lo .. hi
    <3>1. b * 2 < ht.len
      <4>1. CASE ht'.len = ht.len
        BY <2>1, <4>1
      <4>2. CASE ht'.len = to /\ to > ht.len /\ hi = (to - 1) \div 2
        <5>1. 2 * b < to
          BY <2>1, <4>2
        <5>2. b <= hi
          BY <2>1, <4>2, <5>1
        <5>3. b < lo
          BY <2>1, <2>3, <5>2
        <5> QED BY <1>3, <2>1, <5>3
      <4> QED BY <4>1, <4>2
    <3>2. b + 1 <= Size /\ Decrypts(b, ht.node[b + 1])
      BY <1>1, <3>1, <2>1, Consts DEF Reads
    <3>3. b + 1 \in 1 .. N /\ (b + 1) - 1 \notin lo .. hi
      <4>1. b + 1 \in Nat /\ (b + 1) - 1 = b /\ b + 1 >= 1
        BY <2>1
      <4>2. b + 1 <= N
        BY <1>3, <1>6, <3>2, <4>1
      <4>3. N \in Nat
        BY <1>3, <1>6
      <4> QED BY <2>3, <4>1, <4>2, <4>3
    <3>4. f[b + 1].blk = ht.node[b + 1].blk /\ f[b + 1].tag = ht.node[b + 1].tag /\ blk'[b] = blk[b]
      <4>1. blk'[b] = blk[b]
        BY <1>8, <2>3
      <4>2. f[b + 1].blk = ht.node[b + 1].blk /\ f[b + 1].tag = ht.node[b + 1].tag
        BY <1>10, <3>3, Zenon
      <4> QED BY <4>1, <4>2
    <3>5. Decrypts(b, ht.node[b + 1])'
      BY <1>7, <3>2, <3>4, Zenon DEF Decrypts
    <3>6. b + 1 <= Size'
      BY <1>6, <1>9, <3>3
    <3> QED BY <3>5, <3>6
  <2> QED BY <2>2, <2>3
<1>19. Exists' = Exists /\ RootsDiffer' /\ (Exists => Commit(i)')
  BY <1>1, <1>2 DEF Exists, RootsDiffer, Commit
<1>20. Tree(i, c)'
  BY <1>15, <1>16
<1>21. DiskInv'
  BY <1>1, <1>9, <1>12, <1>16, <1>19, <1>20 DEF DiskInv
<1>22. Tree(Cur, c)' /\ (Exists => Commit(Cur)')
  BY <1>9, <1>19, <1>20, CurTree
<1>23. Idle'
  BY <1>9, <1>16, <1>17, <1>22 DEF Idle
<1>24. MemInv'
  BY <1>1, <1>11, <1>18, <1>19, <1>22, <1>23 DEF MemInv
<1>25. ASSUME NEW d, Tree(Cur, d), Near(d) PROVE Tree(Cur, d)'
  BY <1>2, <1>9, <1>15, <1>25, CurTree
<1> QED BY <1>2, <1>14, <1>19, <1>21, <1>24, <1>25 DEF Inv

(* The images that tree i, c is made of do not change. *)
Stays(i, c) ==
  /\ \A n \in 1 .. SizeOf(i) : node'[n][c[n]] = node[n][c[n]]
  /\ \A b \in Blocks : b * BlockSize < head[i].len =>
        blk'[b][node[b + 1][c[b + 1]].blk] = blk[b][node[b + 1][c[b + 1]].blk]

BaseStays == \E i \in 0 .. 1 : \E c \in [1 .. SizeOf(i) -> 0 .. 1] :
                i = Cur /\ Tree(i, c) /\ Stays(i, c)

(* A write leaves the images of its base. *)
LEMMA WriteStays ==
  ASSUME Inv, pc = "idle", UNCHANGED node,
         \A c \in [1 .. SizeOf(Cur) -> 0 .. 1] : Tree(Cur, c) /\ Near(c) =>
               \A b \in Blocks : b + 1 <= SizeOf(Cur) =>
                  blk'[b][node[b + 1][c[b + 1]].blk] = blk[b][node[b + 1][c[b + 1]].blk]
  PROVE  BaseStays
<1>1. PICK c \in [1 .. SizeOf(Cur) -> 0 .. 1] : Tree(Cur, c) /\ Near(c)
  BY DEF Inv, MemInv, Idle
<1>2. PICK i \in 0 .. 1 : i = Cur
  BY TreeFacts DEF Inv, MemInv
<1>3. ASSUME NEW b \in Blocks, b * BlockSize < head[i].len
      PROVE  blk'[b][node[b + 1][c[b + 1]].blk] = blk[b][node[b + 1][c[b + 1]].blk]
  <2>1. b + 1 <= SizeOf(i)
    BY <1>1, <1>2, <1>3 DEF Tree
  <2> QED BY <1>1, <1>2, <2>1
<1>4. Stays(i, c)
  BY <1>3 DEF Stays
<1> QED BY <1>1, <1>2, <1>4 DEF BaseStays

(* Unit u of a file lies in a block of it, at a place in the block. *)
LEMMA UnitOf ==
  ASSUME NEW l \in 0 .. 2 * MaxNode, NEW u \in 0 .. l - 1
  PROVE  /\ u \in Nat /\ u \div BlockSize \in Blocks /\ (u \div BlockSize) * BlockSize < l
         /\ u % BlockSize \in 0 .. BlockSize - 1
         /\ u = (u \div BlockSize) * BlockSize + (u % BlockSize)
<1>1. PICK q : q = u \div 2
  OBVIOUS
<1>2. u \in Nat /\ MaxNode \in Nat /\ l \in Nat /\ u < l /\ l <= 2 * MaxNode
  BY Consts
<1>3. q \in Nat /\ 2 * q <= u /\ u < 2 * q + 2 /\ u % 2 \in 0 .. 1 /\ u = q * 2 + (u % 2)
  BY <1>1, <1>2
<1>4. q \in 0 .. MaxNode - 1
  BY <1>2, <1>3
<1> QED BY <1>1, <1>2, <1>3, <1>4 DEF BlockSize, Blocks

(* The unit of the file that the tree in memory holds. *)
Cell(u) == blk[u \div BlockSize][ht.node[(u \div BlockSize) + 1].blk].data[u % BlockSize]

(* A unit of the open file lies in a block that decrypts. *)
LEMMA InReach ==
  ASSUME TreeType, Reads, NEW u \in 0 .. ht.len - 1, NEW b, b = u \div BlockSize
  PROVE  /\ b \in Blocks /\ b \in Nat /\ b * BlockSize < ht.len /\ b + 1 \in 1 .. Size
         /\ u % BlockSize \in 0 .. BlockSize - 1 /\ u = b * BlockSize + (u % BlockSize)
         /\ Decrypts(b, ht.node[b + 1]) /\ ht.node[b + 1].blk \in 0 .. 1 /\ u \in Nat
<1>1. ht.len \in 0 .. 2 * MaxNode /\ Size \in 1 .. MaxNode /\ MaxNode \in Nat
  BY TreeFacts, Consts
<1>2. /\ b \in Blocks /\ b * BlockSize < ht.len /\ u % BlockSize \in 0 .. BlockSize - 1
      /\ u = b * BlockSize + (u % BlockSize) /\ u \in Nat
  BY <1>1, UnitOf
<1>3. b \in Nat
  BY <1>1, <1>2 DEF Blocks
<1>4. b + 1 <= Size /\ Decrypts(b, ht.node[b + 1])
  BY <1>2 DEF Reads
<1>5. b + 1 \in 1 .. Size
  BY <1>1, <1>3, <1>4
<1> QED BY <1>2, <1>3, <1>4, <1>5, NodeFacts

(* Of what can be read, the units from .. last become w and no other changes. *)
Wrote(from, last, w) ==
  /\ ht'.len >= ht.len
  /\ \A u \in 0 .. ht'.len - 1 :
       \/ u \in from .. last /\ Cell(u)' = w
       \/ u \notin from .. last /\ u < ht.len /\ Cell(u)' = Cell(u)

(* A write changes the units it was given, and no other. *)
LEMMA WriteData ==
  ASSUME DiskType, TreeType, Reads, NEW lo \in Nat, NEW hi \in Nat, lo <= hi, hi < MaxNode,
         NEW from \in Nat, NEW to \in Nat, from <= ht.len, to <= 2 * MaxNode,
         lo = from \div 2, NEW w \in 0 .. changes + 1,
         WriteBlocks(lo .. hi, from, to, w),
         Rewritten(ht', lo, hi, changes + 1, ht'.len),
         Placed(ht'.node, lo, hi), lo <= Size,
         \/ ht'.len = ht.len
         \/ ht'.len = to /\ to > ht.len /\ hi = (to - 1) \div 2,
         NEW last, last = IF to - 1 <= 2 * hi + 1 THEN to - 1 ELSE 2 * hi + 1
  PROVE  Wrote(from, last, w)
<1>1. /\ ht.len \in 0 .. 2 * MaxNode /\ ht.len \in Nat /\ Size \in 1 .. MaxNode /\ MaxNode \in Nat
      /\ MaxNode > 0
  BY TreeFacts, Consts
<1>2. PICK f, l : f = ht'.node /\ l = ht'.len
  OBVIOUS
<1>3. l \in 0 .. 2 * MaxNode /\ l \in Nat /\ l >= ht.len
  BY <1>1, <1>2
<1>4. /\ \A b \in Blocks : b \notin lo .. hi => blk'[b] = blk[b]
      /\ \A b \in lo .. hi :
           blk'[b][f[b + 1].blk] = [tag |-> changes + 1, data |-> NewData(b, from, to, w)]
  BY <1>2, BlocksWritten
<1>5. \A n \in 1 .. Max2(Size, hi + 1) : n - 1 \notin lo .. hi => n <= Size /\ f[n].blk = ht.node[n].blk
  BY <1>2 DEF Rewritten
<1>6. ASSUME NEW u \in 0 .. l - 1
      PROVE  \/ u \in from .. last /\ Cell(u)' = w
             \/ u \notin from .. last /\ u < ht.len /\ Cell(u)' = Cell(u)
  <2>1. PICK b, k : b = u \div BlockSize /\ k = u % BlockSize
    OBVIOUS
  <2>2. /\ b \in Blocks /\ b * BlockSize < l /\ k \in 0 .. BlockSize - 1 /\ u = b * BlockSize + k
        /\ u \in Nat
    BY <1>3, <1>6, <2>1, UnitOf
  <2>3. b \in Nat /\ b < MaxNode /\ k \in 0 .. 1 /\ u = b * 2 + k /\ b * 2 < l
    BY <1>1, <2>2 DEF Blocks, BlockSize
  <2>4. Cell(u)' = blk'[b][f[b + 1].blk].data[k]
    BY <1>2, <2>1 DEF Cell
  <2>5. Cell(u) = blk[b][ht.node[b + 1].blk].data[k]
    BY <2>1 DEF Cell
  <2>6. 2 * lo <= from /\ from < 2 * lo + 2
    BY Halved
  <2>7. last \in Int /\ last <= to - 1 /\ last <= 2 * hi + 1 /\ (last = to - 1 \/ last = 2 * hi + 1)
    OBVIOUS
  <2>8. u < ht.len \/ u \in from .. last
    <3>1. CASE l = ht.len
      BY <1>1, <1>6, <2>2, <3>1
    <3>2. CASE l = to /\ to > ht.len /\ hi = (to - 1) \div 2
      <4>1. to - 1 \in Nat
        BY <1>1, <3>2
      <4>2. to - 1 < 2 * hi + 2
        BY <3>2, <4>1, Halved
      <4>3. last = to - 1
        BY <4>1, <4>2
      <4> QED BY <1>1, <1>6, <2>2, <3>2, <4>3
    <3> QED BY <1>2, <3>1, <3>2
  <2>9. CASE b \in lo .. hi
    <3>1. PICK r : r = blk'[b][f[b + 1].blk]
      OBVIOUS
    <3>2. r.data = NewData(b, from, to, w)
      <4>1. PICK d : d = NewData(b, from, to, w)
        OBVIOUS
      <4>2. r = [tag |-> changes + 1, data |-> d]
        BY <1>4, <2>9, <3>1, <4>1, Zenon
      <4> QED BY <4>1, <4>2
    <3>3. r.data[k] = IF b * BlockSize + k \in from .. to - 1 THEN w
                      ELSE IF b < CeilBlocks(ht.len) THEN BlockData(ht, b)[k] ELSE 0
      BY <2>2, <3>2 DEF NewData
    <3>4. u \in from .. to - 1 <=> u \in from .. last
      BY <2>2, <2>3, <2>7, <2>9
    <3>5. CASE u \in from .. last
      BY <2>2, <2>4, <3>1, <3>3, <3>4, <3>5
    <3>6. CASE u \notin from .. last
      <4>1. u < ht.len
        BY <2>8, <3>6
      <4>2. b < CeilBlocks(ht.len)
        <5>1. CeilBlocks(ht.len) = (ht.len + 1) \div 2
          BY <1>1 DEF CeilBlocks, BlockSize
        <5>2. PICK q : q = (ht.len + 1) \div 2
          OBVIOUS
        <5>3. q \in Nat /\ ht.len + 1 < 2 * q + 2
          BY <1>1, <5>2, Halved
        <5>4. b < q
          BY <1>1, <2>3, <4>1, <5>3
        <5> QED BY <5>1, <5>2, <5>4
      <4>3. r.data[k] = BlockData(ht, b)[k]
        BY <2>2, <3>3, <3>4, <3>6, <4>2
      <4> QED BY <2>4, <2>5, <3>1, <3>6, <4>1, <4>3 DEF BlockData
    <3> QED BY <3>5, <3>6
  <2>10. CASE b \notin lo .. hi
    <3>1. u \notin from .. last
      BY <2>3, <2>6, <2>7, <2>10
    <3>2. u < ht.len
      BY <2>8, <3>1
    <3>3. u \in 0 .. ht.len - 1
      BY <1>1, <2>2, <3>2
    <3>4. b + 1 \in 1 .. Size
      BY <2>1, <3>3, InReach
    <3>5. f[b + 1].blk = ht.node[b + 1].blk
      <4>1. PICK n : n = b + 1
        OBVIOUS
      <4>2. n \in 1 .. Max2(Size, hi + 1) /\ n - 1 \notin lo .. hi
        BY <1>1, <2>3, <2>10, <3>4, <4>1 DEF Max2
      <4> QED BY <1>5, <4>1, <4>2
    <3>6. blk'[b] = blk[b]
      BY <1>4, <2>2, <2>10
    <3> QED BY <2>4, <2>5, <3>1, <3>2, <3>5, <3>6
  <2> QED BY <2>9, <2>10
<1> QED BY <1>2, <1>3, <1>6 DEF Wrote

(* The blocks of a write are blocks of the file. *)
LEMMA WriteStarts ==
  ASSUME NEW from \in 0 .. 2 * MaxNode, NEW to \in 0 .. 2 * MaxNode, from < to
  PROVE  /\ from \div BlockSize \in Nat /\ (to - 1) \div BlockSize \in Nat
         /\ from \div BlockSize <= (to - 1) \div BlockSize
         /\ (to - 1) \div BlockSize < MaxNode
         /\ from \div BlockSize = from \div 2 /\ (to - 1) \div BlockSize = (to - 1) \div 2
<1>1. from \in Nat /\ to - 1 \in Nat /\ from <= to - 1 /\ to - 1 < 2 * MaxNode /\ MaxNode \in Nat
  BY Consts
<1>2. PICK p, q : p = from \div BlockSize /\ q = (to - 1) \div BlockSize
  OBVIOUS
<1>3. /\ p \in Nat /\ q \in Nat /\ 2 * p <= from /\ 2 * q <= to - 1 /\ from < 2 * p + 2
      /\ to - 1 < 2 * q + 2 /\ p = from \div 2 /\ q = (to - 1) \div 2
  BY <1>1, <1>2, BlockOf, Consts
<1>4. p <= q /\ q < MaxNode
  BY <1>1, <1>3
<1> QED BY <1>2, <1>3, <1>4

(* A write starts next to the nodes that the tree has. *)
LEMMA PartWritten ==
  ASSUME Inv, pc = "idle", NEW lo \in Nat, NEW hi \in Nat, lo <= hi, hi < MaxNode,
         NEW from \in Nat, from <= ht.len, lo = from \div 2
  PROVE  /\ Rewritten(TreeWritten(ht, lo .. hi, changes + 1), lo, hi, changes + 1, ht.len)
         /\ Placed(TreeWritten(ht, lo .. hi, changes + 1).node, lo, hi) /\ lo <= Size
<1>1. TreeType /\ Reads /\ changes \in Nat
  BY DEF Inv, MemInv, DiskInv, DiskType
<1>2. /\ ht.len \in Nat /\ Size \in 1 .. MaxNode /\ MaxNode \in Nat
  BY <1>1, TreeFacts, Consts
<1>3. lo <= Size
  <2>1. CASE lo = 0
    BY <1>2, <2>1
  <2>2. CASE lo > 0
    <3>1. lo - 1 \in Blocks /\ (lo - 1) * 2 < ht.len
      BY <1>2, <2>2, Halved DEF Blocks
    <3>2. (lo - 1) + 1 <= Size
      BY <1>1, <3>1 DEF Reads, BlockSize
    <3> QED BY <3>2
  <2> QED BY <2>1, <2>2
<1> QED BY <1>1, <1>3, TreeRewritten DEF Placed

(* A write keeps the invariant and the base, and writes what it was given. *)
LEMMA OutOfPlaceWriteStep ==
  ASSUME Inv, NEW from \in 0 .. 2 * MaxNode, NEW to \in 0 .. 2 * MaxNode,
         NEW w \in 0 .. changes + 1, OutOfPlaceWrite(from, to, w)
  PROVE  Inv' /\ Exists' = Exists /\ BaseStays /\ Wrote(from, to - 1, w)
<1>1. /\ pc = "idle" /\ from <= ht.len /\ from < to /\ ht' = Written(from, to)
      /\ WriteBlocks(BlocksOf(from, to), from, to, w)
      /\ UNCHANGED <<mode, file, head, node, trusted, pc, todo>>
  BY DEF OutOfPlaceWrite, CanWrite
<1>2. PICK lo, hi : lo = from \div BlockSize /\ hi = (to - 1) \div BlockSize
  OBVIOUS
<1>3. /\ lo \in Nat /\ hi \in Nat /\ lo <= hi /\ hi < MaxNode /\ lo = from \div 2
      /\ hi = (to - 1) \div 2 /\ from \in Nat /\ to \in Nat /\ to <= 2 * MaxNode
  BY <1>1, <1>2, WriteStarts, Consts
<1>4. BlocksOf(from, to) = lo .. hi
  BY <1>2 DEF BlocksOf
<1>5. PICK t : t = TreeWritten(ht, lo .. hi, changes + 1)
  OBVIOUS
<1>6. Rewritten(t, lo, hi, changes + 1, ht.len) /\ Placed(t.node, lo, hi) /\ lo <= Size
  BY <1>1, <1>3, <1>5, PartWritten
<1>7. ht' = IF to > ht.len THEN [t EXCEPT !.len = to, !.node[1].dirty = TRUE] ELSE t
  BY <1>1, <1>4, <1>5, Zenon DEF Written
<1>8. TreeType /\ changes \in Nat /\ ht.len \in Nat
  BY <1>1, TreeFacts DEF Inv, MemInv, DiskInv, DiskType
<1>9. /\ Rewritten(ht', lo, hi, changes + 1, ht'.len) /\ Placed(ht'.node, lo, hi)
      /\ \/ ht'.len = ht.len
         \/ ht'.len = to /\ to > ht.len /\ hi = (to - 1) \div 2 /\ ht'.node[1].dirty
  <2>1. CASE to > ht.len
    <3>1. PICK u : u = WithLen(t, to)
      OBVIOUS
    <3>2. ht' = u
      BY <1>7, <2>1, <3>1 DEF WithLen
    <3>3. /\ Rewritten(u, lo, hi, changes + 1, to) /\ u.node[1].dirty
          /\ \A n \in 1 .. Max2(Size, hi + 1) : u.node[n].blk = t.node[n].blk
      <4>1. PICK tag \in Nat : tag = changes + 1
        BY <1>8
      <4>2. Rewritten(t, lo, hi, tag, ht.len)
        BY <1>6, <4>1
      <4>3. GrownTo(u, t, lo, hi, tag, to)
        BY <1>3, <1>8, <3>1, <4>2, Lengthened
      <4> QED BY <4>1, <4>3 DEF GrownTo
    <3>4. u.len = to
      BY <3>3 DEF Rewritten
    <3>5. Placed(u.node, lo, hi)
      BY <1>6, <3>3 DEF Placed
    <3> QED BY <1>3, <2>1, <3>2, <3>3, <3>4, <3>5
  <2>2. CASE ~(to > ht.len)
    <3>1. ht' = t /\ t.len = ht.len
      BY <1>6, <1>7, <2>2 DEF Rewritten
    <3> QED BY <1>6, <3>1
  <2> QED BY <2>1, <2>2
<1>10. /\ Inv' /\ Exists' = Exists
       /\ \A c \in [1 .. SizeOf(Cur) -> 0 .. 1] : Tree(Cur, c) /\ Near(c) =>
               \A b \in Blocks : b + 1 <= SizeOf(Cur) =>
                  blk'[b][node[b + 1][c[b + 1]].blk] = blk[b][node[b + 1][c[b + 1]].blk]
  <2>1. WriteBlocks(lo .. hi, from, to, w)
    BY <1>1, <1>4
  <2> QED BY <1>1, <1>3, <1>9, <2>1, WriteStep
<1>11. Wrote(from, to - 1, w)
  <2>1. WriteBlocks(lo .. hi, from, to, w) /\ DiskType /\ Reads
    BY <1>1, <1>4 DEF Inv, DiskInv, MemInv
  <2>2. PICK last : last = IF to - 1 <= 2 * hi + 1 THEN to - 1 ELSE 2 * hi + 1
    OBVIOUS
  <2>3. last = to - 1
    BY <1>1, <1>3, <2>2, Halved
  <2>4. Wrote(from, last, w)
    BY <1>1, <1>3, <1>6, <1>8, <1>9, <2>1, <2>2, WriteData
  <2> QED BY <2>3, <2>4
<1> QED BY <1>1, <1>10, <1>11, WriteStays

(* Making the file longer does so too, with zeros. *)
LEMMA ExtendStep ==
  ASSUME Inv, NEW length \in 0 .. 2 * MaxNode, Extend(length)
  PROVE  Inv' /\ Exists' = Exists /\ BaseStays /\ Wrote(ht.len, length - 1, 0)
<1>1. TreeType /\ changes \in Nat
  BY DEF Inv, MemInv, DiskInv, DiskType, Extend
<1>2. ht.len \in 0 .. 2 * MaxNode /\ 0 \in 0 .. changes + 1
  BY <1>1, TreeFacts
<1> QED BY <1>2, OutOfPlaceWriteStep DEF Extend

(* A write that stops after some of its blocks does so too. *)
LEMMA OutOfPlaceWriteStopsStep ==
  ASSUME Inv, NEW from \in 0 .. 2 * MaxNode, NEW to \in 0 .. 2 * MaxNode,
         NEW w \in 0 .. changes + 1, OutOfPlaceWriteStops(from, to, w)
  PROVE  Inv' /\ Exists' = Exists /\ BaseStays /\ \E last \in Int : Wrote(from, last, w)
<1>1. /\ pc = "idle" /\ from <= ht.len /\ from < to
      /\ UNCHANGED <<mode, file, head, node, trusted, pc, todo>>
  BY DEF OutOfPlaceWriteStops, CanWrite
<1>2. PICK lo, max : lo = from \div BlockSize /\ max = (to - 1) \div BlockSize
  OBVIOUS
<1>3. /\ lo \in Nat /\ max \in Nat /\ lo <= max /\ max < MaxNode /\ lo = from \div 2
      /\ from \in Nat /\ to \in Nat /\ to <= 2 * MaxNode
  BY <1>1, <1>2, WriteStarts, Consts
<1>4. PICK hi \in lo .. max : /\ WriteBlocks(lo .. hi, from, to, w)
                              /\ ht' = TreeWritten(ht, lo .. hi, changes + 1)
  BY <1>2 DEF OutOfPlaceWriteStops, BlocksOf
<1>5. hi \in Nat /\ lo <= hi /\ hi < MaxNode
  BY <1>3, <1>4, Consts
<1>6. Rewritten(ht', lo, hi, changes + 1, ht.len) /\ Placed(ht'.node, lo, hi) /\ lo <= Size
  BY <1>1, <1>3, <1>4, <1>5, PartWritten
<1>7. ht'.len = ht.len
  BY <1>6 DEF Rewritten
<1>8. /\ Inv' /\ Exists' = Exists
       /\ \A c \in [1 .. SizeOf(Cur) -> 0 .. 1] : Tree(Cur, c) /\ Near(c) =>
               \A b \in Blocks : b + 1 <= SizeOf(Cur) =>
                  blk'[b][node[b + 1][c[b + 1]].blk] = blk[b][node[b + 1][c[b + 1]].blk]
  BY <1>1, <1>3, <1>4, <1>5, <1>6, <1>7, WriteStep
<1>9. PICK last : last = IF to - 1 <= 2 * hi + 1 THEN to - 1 ELSE 2 * hi + 1
  OBVIOUS
<1>10. last \in Int
  BY <1>3, <1>5, <1>9
<1>11. DiskType /\ TreeType /\ Reads
  BY <1>1 DEF Inv, DiskInv, MemInv
<1>12. Wrote(from, last, w)
  BY <1>1, <1>3, <1>4, <1>5, <1>6, <1>7, <1>9, <1>11, WriteData
<1> QED BY <1>1, <1>8, <1>10, <1>12, WriteStays

----------------------------------------------------------------------------
(* Visiting a node. *)

(* The first node that waits for its visit: its children were visited, its parent not. *)
LEMMA FirstOf ==
  ASSUME Size \in Nat, Order(todo), todo # << >>, NEW n, n = Head(todo)
  PROVE  /\ n \in 1 .. Size /\ n \in Pending
         /\ Elements(Tail(todo)) = Pending \ {n} /\ Order(Tail(todo))
         /\ n # 1 => n \div 2 \in Pending /\ n \div 2 # n
         /\ \A m \in Kids(n) : m \notin Pending
         /\ n = 1 => Pending = {1} /\ Tail(todo) = << >>
<1>1. PICK s : s = todo
  OBVIOUS
<1>2. PICK r : r = Tail(s)
  OBVIOUS
<1>3. /\ s \in Seq(1 .. Size) /\ NoRepeats(s)
      /\ \A j \in 1 .. Len(s) : s[j] # 1 => \E k \in j + 1 .. Len(s) : s[k] = s[j] \div 2
  BY <1>1 DEF Order
<1>4. Len(s) \in Nat /\ Len(s) >= 1 /\ n = s[1]
  BY <1>1, <1>3
<1>5. /\ r \in Seq(1 .. Size) /\ Len(r) = Len(s) - 1
      /\ \A j \in 1 .. Len(r) : r[j] = s[j + 1]
  BY <1>1, <1>2, <1>3
<1>6. \A j, k \in 1 .. Len(s) : s[j] = s[k] => j = k
  BY <1>3 DEF NoRepeats
<1>7. n \in 1 .. Size /\ n \in Pending
  BY <1>1, <1>3, <1>4 DEF Pending, Elements
<1>8. Elements(r) = Pending \ {n}
  <2>1. ASSUME NEW x, x \in Elements(r) PROVE x \in Pending \ {n}
    <3>1. PICK j \in 1 .. Len(r) : x = r[j]
      BY <2>1 DEF Elements
    <3>2. j + 1 \in 1 .. Len(s) /\ x = s[j + 1] /\ j + 1 # 1 /\ 1 \in 1 .. Len(s)
      BY <1>4, <1>5, <3>1
    <3> QED BY <1>1, <1>4, <1>6, <3>2 DEF Pending, Elements
  <2>2. ASSUME NEW x, x \in Pending \ {n} PROVE x \in Elements(r)
    <3>1. PICK j \in 1 .. Len(s) : x = s[j]
      BY <1>1, <2>2 DEF Pending, Elements
    <3>2. j # 1
      BY <1>4, <2>2, <3>1
    <3>3. PICK k \in 1 .. Len(r) : k + 1 = j
      <4>1. j - 1 \in 1 .. Len(r) /\ (j - 1) + 1 = j
        BY <1>4, <1>5, <3>1, <3>2
      <4> QED BY <4>1
    <3>4. x = r[k]
      BY <1>5, <3>1, <3>3
    <3> QED BY <3>4 DEF Elements
  <2> QED BY <2>1, <2>2
<1>9. Order(r)
  <2>1. NoRepeats(r)
    <3> SUFFICES ASSUME NEW j \in 1 .. Len(r), NEW k \in 1 .. Len(r), r[j] = r[k] PROVE j = k
      BY DEF NoRepeats
    <3>1. j + 1 \in 1 .. Len(s) /\ k + 1 \in 1 .. Len(s) /\ s[j + 1] = s[k + 1]
      BY <1>4, <1>5
    <3>2. j + 1 = k + 1
      BY <1>6, <3>1
    <3> QED BY <3>2
  <2>2. ASSUME NEW j \in 1 .. Len(r), r[j] # 1
        PROVE  \E k \in j + 1 .. Len(r) : r[k] = r[j] \div 2
    <3>1. j + 1 \in 1 .. Len(s) /\ s[j + 1] = r[j]
      BY <1>4, <1>5
    <3>2. PICK k \in (j + 1) + 1 .. Len(s) : s[k] = s[j + 1] \div 2
      BY <1>3, <2>2, <3>1
    <3>3. PICK l \in j + 1 .. Len(r) : l + 1 = k
      <4>1. k - 1 \in j + 1 .. Len(r) /\ (k - 1) + 1 = k
        BY <1>4, <1>5, <3>2
      <4> QED BY <4>1
    <3>4. r[l] = s[k]
      <4>1. l \in 1 .. Len(r)
        BY <3>3
      <4> QED BY <1>5, <3>3, <4>1
    <3> QED BY <3>1, <3>2, <3>4
  <2> QED BY <1>5, <2>1, <2>2 DEF Order
<1>10. ASSUME n # 1 PROVE n \div 2 \in Pending /\ n \div 2 # n
  <2>1. PICK k \in 1 + 1 .. Len(s) : s[k] = n \div 2
    BY <1>3, <1>4, <1>10
  <2>2. k \in 1 .. Len(s) /\ k # 1 /\ 1 \in 1 .. Len(s)
    BY <1>4
  <2> QED BY <1>1, <1>4, <1>6, <2>1, <2>2 DEF Pending, Elements
<1>11. ASSUME NEW m \in Kids(n), m \in Pending PROVE FALSE
  <2>1. PICK j \in 1 .. Len(s) : m = s[j]
    BY <1>1, <1>11 DEF Pending, Elements
  <2>2. m # 1 /\ m \div 2 = n
    BY <1>7 DEF Kids
  <2>3. PICK k \in j + 1 .. Len(s) : s[k] = n
    BY <1>3, <2>1, <2>2
  <2>4. k \in 1 .. Len(s) /\ k # 1 /\ 1 \in 1 .. Len(s)
    BY <1>4, <2>1
  <2> QED BY <1>4, <1>6, <2>3, <2>4
<1>12. ASSUME n = 1 PROVE Pending = {1}
  <2> DEFINE S == Pending \ {1}
  <2>1. S \subseteq 1 .. Size
    BY <1>1, <1>3 DEF Pending, Elements
  <2>2. S \in SUBSET Nat
    BY <2>1
  <2>3. S = {}
    <3> SUFFICES ASSUME S # {} PROVE FALSE
      OBVIOUS
    <3>1. PICK x \in S : \A y \in S : x <= y
      <4> HIDE DEF S
      <4> QED BY <2>2, LeastExists
    <3>2. PICK j \in 1 .. Len(s) : x = s[j]
      BY <1>1, <3>1 DEF Pending, Elements
    <3>3. x \in Nat /\ x > 1
      BY <2>1, <3>1
    <3>4. PICK k \in j + 1 .. Len(s) : s[k] = x \div 2
      BY <1>3, <3>2, <3>3
    <3>5. k \in 1 .. Len(s) /\ k # 1 /\ 1 \in 1 .. Len(s)
      BY <1>4, <3>2
    <3>6. s[k] # 1
      BY <1>4, <1>6, <1>12, <3>5
    <3>7. x \div 2 \in S
      BY <1>1, <3>4, <3>5, <3>6 DEF Pending, Elements
    <3>8. x \div 2 < x /\ x \div 2 \in Nat
      BY <3>3, Half
    <3>9. x <= x \div 2
      BY <3>1, <3>7
    <3> QED BY <3>3, <3>8, <3>9
  <2> QED BY <1>7, <1>12, <2>3
<1>13. ASSUME n = 1 PROVE r = << >>
  <2>1. Elements(r) = {}
    BY <1>8, <1>12, <1>13
  <2>2. Len(r) = 0
    <3> SUFFICES ASSUME Len(r) # 0 PROVE FALSE
      OBVIOUS
    <3>1. 1 \in 1 .. Len(r)
      BY <1>4, <1>5
    <3>2. r[1] \in Elements(r)
      BY <3>1 DEF Elements
    <3> QED BY <2>1, <3>2
  <2> QED BY <1>5, <2>2
<1> QED BY <1>1, <1>2, <1>7, <1>8, <1>9, <1>10, <1>11, <1>12, <1>13

(* t is the tree in memory after node n was hashed and its parent's flag turned. *)
Turned(t, n) ==
  /\ t.counter = ht.counter /\ t.max = ht.max /\ t.len = ht.len /\ t.dirty = ht.dirty
  /\ t \in [counter : Nat, max : 0 .. MaxNode, len : 0 .. 2 * MaxNode, dirty : BOOLEAN,
            node : {t.node}]
  /\ t.node = [m \in 1 .. Size |-> t.node[m]]
  /\ \A m \in 1 .. Size : IsNode(t.node[m])
  /\ \A m \in 1 .. Size : m # n /\ (m # n \div 2 \/ n = 1) => t.node[m] = ht.node[m]
  /\ t.node[n].blk = ht.node[n].blk /\ t.node[n].child = ht.node[n].child
  /\ t.node[n].tag = ht.node[n].tag /\ ~t.node[n].dirty /\ ~t.node[n].updated
  /\ t.node[n].hash = CalcNodeHash(t.node, n, ht.len)
  /\ n # 1 =>
       /\ t.node[n \div 2].blk = ht.node[n \div 2].blk
       /\ t.node[n \div 2].tag = ht.node[n \div 2].tag
       /\ t.node[n \div 2].hash = ht.node[n \div 2].hash
       /\ t.node[n \div 2].updated = ht.node[n \div 2].updated
       /\ t.node[n \div 2].dirty
       /\ t.node[n \div 2].child[n % 2] = 1 - ht.node[n \div 2].child[n % 2]
       /\ t.node[n \div 2].child[1 - (n % 2)] = ht.node[n \div 2].child[1 - (n % 2)]

(* The nodes with node n hashed, as SyncNode writes them. *)
Hashed(nodes, n) ==
  [nodes EXCEPT ![n] = [nodes[n] EXCEPT !.hash = CalcNodeHash(nodes, n, ht.len),
                                        !.dirty = FALSE, !.updated = FALSE]]

(* g is the nodes in memory with the flag of n's parent turned. *)
ParentIs(g, n) ==
  /\ g = [m \in 1 .. Size |-> g[m]] /\ \A m \in 1 .. Size : IsNode(g[m])
  /\ \A m \in 1 .. Size : m # n \div 2 \/ n = 1 => g[m] = ht.node[m]
  /\ n # 1 =>
       /\ n \div 2 \in 1 .. Size
       /\ g[n \div 2].blk = ht.node[n \div 2].blk /\ g[n \div 2].tag = ht.node[n \div 2].tag
       /\ g[n \div 2].hash = ht.node[n \div 2].hash
       /\ g[n \div 2].updated = ht.node[n \div 2].updated /\ g[n \div 2].dirty
       /\ g[n \div 2].child[n % 2] = 1 - ht.node[n \div 2].child[n % 2]
       /\ g[n \div 2].child[1 - (n % 2)] = ht.node[n \div 2].child[1 - (n % 2)]

(* What turning the parent's flag makes of the nodes. *)
LEMMA ParentTurned ==
  ASSUME TreeType, NEW n \in 1 .. Size, NEW g, g = TurnParentFlag(ht, n)
  PROVE  ParentIs(g, n)
<1>1. Size \in 1 .. MaxNode /\ MaxNode \in Nat /\ n \in Nat
  BY TreeFacts, Consts
<1>2. /\ ht.node = [m \in 1 .. Size |-> ht.node[m]] /\ \A m \in 1 .. Size : IsNode(ht.node[m])
  BY DEF TreeType
<1>3. CASE n = 1
  BY <1>2, <1>3 DEF TurnParentFlag, ParentIs
<1>4. CASE n # 1
  <2>1. PICK p, q : p = n \div 2 /\ q = n % 2
    OBVIOUS
  <2>2. p \in 1 .. Size /\ q \in 0 .. 1
    BY <1>1, <1>4, <2>1, Half
  <2>3. PICK r : r = ht.node[p]
    OBVIOUS
  <2>4. r \in [blk : 0 .. 1, child : Flags, tag : 0 .. changes, hash : {r.hash},
               dirty : BOOLEAN, updated : BOOLEAN]
    BY <1>2, <2>2, <2>3 DEF IsNode
  <2>5. PICK k : k = [r.child EXCEPT ![q] = 1 - @]
    OBVIOUS
  <2>6. k \in Flags /\ k[q] = 1 - r.child[q] /\ k[1 - q] = r.child[1 - q]
    <3>1. r.child \in [0 .. 1 -> 0 .. 1]
      BY <2>4 DEF Flags
    <3> QED BY <2>2, <2>5, <3>1 DEF Flags
  <2>7. PICK s : s = [r EXCEPT !.dirty = TRUE, !.child = k]
    OBVIOUS
  <2>8. /\ s.blk = r.blk /\ s.tag = r.tag /\ s.hash = r.hash /\ s.updated = r.updated
        /\ s.dirty = TRUE /\ s.child = k
        /\ s \in [blk : 0 .. 1, child : Flags, tag : 0 .. changes, hash : {s.hash},
                  dirty : BOOLEAN, updated : BOOLEAN]
    BY <2>4, <2>6, <2>7
  <2>9. g = [ht.node EXCEPT ![p].dirty = TRUE, ![p].child[q] = 1 - @]
    BY <1>4, <2>1 DEF TurnParentFlag
  <2>10. g = [ht.node EXCEPT ![p] = s]
    <3>1. PICK a : a = [r EXCEPT !.dirty = TRUE]
      OBVIOUS
    <3>2. PICK G : G = [ht.node EXCEPT ![p] = a]
      OBVIOUS
    <3>3. G = [ht.node EXCEPT ![p].dirty = TRUE]
      BY <2>3, <3>1, <3>2
    <3>4. g = [G EXCEPT ![p].child[q] = 1 - @]
      <4>1. g = [[ht.node EXCEPT ![p].dirty = TRUE] EXCEPT ![p].child[q] = 1 - @]
        <5>1. PICK F : F = ht.node
          OBVIOUS
        <5>2. g = [F EXCEPT ![p].dirty = TRUE, ![p].child[q] = 1 - @]
          BY <2>9, <5>1
        <5>3. g = [[F EXCEPT ![p].dirty = TRUE] EXCEPT ![p].child[q] = 1 - @]
          BY <5>2
        <5> QED BY <5>1, <5>3
      <4> QED BY <3>3, <4>1, Zenon
    <3>5. G[p] = a
      BY <1>2, <2>2, <3>2
    <3>6. a.child = r.child
      BY <2>4, <3>1
    <3>7. [a EXCEPT !.child = k] = s
      BY <2>4, <2>7, <3>1
    <3>8. g = [G EXCEPT ![p] = [a EXCEPT !.child = k]]
      BY <2>5, <3>4, <3>5, <3>6
    <3> QED BY <1>2, <2>2, <3>2, <3>7, <3>8
  <2>11. g[p] = s /\ \A m \in 1 .. Size : m # p => g[m] = ht.node[m]
    BY <1>2, <2>2, <2>10
  <2>12. g = [m \in 1 .. Size |-> g[m]]
    BY <1>2, <2>10
  <2>13. IsNode(s)
    BY <2>8 DEF IsNode
  <2>14. \A m \in 1 .. Size : IsNode(g[m])
    BY <1>2, <2>11, <2>13
  <2> QED BY <1>4, <2>1, <2>2, <2>3, <2>6, <2>8, <2>11, <2>12, <2>14 DEF ParentIs
<1> QED BY <1>3, <1>4

(* What the visit of a dirty node makes of the tree in memory. *)
LEMMA NodeWritten ==
  ASSUME TreeType, NEW n \in 1 .. Size, NEW t,
         t = [ht EXCEPT !.node = Hashed(TurnParentFlag(ht, n), n)]
  PROVE  Turned(t, n)
<1>1. Size \in 1 .. MaxNode /\ MaxNode \in Nat /\ n \in Nat
  BY TreeFacts, Consts
<1>2. PICK g : g = TurnParentFlag(ht, n)
  OBVIOUS
<1>3. /\ g = [m \in 1 .. Size |-> g[m]] /\ \A m \in 1 .. Size : IsNode(g[m])
      /\ \A m \in 1 .. Size : m # n \div 2 \/ n = 1 => g[m] = ht.node[m]
      /\ n # 1 =>
           /\ n \div 2 \in 1 .. Size
           /\ g[n \div 2].blk = ht.node[n \div 2].blk /\ g[n \div 2].tag = ht.node[n \div 2].tag
           /\ g[n \div 2].hash = ht.node[n \div 2].hash
           /\ g[n \div 2].updated = ht.node[n \div 2].updated /\ g[n \div 2].dirty
           /\ g[n \div 2].child[n % 2] = 1 - ht.node[n \div 2].child[n % 2]
           /\ g[n \div 2].child[1 - (n % 2)] = ht.node[n \div 2].child[1 - (n % 2)]
  <2>1. ParentIs(g, n)
    BY <1>2, ParentTurned
  <2> QED BY <2>1, Zenon DEF ParentIs
<1>4. PICK h : h = CalcNodeHash(g, n, ht.len)
  OBVIOUS
<1>5. PICK s : s = [g[n] EXCEPT !.hash = h, !.dirty = FALSE, !.updated = FALSE]
  OBVIOUS
<1>6. PICK f : f = [g EXCEPT ![n] = s]
  OBVIOUS
<1>7. f = Hashed(g, n)
  BY <1>4, <1>5, <1>6 DEF Hashed
<1>8. /\ s.blk = g[n].blk /\ s.child = g[n].child /\ s.tag = g[n].tag /\ s.hash = h
      /\ s.dirty = FALSE /\ s.updated = FALSE /\ IsNode(s)
  <2>1. PICK r : r = g[n]
    OBVIOUS
  <2>2. r \in [blk : 0 .. 1, child : Flags, tag : 0 .. changes, hash : {r.hash},
               dirty : BOOLEAN, updated : BOOLEAN]
    BY <1>3, <2>1 DEF IsNode
  <2>3. s = [r EXCEPT !.hash = h, !.dirty = FALSE, !.updated = FALSE]
    BY <1>5, <2>1
  <2>4. /\ s.blk = r.blk /\ s.child = r.child /\ s.tag = r.tag /\ s.hash = h
        /\ s.dirty = FALSE /\ s.updated = FALSE
        /\ s \in [blk : 0 .. 1, child : Flags, tag : 0 .. changes, hash : {s.hash},
                  dirty : BOOLEAN, updated : BOOLEAN]
    BY <2>2, <2>3
  <2> QED BY <2>1, <2>4 DEF IsNode
<1>9. /\ f = [m \in 1 .. Size |-> f[m]] /\ f[n] = s
      /\ \A m \in 1 .. Size : m # n => f[m] = g[m]
  BY <1>3, <1>6
<1>10. \A m \in 1 .. Size : IsNode(f[m])
  BY <1>3, <1>8, <1>9
<1>11. n # n \div 2 \/ n = 1
  BY <1>1
<1>12. g[n] = ht.node[n]
  BY <1>3, <1>11
<1>13. h = CalcNodeHash(f, n, ht.len)
  <2>1. DOMAIN f = 1 .. Size /\ DOMAIN g = 1 .. Size
    <3>1. DOMAIN [m \in 1 .. Size |-> f[m]] = 1 .. Size /\ DOMAIN [m \in 1 .. Size |-> g[m]] = 1 .. Size
      OBVIOUS
    <3> QED BY <1>3, <1>9, <3>1, Zenon
  <2>2. \A m \in Kids(n) : m \in 1 .. Size => f[m].hash = g[m].hash
    <3>1. \A m \in Kids(n) : m # n
      BY <1>1 DEF Kids
    <3> QED BY <1>9, <3>1
  <2>3. f[n].blk = g[n].blk /\ f[n].child = g[n].child /\ f[n].tag = g[n].tag
    BY <1>8, <1>9
  <2>4. \A m \in Kids(n) : m <= Size <=> m <= Size
    OBVIOUS
  <2>5. CalcNodeHash(f, n, ht.len) = CalcNodeHash(g, n, ht.len)
    <3>1. Agree(f, g, Size, Size, n)
      BY <2>1, <2>2, <2>3 DEF Agree
    <3> QED BY <1>1, <3>1, HashSame
  <2> QED BY <1>4, <2>5
<1>14. t = [ht EXCEPT !.node = f]
  BY <1>2, <1>7
<1>15. /\ t.counter = ht.counter /\ t.max = ht.max /\ t.len = ht.len /\ t.dirty = ht.dirty
       /\ t.node = f
       /\ t \in [counter : Nat, max : 0 .. MaxNode, len : 0 .. 2 * MaxNode, dirty : BOOLEAN,
                 node : {t.node}]
  <2>1. ht \in [counter : Nat, max : 0 .. MaxNode, len : 0 .. 2 * MaxNode, dirty : BOOLEAN,
                 node : {ht.node}]
    BY DEF TreeType
  <2> QED BY <1>14, <2>1
<1>16. \A m \in 1 .. Size : m # n /\ (m # n \div 2 \/ n = 1) => f[m] = ht.node[m]
  BY <1>3, <1>9
<1>17. n # 1 => f[n \div 2] = g[n \div 2]
  BY <1>1, <1>3, <1>9, <1>11
<1>18. /\ f[n].blk = ht.node[n].blk /\ f[n].child = ht.node[n].child
       /\ f[n].tag = ht.node[n].tag /\ ~f[n].dirty /\ ~f[n].updated
       /\ f[n].hash = CalcNodeHash(f, n, ht.len)
  BY <1>8, <1>9, <1>12, <1>13
<1>19. n # 1 =>
       /\ f[n \div 2].blk = ht.node[n \div 2].blk
       /\ f[n \div 2].tag = ht.node[n \div 2].tag
       /\ f[n \div 2].hash = ht.node[n \div 2].hash
       /\ f[n \div 2].updated = ht.node[n \div 2].updated
       /\ f[n \div 2].dirty
       /\ f[n \div 2].child[n % 2] = 1 - ht.node[n \div 2].child[n % 2]
       /\ f[n \div 2].child[1 - (n % 2)] = ht.node[n \div 2].child[1 - (n % 2)]
  BY <1>3, <1>17, Zenon
<1> QED BY <1>9, <1>10, <1>15, <1>16, <1>18, <1>19, Zenon DEF Turned

(* Image v of node n is the node in memory; nothing else of the file changed. *)
(* The image of node n was written to its version v. *)
Stored(n, v) ==
  /\ node'[n][v] = Image(ht'.node[n])
  /\ node'[n][1 - v] = node[n][1 - v]
  /\ \A m \in 1 .. MaxNode : m # n => node'[m] = node[m]

(* htree_sync_node_to_storage of the first node that waits. *)
LEMMA Visit ==
  ASSUME SyncNode, TreeType, NEW n, n = Head(todo), n \in 1 .. Size
  PROVE  /\ ht.node[n].dirty =>
              /\ Turned(ht', n)
              /\ node' = [node EXCEPT ![n][NewVersion(ht, n)] = Image(ht'.node[n])]
              /\ file' = "data"
         /\ ~ht.node[n].dirty => UNCHANGED <<ht, node, file>>
<1>1. ASSUME ht.node[n].dirty
      PROVE  /\ ht' = [ht EXCEPT !.node = Hashed(TurnParentFlag(ht, n), n)]
             /\ node' = [node EXCEPT ![n][NewVersion(ht, n)] =
                   Image([TurnParentFlag(ht, n)[n] EXCEPT
                            !.hash = CalcNodeHash(TurnParentFlag(ht, n), n, ht.len),
                            !.dirty = FALSE, !.updated = FALSE])]
             /\ file' = "data"
  BY <1>1, Zenon DEF SyncNode, Hashed
<1>2. ~ht.node[n].dirty => UNCHANGED <<ht, node, file>>
  BY DEF SyncNode
<1>3. ASSUME ht.node[n].dirty
      PROVE  Turned(ht', n) /\ node' = [node EXCEPT ![n][NewVersion(ht, n)] = Image(ht'.node[n])]
  <2>1. Turned(ht', n)
    BY <1>1, <1>3, NodeWritten
  <2>2. PICK g : g = TurnParentFlag(ht, n)
    OBVIOUS
  <2>3. PICK s : s = [g[n] EXCEPT !.hash = CalcNodeHash(g, n, ht.len),
                                  !.dirty = FALSE, !.updated = FALSE]
    OBVIOUS
  <2>4. ParentIs(g, n)
    BY <2>2, ParentTurned
  <2>5. g = [m \in 1 .. Size |-> g[m]]
    BY <2>4 DEF ParentIs
  <2>6. Hashed(g, n) = [g EXCEPT ![n] = s]
    BY <2>3, Zenon DEF Hashed
  <2>7. Hashed(g, n)[n] = s
    BY <2>5, <2>6
  <2>8. ht'.node = Hashed(g, n)
    <3>1. PICK x : x = Hashed(g, n)
      OBVIOUS
    <3>2. ht' = [ht EXCEPT !.node = x]
      BY <1>1, <1>3, <2>2, <3>1
    <3>3. ht \in [counter : Nat, max : 0 .. MaxNode, len : 0 .. 2 * MaxNode, dirty : BOOLEAN,
             node : {ht.node}]
      BY DEF TreeType
    <3> QED BY <3>1, <3>2, <3>3
  <2>9. ht'.node[n] = s
    BY <2>7, <2>8
  <2>10. node' = [node EXCEPT ![n][NewVersion(ht, n)] = Image(s)]
    BY <1>1, <1>3, <2>2, <2>3, Zenon
  <2> QED BY <2>1, <2>9, <2>10
<1> QED BY <1>1, <1>2, <1>3

(* The fields of the image of a node. *)
LEMMA ImageIs ==
  ASSUME NEW r, IsNode(r)
  PROVE  /\ IsImage(Image(r)) /\ Image(r).blk = r.blk /\ Image(r).child = r.child
         /\ Image(r).tag = r.tag /\ Image(r).hash = r.hash
BY DEF IsNode, IsImage, Image

(* An image is known by its fields. *)
LEMMA SameImage ==
  ASSUME NEW r, IsNode(r), NEW m, IsImage(m), r.blk = m.blk, r.child = m.child, r.tag = m.tag,
         r.hash = m.hash
  PROVE  Image(r) = m
BY DEF IsNode, IsImage, Image

(* Writing an image of a node changes no other image. *)
LEMMA Stores ==
  ASSUME DiskType, TreeType, NEW n \in 1 .. Size, NEW v \in 0 .. 1, Turned(ht', n),
         node' = [node EXCEPT ![n][v] = Image(ht'.node[n])],
         UNCHANGED <<mode, changes, head, blk>>, file' = "data"
  PROVE  Stored(n, v) /\ DiskType' /\ IsNode(ht'.node[n])
<1>1. Size \in 1 .. MaxNode /\ MaxNode \in Nat /\ n \in 1 .. MaxNode
  BY TreeFacts, Consts
<1>2. IsNode(ht'.node[n])
  BY DEF Turned
<1>3. PICK x : x = Image(ht'.node[n])
  OBVIOUS
<1>4. IsImage(x)
  BY <1>2, <1>3, ImageIs
<1>5. /\ node = [m \in 1 .. MaxNode |-> [y \in 0 .. 1 |-> node[m][y]]]
      /\ \A m \in 1 .. MaxNode : \A y \in 0 .. 1 : IsImage(node[m][y])
  BY DEF DiskType
<1>6. node' = [node EXCEPT ![n][v] = x]
  BY <1>3
<1>7. PICK a : a = [node[n] EXCEPT ![v] = x]
  OBVIOUS
<1>8. node' = [node EXCEPT ![n] = a]
  BY <1>6, <1>7
<1>9. node[n] = [y \in 0 .. 1 |-> node[n][y]]
  BY <1>1, <1>5
<1>10. a[v] = x /\ a[1 - v] = node[n][1 - v] /\ a = [y \in 0 .. 1 |-> a[y]]
  <2>1. PICK b : b = node[n]
    OBVIOUS
  <2>2. b = [y \in 0 .. 1 |-> b[y]] /\ a = [b EXCEPT ![v] = x]
    BY <1>7, <1>9, <2>1
  <2>3. 1 - v # v /\ 1 - v \in 0 .. 1
    OBVIOUS
  <2>4. a[v] = x /\ a[1 - v] = b[1 - v]
    BY <2>2, <2>3
  <2>5. a = [y \in 0 .. 1 |-> a[y]]
    BY <2>2
  <2> QED BY <2>1, <2>4, <2>5
<1>11. node'[n] = a /\ \A m \in 1 .. MaxNode : m # n => node'[m] = node[m]
  BY <1>1, <1>5, <1>8
<1>12. Stored(n, v)
  BY <1>3, <1>10, <1>11 DEF Stored
<1>13. \A m \in 1 .. MaxNode : node'[m] = [y \in 0 .. 1 |-> node'[m][y]]
  <2> SUFFICES ASSUME NEW m \in 1 .. MaxNode PROVE node'[m] = [y \in 0 .. 1 |-> node'[m][y]]
    OBVIOUS
  <2>1. CASE m = n
    BY <1>10, <1>11, <2>1
  <2>2. CASE m # n
    <3>1. node[m] = [y \in 0 .. 1 |-> node[m][y]]
      BY <1>5
    <3> QED BY <1>11, <2>2, <3>1
  <2> QED BY <2>1, <2>2
<1>14. node' = [m \in 1 .. MaxNode |-> [y \in 0 .. 1 |-> node'[m][y]]]
  <2>1. node' = [m \in 1 .. MaxNode |-> node'[m]]
    BY <1>5, <1>8
  <2> QED BY <1>13, <2>1
<1>15. \A m \in 1 .. MaxNode : \A y \in 0 .. 1 : IsImage(node'[m][y])
  <2>1. \A y \in 0 .. 1 : y = v \/ y = 1 - v
    OBVIOUS
  <2>2. \A y \in 0 .. 1 : IsImage(a[y])
    BY <1>1, <1>4, <1>5, <1>10, <2>1
  <2> QED BY <1>5, <1>11, <2>2
<1>16. DiskType'
  <2>1. \A m \in 1 .. MaxNode : \A y \in 0 .. 1 : IsImage(node[m][y])'
    BY <1>15 DEF IsImage
  <2>2. \A y \in 0 .. 1 : IsHead(head[y])'
    BY DEF DiskType, IsHead
  <2> QED BY <1>14, <2>1, <2>2 DEF DiskType
<1> QED BY <1>2, <1>12, <1>16

(* Writing the root of a new file keeps the invariant. *)
LEMMA CreateNodeStep ==
  ASSUME Inv, SyncNode, pc = "create"
  PROVE  Inv'
<1>1. /\ UNCHANGED <<mode, head, blk, trusted, pc, changes>> /\ todo # << >> /\ todo' = Tail(todo)
  BY DEF SyncNode
<1>2. DiskInv /\ DiskType /\ TreeType /\ Creating /\ mode \in {"hash", "counter"}
  BY DEF Inv, DiskInv, MemInv, DiskType
<1>3. todo = <<1>> /\ ht = NewTree /\ ~Exists /\ node[1][0].hash = << >> /\ head[0].counter = 0
  BY <1>1, <1>2 DEF Creating
<1>4. Head(todo) = 1 /\ todo' = << >>
  BY <1>1, <1>3
<1>5. /\ ht.counter = 0 /\ ht.max = 0 /\ ht.len = 0 /\ ht.node[1].dirty
  BY <1>3 DEF NewTree, NewNode
<1>6. Size = 1
  BY <1>5 DEF Size, Max2
<1>7. /\ Turned(ht', 1) /\ file' = "data"
      /\ node' = [node EXCEPT ![1][NewVersion(ht, 1)] = Image(ht'.node[1])]
  BY <1>2, <1>4, <1>5, <1>6, Visit
<1>8. NewVersion(ht, 1) = 1
  BY <1>5 DEF NewVersion
<1>9. Stored(1, 1) /\ DiskType'
  <2>1. 1 \in 1 .. Size /\ 1 \in 0 .. 1
    BY <1>6
  <2>2. node' = [node EXCEPT ![1][1] = Image(ht'.node[1])]
    BY <1>7, <1>8
  <2> QED BY <1>1, <1>2, <1>7, <2>1, <2>2, Stores
<1>10. node'[1][1] = Image(ht'.node[1]) /\ node'[1][0].hash = << >>
  BY <1>3, <1>9 DEF Stored
<1>11. /\ ht'.counter = 0 /\ ht'.max = 0 /\ ht'.len = 0 /\ ~ht'.node[1].dirty /\ ~ht'.node[1].updated
       /\ ht'.node[1].hash = CalcNodeHash(ht'.node, 1, 0)
  BY <1>5, <1>7 DEF Turned
<1>12. TreeType'
  <2>1. Size' = 1
    BY <1>11 DEF Size, Max2
  <2>2. \A m \in 1 .. 1 : IsNode(ht.node[m])'
    BY <1>1, <1>6, <1>7 DEF Turned, IsNode
  <2>3. /\ ht' \in [counter : Nat, max : 0 .. MaxNode, len : 0 .. 2 * MaxNode, dirty : BOOLEAN,
            node : {ht'.node}]
        /\ ht'.node = [m \in 1 .. 1 |-> ht'.node[m]]
    BY <1>6, <1>7 DEF Turned
  <2> QED BY <2>1, <2>2, <2>3 DEF TreeType
<1>13. ~Exists'
  BY <1>1, <1>3 DEF Exists
<1>14. Creating'
  BY <1>1, <1>3, <1>4, <1>7, <1>10, <1>11, <1>13 DEF Creating
<1>15. DiskInv'
  BY <1>1, <1>2, <1>3, <1>9, <1>10, <1>13 DEF DiskInv
<1> QED BY <1>1, <1>12, <1>14, <1>15 DEF Inv, MemInv

(* Only the root's hash covers the length. *)
LEMMA HashLen ==
  ASSUME NEW f, NEW n, n # 1, NEW l, NEW k
  PROVE  CalcNodeHash(f, n, l) = CalcNodeHash(f, n, k)
BY Zenon DEF CalcNodeHash

(* The image that a node in memory is based on. *)
LEMMA BaseFacts ==
  ASSUME DiskType, TreeType, NEW c, Tree(Cur, c), NEW n \in 1 .. Size, n <= SizeOf(Cur)
  PROVE  /\ n \in 1 .. SizeOf(Cur) /\ n \in 1 .. MaxNode /\ c[n] \in 0 .. 1
         /\ IsImage(node[n][c[n]]) /\ node[n][c[n]].child \in Flags
         /\ n = 1 => c[n] = Cur
         /\ n # 1 => n \div 2 \in 1 .. SizeOf(Cur) /\ n \div 2 \in 1 .. Size
                     /\ c[n] = node[n \div 2][c[n \div 2]].child[n % 2]
<1>1. Cur \in 0 .. 1 /\ Size \in 1 .. MaxNode /\ SizeOf(Cur) \in 1 .. MaxNode /\ MaxNode \in Nat
  BY TreeFacts, HeadFacts, Consts
<1>2. n \in 1 .. SizeOf(Cur) /\ n \in 1 .. MaxNode
  BY <1>1
<1>3. c \in [1 .. SizeOf(Cur) -> 0 .. 1] /\ c[1] = Cur
  BY Zenon DEF Tree
<1>4. c[n] \in 0 .. 1
  BY <1>2, <1>3
<1>5. IsImage(node[n][c[n]])
  BY <1>2, <1>4 DEF DiskType
<1>6. node[n][c[n]].child \in Flags
  BY <1>2, <1>4, ImageFacts
<1>7. ASSUME n # 1
      PROVE  /\ n \div 2 \in 1 .. SizeOf(Cur) /\ n \div 2 \in 1 .. Size
             /\ c[n] = node[n \div 2][c[n \div 2]].child[n % 2]
  <2>1. n \in 2 .. SizeOf(Cur)
    BY <1>1, <1>2, <1>7
  <2>2. n \div 2 \in 1 .. SizeOf(Cur) /\ n \div 2 \in 1 .. Size
    BY <1>1, <2>1, Half
  <2> QED BY <2>1, <2>2 DEF Tree
<1> QED BY <1>2, <1>3, <1>4, <1>5, <1>6, <1>7

(* The flag for a node that is to be visited is the one of its base. *)
LEMMA FlagOf ==
  ASSUME DiskType, TreeType, NEW c, Tree(Cur, c), Syncing(c), todo # << >>, NEW n, n = Head(todo),
         n # 1, n \div 2 <= SizeOf(Cur)
  PROVE  ht.node[n \div 2].child[n % 2] = node[n \div 2][c[n \div 2]].child[n % 2]
<1>1. Size \in Nat /\ Order(todo)
  BY TreeFacts, Consts DEF Syncing
<1>2. n \in 1 .. Size /\ n \in Pending /\ n \div 2 \in Pending
  BY <1>1, FirstOf
<1>3. Unsynced(c, n \div 2)
  BY <1>2 DEF Syncing
<1>4. n \in Kids(n \div 2)
  BY <1>2, Half
<1> QED BY <1>2, <1>3, <1>4, Zenon DEF Unsynced

(* A node that is not dirty needs no visit: its image in the file is right. *)
LEMMA SkipNode ==
  ASSUME DiskType, TreeType, NEW c, Tree(Cur, c), Syncing(c), todo # << >>, NEW n, n = Head(todo),
         ~ht.node[n].dirty
  PROVE  n # 1 /\ n <= SizeOf(Cur) /\ ht.node[n].hash = node[n][c[n]].hash /\ Synced(n)
<1>1. /\ Cur \in 0 .. 1 /\ Size \in 1 .. MaxNode /\ SizeOf(Cur) \in 1 .. MaxNode /\ MaxNode \in Nat
      /\ Size \in Nat /\ Order(todo)
  BY TreeFacts, HeadFacts, Consts DEF Syncing
<1>2. /\ n \in 1 .. Size /\ n \in Pending
      /\ \A m \in Kids(n) : m \notin Pending
      /\ n = 1 => Pending = {1}
  BY <1>1, FirstOf
<1>3. Unsynced(c, n)
  BY <1>2 DEF Syncing
<1>4. ~Differs(c, n) /\ ~ht.node[n].updated
  BY <1>3 DEF Unsynced
<1>5. n # 1
  <2> SUFFICES ASSUME n = 1 PROVE FALSE
    OBVIOUS
  <2>1. PICK m \in Pending : Differs(c, m)
    BY DEF Syncing
  <2> QED BY <1>2, <1>4, <2>1
<1>6. n <= SizeOf(Cur)
  BY <1>1, <1>2, <1>4 DEF Differs
<1>7. PICK r : r = node[n][c[n]]
  OBVIOUS
<1>8. ht.node[n].tag = r.tag /\ ht.node[n].child = r.child /\ ht.node[n].blk = r.blk
  BY <1>3, <1>4, <1>6, <1>7 DEF Differs, Unsynced, Block
<1>9. /\ ht.node[n].hash = r.hash
      /\ \A m \in Kids(n) :
              /\ m <= SizeOf(Cur) => m <= Size
              /\ m \in 1 .. Size \ Pending =>
                    m <= SizeOf(Cur) /\ ht.node[m].hash = node[m][c[m]].hash
  BY <1>3, <1>7, Zenon DEF Unsynced
<1>10. /\ n \in 1 .. SizeOf(Cur) /\ IsImage(r)
       /\ c[n] = node[n \div 2][c[n \div 2]].child[n % 2] /\ n \div 2 <= SizeOf(Cur)
  <2>1. n \in 1 .. SizeOf(Cur) /\ IsImage(r) /\ n \div 2 \in 1 .. SizeOf(Cur)
        /\ c[n] = node[n \div 2][c[n \div 2]].child[n % 2]
    BY <1>2, <1>5, <1>6, <1>7, BaseFacts
  <2> QED BY <1>1, <2>1
<1>11. r.hash = CalcNodeHash(Loaded(Cur, c), n, head[Cur].len)
  BY <1>7, <1>10 DEF Tree
<1>12. CalcNodeHash(Loaded(Cur, c), n, head[Cur].len) = CalcNodeHash(ht.node, n, ht.len)
  <2>1. PICK g : g = Loaded(Cur, c)
    OBVIOUS
  <2>2. DOMAIN g = 1 .. SizeOf(Cur) /\ \A m \in 1 .. SizeOf(Cur) : g[m] = node[m][c[m]]
    BY <2>1 DEF Loaded
  <2>3. DOMAIN ht.node = 1 .. Size
    BY TreeFacts DEF Nodes
  <2>4. \A m \in Kids(n) : m \in Nat /\ m >= 1
    BY <1>2 DEF Kids
  <2>5. \A m \in Kids(n) : m <= Size <=> m <= SizeOf(Cur)
    BY <1>1, <1>2, <1>9, <2>4
  <2>6. \A m \in Kids(n) : m \in 1 .. Size => ht.node[m].hash = g[m].hash
    BY <1>1, <1>2, <1>9, <2>2, <2>4
  <2>7. Agree(ht.node, g, Size, SizeOf(Cur), n)
    BY <1>2, <1>7, <1>8, <1>10, <2>2, <2>3, <2>5, <2>6 DEF Agree
  <2>8. SizeOf(Cur) \in Nat
    BY <1>1
  <2>9. CalcNodeHash(ht.node, n, ht.len) = CalcNodeHash(g, n, ht.len)
    BY <1>1, <2>7, <2>8, HashSame
  <2>10. CalcNodeHash(g, n, ht.len) = CalcNodeHash(g, n, head[Cur].len)
    BY <1>5, HashLen
  <2> QED BY <2>1, <2>9, <2>10
<1>13. Image(ht.node[n]) = r
  <2>1. IsNode(ht.node[n])
    BY <1>2 DEF TreeType
  <2> QED BY <1>8, <1>9, <1>10, <2>1, SameImage
<1>14. ht.node[n \div 2].child[n % 2] = c[n]
  BY <1>5, <1>10, FlagOf
<1>15. Synced(n)
  BY <1>4, <1>5, <1>7, <1>9, <1>11, <1>12, <1>13, <1>14 DEF Synced
<1> QED BY <1>5, <1>6, <1>7, <1>9, <1>15

(* Passing it keeps the invariant of the sync. *)
LEMMA Skipped ==
  ASSUME DiskType, TreeType, NEW c, Tree(Cur, c), Syncing(c), todo # << >>, NEW n, n = Head(todo),
         ~ht.node[n].dirty, todo' = Tail(todo), UNCHANGED <<head, node, ht>>
  PROVE  Syncing(c)'
<1>1. /\ Cur' = Cur /\ Size' = Size /\ SizeOf(Cur)' = SizeOf(Cur)
      /\ \A m : Differs(c, m)' = Differs(c, m) /\ Synced(m)' = Synced(m)
      /\ \A m, r : Block(m, r)' = Block(m, r)
  <2>1. Cur' = Cur /\ Size' = Size /\ SizeOf(Cur)' = SizeOf(Cur)
    BY DEF Cur, Size, SizeOf
  <2> QED BY <2>1 DEF Differs, Synced, Block
<1>2. n # 1 /\ n <= SizeOf(Cur) /\ ht.node[n].hash = node[n][c[n]].hash /\ Synced(n)
  BY SkipNode
<1>3. /\ Size \in Nat /\ Order(todo)
  BY TreeFacts, Consts DEF Syncing
<1>4. /\ n \in 1 .. Size /\ n \in Pending
      /\ Elements(Tail(todo)) = Pending \ {n} /\ Order(Tail(todo))
  BY <1>3, FirstOf
<1>5. Order(todo)'
  BY <1>1, <1>4 DEF Order
<1>6. Pending' = Pending \ {n}
  BY <1>4 DEF Pending
<1>7. ASSUME NEW m \in Pending \ {n} PROVE Unsynced(c, m)'
  <2>1. Unsynced(c, m)
    BY <1>7 DEF Syncing
  <2>2. Block(m, node[m][c[m]])' = Block(m, node[m][c[m]])
    BY <1>1
  <2>3. /\ ht.node[m].updated => ht.node[m].dirty
        /\ Differs(c, m) => ht.node[m].dirty
        /\ m <= SizeOf(Cur) => Block(m, node[m][c[m]])
        /\ m <= SizeOf(Cur) => \A k \in Kids(m) :
             k \notin 1 .. Size \/ k \in Pending \ {n} =>
                ht.node[m].child[k % 2] = node[m][c[m]].child[k % 2]
    BY <2>1 DEF Unsynced
  <2>4. ASSUME ~ht.node[m].dirty
        PROVE  /\ ht.node[m].hash = node[m][c[m]].hash
               /\ \A k \in Kids(m) :
                    /\ k <= SizeOf(Cur) => k <= Size
                    /\ k \in 1 .. Size \ (Pending \ {n}) =>
                        k <= SizeOf(Cur) /\ ht.node[k].hash = node[k][c[k]].hash
    BY <1>2, <2>1, <2>4 DEF Unsynced
  <2> QED BY <1>1, <1>6, <2>2, <2>3, <2>4 DEF Unsynced
<1>8. ASSUME NEW m \in 1 .. Size \ Pending' PROVE Synced(m)
  <2>1. m = n \/ m \in 1 .. Size \ Pending
    BY <1>6, <1>8
  <2> QED BY <1>2, <2>1 DEF Syncing
<1>9. \E m \in Pending' : Differs(c, m)'
  <2>1. PICK m \in Pending : Differs(c, m)
    BY DEF Syncing
  <2>2. ht.node[m].dirty
    BY <2>1 DEF Syncing, Unsynced
  <2>3. m # n
    BY <2>2
  <2> QED BY <1>1, <1>6, <2>1, <2>3
<1>10. (head[Cur].counter = ht.counter)'
  BY <1>1 DEF Syncing
<1>11. \A m \in Pending' : Unsynced(c, m)'
  BY <1>6, <1>7
<1>12. \A m \in (1 .. Size \ Pending)' : Synced(m)'
  BY <1>1, <1>8
<1> QED BY <1>5, <1>9, <1>10, <1>11, <1>12 DEF Syncing

(* What a sync writes is not an image of its base. *)
LEMMA OtherVersion ==
  ASSUME DiskType, TreeType, NEW c, Tree(Cur, c), Syncing(c), todo # << >>, NEW n, n = Head(todo)
  PROVE  /\ n \in 1 .. Size /\ NewVersion(ht, n) \in 0 .. 1
         /\ n <= SizeOf(Cur) => NewVersion(ht, n) = 1 - c[n]
<1>1. /\ Cur \in 0 .. 1 /\ Size \in 1 .. MaxNode /\ SizeOf(Cur) \in 1 .. MaxNode /\ MaxNode \in Nat
      /\ Size \in Nat /\ Order(todo)
  BY TreeFacts, HeadFacts, Consts DEF Syncing
<1>2. n \in 1 .. Size
  BY <1>1, FirstOf
<1>3. CASE n = 1
  <2>1. NewVersion(ht, n) = 1 - Cur
    BY <1>3 DEF NewVersion, Cur
  <2>2. c[1] = Cur
    BY Zenon DEF Tree
  <2> QED BY <1>1, <1>2, <1>3, <2>1, <2>2
<1>4. CASE n # 1
  <2>1. PICK p, q : p = n \div 2 /\ q = n % 2
    OBVIOUS
  <2>2. p \in 1 .. Size /\ q \in 0 .. 1 /\ p < n
    <3>1. n \in Nat /\ n > 1
      BY <1>2, <1>4
    <3>2. p \in Nat /\ p >= 1 /\ p < n /\ q \in 0 .. 1
      BY <2>1, <3>1, Half
    <3> QED BY <1>1, <1>2, <3>2
  <2>3. NewVersion(ht, n) = 1 - ht.node[p].child[q]
    BY <1>4, <2>1 DEF NewVersion
  <2>4. ht.node[p].child[q] \in 0 .. 1
    BY <2>2, NodeFacts
  <2>5. ASSUME n <= SizeOf(Cur) PROVE ht.node[p].child[q] = c[n]
    <3>1. c[n] = node[n \div 2][c[n \div 2]].child[n % 2]
      BY <1>2, <1>4, <2>5, BaseFacts
    <3>2. n \div 2 <= SizeOf(Cur)
      BY <1>1, <1>2, <2>1, <2>2, <2>5
    <3> QED BY <1>4, <2>1, <3>1, <3>2, FlagOf
  <2> QED BY <1>2, <2>3, <2>4, <2>5
<1> QED BY <1>3, <1>4

(* What a visit leaves of the nodes around node n. *)
LEMMA Around ==
  ASSUME TreeType, NEW n \in 1 .. Size, Turned(ht', n), NEW m \in 1 .. Size, m # n
  PROVE  /\ ht'.node[m].blk = ht.node[m].blk /\ ht'.node[m].tag = ht.node[m].tag
         /\ ht'.node[m].hash = ht.node[m].hash /\ ht'.node[m].updated = ht.node[m].updated
         /\ ht.node[m].dirty => ht'.node[m].dirty
         /\ m # n \div 2 => ht'.node[m] = ht.node[m]
         /\ \A k \in Kids(m) : k # n => ht'.node[m].child[k % 2] = ht.node[m].child[k % 2]
<1>1. CASE m # n \div 2 \/ n = 1
  <2>1. ht'.node[m] = ht.node[m]
    BY <1>1 DEF Turned
  <2> QED BY <2>1
<1>2. CASE m = n \div 2 /\ n # 1
  <2>1. /\ ht'.node[m].blk = ht.node[m].blk /\ ht'.node[m].tag = ht.node[m].tag
        /\ ht'.node[m].hash = ht.node[m].hash /\ ht'.node[m].updated = ht.node[m].updated
        /\ ht'.node[m].dirty
        /\ ht'.node[m].child[1 - (n % 2)] = ht.node[m].child[1 - (n % 2)]
    BY <1>2, Zenon DEF Turned
  <2>2. ASSUME NEW k \in Kids(m), k # n PROVE k % 2 = 1 - (n % 2)
    <3>1. n \in Nat /\ n > 1 /\ m \in Nat
      BY <1>2, TreeFacts, Consts
    <3>2. n = 2 * m + (n % 2) /\ n % 2 \in 0 .. 1
      BY <1>2, <3>1, Half
    <3>3. PICK q \in 0 .. 1 : q = n % 2
      BY <3>2
    <3>4. n = 2 * m + q
      BY <3>2, <3>3
    <3>5. k = 2 * m + (1 - q)
      BY <2>2, <3>1, <3>4 DEF Kids
    <3>6. CASE q = 0
      <4>1. k = 2 * m + 1
        BY <3>1, <3>5, <3>6
      <4>2. k % 2 = 1
        BY <3>1, <4>1
      <4> QED BY <3>3, <3>6, <4>2
    <3>7. CASE q = 1
      <4>1. k = 2 * m
        BY <3>1, <3>5, <3>7
      <4>2. k % 2 = 0
        BY <3>1, <4>1
      <4> QED BY <3>3, <3>7, <4>2
    <3> QED BY <3>6, <3>7
  <2> QED BY <1>2, <2>1, <2>2
<1> QED BY <1>1, <1>2

(* A node that was written keeps its hash and its image when another is visited. *)
LEMMA StillSynced ==
  ASSUME TreeType, NEW n \in 1 .. Size, NEW v \in 0 .. 1, Turned(ht', n), Stored(n, v),
         NEW m \in 1 .. Size, m # n, m # n \div 2, Synced(m)
  PROVE  Synced(m)'
<1>1. /\ Size \in 1 .. MaxNode /\ MaxNode \in Nat /\ Size \in Nat /\ m \in 1 .. MaxNode
      /\ m \in Nat /\ n \in Nat
  BY TreeFacts, Consts
<1>2. ht'.node[m] = ht.node[m] /\ node'[m] = node[m] /\ ht'.len = ht.len /\ Cur' = Cur
  BY <1>1, Around DEF Stored, Turned, Cur
<1>3. CalcNodeHash(ht'.node, m, ht.len) = CalcNodeHash(ht.node, m, ht.len)
  <2>1. PICK f : f = ht'.node
    OBVIOUS
  <2>2. DOMAIN ht.node = 1 .. Size
    BY TreeFacts DEF Nodes
  <2>3. DOMAIN f = 1 .. Size
    <3>1. DOMAIN [x \in 1 .. Size |-> f[x]] = 1 .. Size
      OBVIOUS
    <3>2. f = [x \in 1 .. Size |-> f[x]]
      BY <2>1, Zenon DEF Turned
    <3> QED BY <3>1, <3>2, Zenon
  <2>4. \A k \in Kids(m) : k # n
    BY <1>1 DEF Kids
  <2>5. \A k \in Kids(m) : k \in 1 .. Size => f[k].hash = ht.node[k].hash
    BY <2>1, <2>4, Around
  <2>6. Agree(f, ht.node, Size, Size, m)
    BY <1>2, <2>1, <2>2, <2>3, <2>5 DEF Agree
  <2> QED BY <1>1, <2>1, <2>6, HashSame
<1>4. m # 1 => ht'.node[m \div 2].child[m % 2] = ht.node[m \div 2].child[m % 2]
  <2> SUFFICES ASSUME m # 1 PROVE ht'.node[m \div 2].child[m % 2] = ht.node[m \div 2].child[m % 2]
    OBVIOUS
  <2>1. m > 1
    BY <1>1
  <2>2. m \div 2 \in Nat /\ m \div 2 >= 1 /\ m \div 2 < m /\ m \in Kids(m \div 2)
    BY <1>1, <2>1, Half
  <2>3. m \div 2 \in 1 .. Size
    BY <1>1, <2>2
  <2>4. CASE m \div 2 = n
    BY <2>4 DEF Turned
  <2>5. CASE m \div 2 # n
    BY <2>2, <2>3, <2>5, Around
  <2> QED BY <2>4, <2>5
<1> QED BY <1>2, <1>3, <1>4 DEF Synced

(* Writing a node keeps the invariant of the sync and every image of the base. *)
LEMMA Visited ==
  ASSUME DiskType, TreeType, NEW c, Tree(Cur, c), Syncing(c), todo # << >>, NEW n, n = Head(todo),
         NEW v \in 0 .. 1, v = NewVersion(ht, n), Turned(ht', n), Stored(n, v),
         todo' = Tail(todo), UNCHANGED head
  PROVE  Syncing(c)' /\ \A m \in 1 .. SizeOf(Cur) : node'[m][c[m]] = node[m][c[m]]
<1>1. /\ Cur \in 0 .. 1 /\ Size \in 1 .. MaxNode /\ SizeOf(Cur) \in 1 .. MaxNode /\ MaxNode \in Nat
      /\ Size \in Nat /\ Order(todo)
  BY TreeFacts, HeadFacts, Consts DEF Syncing
<1>2. /\ n \in 1 .. Size /\ n \in Pending
      /\ Elements(Tail(todo)) = Pending \ {n} /\ Order(Tail(todo))
      /\ n # 1 => n \div 2 \in Pending /\ n \div 2 # n
      /\ n = 1 => Pending = {1} /\ Tail(todo) = << >>
  BY <1>1, FirstOf
<1>3. /\ Cur' = Cur /\ Size' = Size /\ SizeOf(Cur)' = SizeOf(Cur) /\ Pending' = Pending \ {n}
      /\ ht'.counter = ht.counter /\ ht'.len = ht.len
  <2>1. ht'.counter = ht.counter /\ ht'.len = ht.len /\ ht'.max = ht.max
    BY DEF Turned
  <2> QED BY <1>2, <2>1 DEF Cur, Size, SizeOf, Pending
<1>4. ASSUME NEW m \in 1 .. SizeOf(Cur) PROVE node'[m][c[m]] = node[m][c[m]]
  <2>1. m \in 1 .. MaxNode /\ c[m] \in 0 .. 1
    BY <1>1 DEF Tree
  <2>2. CASE m # n
    BY <2>1, <2>2 DEF Stored
  <2>3. CASE m = n
    <3>1. v = 1 - c[n]
      BY <1>1, <2>3, OtherVersion
    <3>2. 1 - v = c[m]
      BY <2>1, <2>3, <3>1
    <3> QED BY <2>3, <3>2 DEF Stored
  <2> QED BY <2>2, <2>3
<1>5. Pending \subseteq 1 .. Size
  BY <1>1 DEF Order, Pending, Elements
<1>6. ASSUME NEW m \in Pending \ {n} PROVE Unsynced(c, m)'
  <2>1. Unsynced(c, m) /\ m \in 1 .. Size /\ m # n
    BY <1>5, <1>6 DEF Syncing
  <2>2. /\ ht'.node[m].blk = ht.node[m].blk /\ ht'.node[m].tag = ht.node[m].tag
        /\ ht'.node[m].hash = ht.node[m].hash /\ ht'.node[m].updated = ht.node[m].updated
        /\ (ht.node[m].dirty => ht'.node[m].dirty)
        /\ (m # n \div 2 => ht'.node[m] = ht.node[m])
        /\ \A k \in Kids(m) : k # n => ht'.node[m].child[k % 2] = ht.node[m].child[k % 2]
    BY <1>2, <2>1, Around
  <2>3. m <= SizeOf(Cur) => node'[m][c[m]] = node[m][c[m]]
    BY <1>1, <1>4, <2>1
  <2>4. m = n \div 2 => ht'.node[m].dirty
    <3>1. n # 1 => ht'.node[n \div 2].dirty
      BY Zenon DEF Turned
    <3>2. n = 1 => m # n \div 2
      BY <2>1
    <3> QED BY <3>1, <3>2
  <2>5. /\ ht.node[m].updated => ht.node[m].dirty
        /\ Differs(c, m) => ht.node[m].dirty
        /\ m <= SizeOf(Cur) => Block(m, node[m][c[m]])
        /\ m <= SizeOf(Cur) => \A k \in Kids(m) :
             k \notin 1 .. Size \/ k \in Pending =>
                ht.node[m].child[k % 2] = node[m][c[m]].child[k % 2]
        /\ ~ht.node[m].dirty =>
             /\ ht.node[m].hash = node[m][c[m]].hash
             /\ \A k \in Kids(m) :
                  /\ k <= SizeOf(Cur) => k <= Size
                  /\ k \in 1 .. Size \ Pending =>
                       k <= SizeOf(Cur) /\ ht.node[k].hash = node[k][c[k]].hash
    BY <2>1, Zenon DEF Unsynced
  <2>6. ht'.node[m].updated => ht'.node[m].dirty
    BY <2>2, <2>5
  <2>7. m <= SizeOf(Cur) => Block(m, node[m][c[m]])'
    BY <2>2, <2>3, <2>5 DEF Block
  <2>8. Differs(c, m)' => ht'.node[m].dirty
    <3>1. CASE m = n \div 2
      BY <2>4, <3>1
    <3>2. CASE m # n \div 2
      <4>1. ht'.node[m] = ht.node[m]
        BY <2>2, <3>2
      <4>2. m <= SizeOf(Cur) \/ m > SizeOf(Cur)
        BY <1>1, <2>1
      <4>3. Differs(c, m)' => Differs(c, m)
        BY <1>3, <2>3, <4>1, <4>2 DEF Differs
      <4> QED BY <2>5, <4>1, <4>3
    <3> QED BY <3>1, <3>2
  <2>9. m <= SizeOf(Cur) => \A k \in Kids(m) : k \notin 1 .. Size \/ k \in Pending \ {n} =>
            ht'.node[m].child[k % 2] = node'[m][c[m]].child[k % 2]
    BY <1>2, <2>2, <2>3, <2>5
  <2>10. ASSUME ~ht'.node[m].dirty
         PROVE  /\ ht'.node[m].hash = node'[m][c[m]].hash
                /\ \A k \in Kids(m) :
                     /\ k <= SizeOf(Cur) => k <= Size
                     /\ k \in 1 .. Size \ (Pending \ {n}) =>
                          k <= SizeOf(Cur) /\ ht'.node[k].hash = node'[k][c[k]].hash
    <3>1. m # n \div 2 /\ ~ht.node[m].dirty
      BY <2>2, <2>4, <2>10
    <3>2. m <= SizeOf(Cur)
      <4>1. ~Differs(c, m)
        BY <2>5, <3>1
      <4> QED BY <1>1, <2>1, <4>1 DEF Differs
    <3>3. \A k \in Kids(m) : k # n /\ k \in Nat /\ k >= 1
      BY <1>2, <2>1, <3>1 DEF Kids
    <3>4. ASSUME NEW k \in Kids(m), k \in 1 .. Size \ (Pending \ {n})
          PROVE  k <= SizeOf(Cur) /\ ht'.node[k].hash = node'[k][c[k]].hash
      <4>1. k \in 1 .. Size \ Pending /\ k # n /\ k \in 1 .. Size
        BY <3>3, <3>4
      <4>2. k <= SizeOf(Cur) /\ ht.node[k].hash = node[k][c[k]].hash
        BY <2>5, <3>1, <4>1
      <4>3. ht'.node[k].hash = ht.node[k].hash
        BY <1>2, <4>1, Around
      <4>4. k \in 1 .. SizeOf(Cur)
        BY <1>1, <4>1, <4>2
      <4> QED BY <1>4, <4>2, <4>3, <4>4
    <3> QED BY <2>2, <2>3, <2>5, <3>1, <3>2, <3>4
  <2> QED BY <1>3, <2>6, <2>7, <2>8, <2>9, <2>10 DEF Unsynced
<1>7. Synced(n)'
  <2>1. /\ ~ht'.node[n].dirty /\ ~ht'.node[n].updated
        /\ ht'.node[n].hash = CalcNodeHash(ht'.node, n, ht.len)
        /\ n # 1 => ht'.node[n \div 2].child[n % 2] = 1 - ht.node[n \div 2].child[n % 2]
    BY Zenon DEF Turned
  <2>2. Image(ht'.node[n]) = node'[n][v]
    BY DEF Stored
  <2>3. v = IF n = 1 THEN 1 - Cur ELSE ht'.node[n \div 2].child[n % 2]
    BY <2>1 DEF NewVersion, Cur
  <2> QED BY <1>3, <2>1, <2>2, <2>3 DEF Synced
<1>8. ASSUME NEW m \in 1 .. Size \ (Pending \ {n}) PROVE Synced(m)'
  <2>1. CASE m = n
    BY <1>7, <2>1
  <2>2. CASE m # n
    <3>1. m \in 1 .. Size /\ m \notin Pending
      BY <1>8, <2>2
    <3>2. Synced(m)
      BY <3>1 DEF Syncing
    <3>3. m # n \div 2
      <4>1. n = 1 => n \div 2 = 0
        OBVIOUS
      <4> QED BY <1>2, <3>1, <4>1
    <3> QED BY <1>2, <2>2, <3>1, <3>2, <3>3, StillSynced
  <2> QED BY <2>1, <2>2
<1>9. todo' # << >> => \E m \in Pending' : Differs(c, m)'
  <2> SUFFICES ASSUME todo' # << >> PROVE \E m \in Pending' : Differs(c, m)'
    OBVIOUS
  <2>1. n # 1 /\ n \div 2 \in Pending' /\ n \div 2 \in 1 .. Size
    BY <1>2, <1>3, <1>5
  <2>2. Differs(c, n \div 2)'
    <3>1. CASE n \div 2 > SizeOf(Cur)
      BY <1>3, <3>1 DEF Differs
    <3>2. CASE n \div 2 <= SizeOf(Cur)
      <4>1. ht.node[n \div 2].child[n % 2] = node[n \div 2][c[n \div 2]].child[n % 2]
        BY <2>1, <3>2, FlagOf
      <4>2. ht'.node[n \div 2].child[n % 2] = 1 - ht.node[n \div 2].child[n % 2]
        BY <2>1, Zenon DEF Turned
      <4>3. n \div 2 \in 1 .. SizeOf(Cur)
        BY <1>1, <2>1, <3>2
      <4>4. node'[n \div 2][c[n \div 2]] = node[n \div 2][c[n \div 2]]
        BY <1>4, <4>3
      <4>5. ht.node[n \div 2].child[n % 2] \in 0 .. 1
        <5>1. n % 2 \in 0 .. 1
          BY <1>2
        <5>2. ht.node[n \div 2].child[0] \in 0 .. 1 /\ ht.node[n \div 2].child[1] \in 0 .. 1
          BY <2>1, NodeFacts
        <5>3. n % 2 = 0 \/ n % 2 = 1
          BY <5>1
        <5> QED BY <5>2, <5>3
      <4>6. ht'.node[n \div 2].child[n % 2] # ht.node[n \div 2].child[n % 2]
        BY <4>2, <4>5
      <4>7. ht'.node[n \div 2].child # node'[n \div 2][c[n \div 2]].child
        BY <4>1, <4>4, <4>6
      <4> QED BY <4>7 DEF Differs
    <3> QED BY <1>1, <2>1, <3>1, <3>2
  <2> QED BY <2>1, <2>2
<1>10. (head[Cur].counter = ht.counter)'
  BY <1>3 DEF Syncing
<1>11. \A m \in Pending' : Unsynced(c, m)'
  BY <1>3, <1>6
<1>12. \A m \in (1 .. Size \ Pending)' : Synced(m)'
  BY <1>3, <1>8
<1>13. Order(todo)'
  BY <1>2, <1>3 DEF Order
<1>14. Syncing(c)'
  BY <1>9, <1>10, <1>11, <1>12, <1>13 DEF Syncing
<1> QED BY <1>4, <1>14

(* A root is written only when its hash is new. *)
LEMMA RootChanges ==
  ASSUME DiskType, TreeType, NEW c, Tree(Cur, c), Syncing(c), todo # << >>, 1 = Head(todo),
         Turned(ht', 1)
  PROVE  ht'.node[1].hash # node[1][Cur].hash
<1>1. /\ Cur \in 0 .. 1 /\ Size \in 1 .. MaxNode /\ SizeOf(Cur) \in 1 .. MaxNode /\ MaxNode \in Nat
      /\ Size \in Nat /\ Order(todo)
  BY TreeFacts, HeadFacts, Consts DEF Syncing
<1>2. Pending = {1} /\ 1 \in 1 .. Size /\ c[1] = Cur /\ 1 \in 1 .. SizeOf(Cur)
  BY <1>1, FirstOf DEF Tree
<1>3. Differs(c, 1)
  <2>1. PICK m \in Pending : Differs(c, m)
    BY DEF Syncing
  <2> QED BY <1>2, <2>1
<1>4. \/ ht.node[1].tag # node[1][Cur].tag \/ ht.node[1].child # node[1][Cur].child
      \/ ht.len # head[Cur].len
  BY <1>1, <1>2, <1>3 DEF Differs
<1>5. PICK f, g, l, k : f = ht'.node /\ g = Loaded(Cur, c) /\ l = ht.len /\ k = head[Cur].len
  OBVIOUS
<1>6. DOMAIN g = 1 .. SizeOf(Cur) /\ g[1] = node[1][Cur]
  BY <1>2, <1>5 DEF Loaded
<1>7. DOMAIN f = 1 .. Size
  <2>1. DOMAIN [x \in 1 .. Size |-> f[x]] = 1 .. Size
    OBVIOUS
  <2>2. f = [x \in 1 .. Size |-> f[x]]
    BY <1>5, Zenon DEF Turned
  <2> QED BY <2>1, <2>2, Zenon
<1>8. f[1].hash = CalcNodeHash(f, 1, l) /\ f[1].child = ht.node[1].child /\ f[1].tag = ht.node[1].tag
  BY <1>5, Zenon DEF Turned
<1>9. node[1][Cur].hash = CalcNodeHash(g, 1, k)
  BY <1>2, <1>5 DEF Tree
<1>10. /\ CalcNodeHash(f, 1, l)[2] = f[1].child /\ CalcNodeHash(f, 1, l)[3] = f[1].tag
       /\ CalcNodeHash(f, 1, l)[4] = l
  BY <1>1, <1>2, <1>7, HashParts
<1>11. /\ CalcNodeHash(g, 1, k)[2] = g[1].child /\ CalcNodeHash(g, 1, k)[3] = g[1].tag
       /\ CalcNodeHash(g, 1, k)[4] = k
  <2>1. SizeOf(Cur) \in Nat
    BY <1>1
  <2> QED BY <1>2, <1>6, <2>1, HashParts
<1>12. CalcNodeHash(f, 1, l) # CalcNodeHash(g, 1, k)
  BY <1>4, <1>5, <1>6, <1>8, <1>10, <1>11
<1> QED BY <1>5, <1>8, <1>9, <1>12

(* A visit leaves what can be read. *)
LEMMA ReadsSame ==
  ASSUME TreeType, NEW n \in 1 .. Size, Turned(ht', n), Reads, UNCHANGED blk
  PROVE  Reads'
<1> SUFFICES ASSUME NEW b \in Blocks, b * BlockSize < ht'.len
             PROVE  b + 1 <= Size' /\ Decrypts(b, ht.node[b + 1])'
  BY DEF Reads
<1>1. ht'.len = ht.len /\ ht'.max = ht.max /\ Size' = Size
  BY DEF Turned, Size
<1>2. b + 1 <= Size /\ Decrypts(b, ht.node[b + 1])
  BY <1>1 DEF Reads
<1>3. b + 1 \in 1 .. Size
  BY <1>2, TreeFacts, Consts DEF Blocks
<1>4. ht'.node[b + 1].blk = ht.node[b + 1].blk /\ ht'.node[b + 1].tag = ht.node[b + 1].tag
  <2>1. CASE b + 1 = n
    BY <2>1 DEF Turned
  <2>2. CASE b + 1 # n
    BY <1>3, <2>2, Around
  <2> QED BY <2>1, <2>2
<1> QED BY <1>1, <1>2, <1>4 DEF Decrypts

(* Visiting a node during a sync keeps the invariant and the base. *)
LEMMA SyncNodeStep ==
  ASSUME Inv, SyncNode, pc = "sync"
  PROVE  Inv' /\ Exists' = Exists /\ BaseStays
<1>1. /\ UNCHANGED <<mode, head, blk, trusted, pc, changes>> /\ todo # << >> /\ todo' = Tail(todo)
  BY DEF SyncNode
<1>2. /\ DiskInv /\ DiskType /\ TreeType /\ Reads /\ RootsDiffer /\ mode \in {"hash", "counter"}
      /\ (mode = "counter" => Exists) /\ (Exists => Commit(Cur))
  BY DEF Inv, DiskInv, MemInv, DiskType
<1>3. PICK c \in [1 .. SizeOf(Cur) -> 0 .. 1] : Tree(Cur, c) /\ Syncing(c)
  BY DEF Inv, MemInv, InSync
<1>4. PICK i \in 0 .. 1 : i = Cur
  BY <1>2, TreeFacts
<1>5. PICK n : n = Head(todo)
  OBVIOUS
<1>6. /\ n \in 1 .. Size /\ NewVersion(ht, n) \in 0 .. 1 /\ Size \in 1 .. MaxNode
      /\ SizeOf(i) \in 1 .. MaxNode /\ MaxNode \in Nat
  BY <1>1, <1>2, <1>3, <1>4, <1>5, OtherVersion, TreeFacts, HeadFacts, Consts
<1>7. Exists' = Exists
  BY <1>1 DEF Exists
<1>8. CASE ~ht.node[n].dirty
  <2>1. UNCHANGED <<ht, node, file>>
    BY <1>2, <1>5, <1>6, <1>8, Visit
  <2>2. Syncing(c)'
    BY <1>1, <1>2, <1>3, <1>5, <1>8, <2>1, Skipped
  <2>3. DiskInv'
    BY <1>1, <1>2, <2>1, DiskSame DEF disk
  <2>4. Tree(i, c)' /\ i = Cur'
    BY <1>1, <1>2, <1>3, <1>4, <2>1, TreeSame DEF Cur
  <2>5. Tree(Cur, c)'
    BY <2>4, CurTree
  <2>6. /\ Cur' = Cur /\ TreeType' /\ Reads' /\ RootsDiffer' /\ SizeOf(Cur)' = SizeOf(Cur)
        /\ (Exists' => Commit(Cur)')
    BY <1>1, <1>2, <2>1, MemorySame
  <2>7. InSync'
    BY <1>3, <2>2, <2>5, <2>6 DEF InSync
  <2>8. MemInv'
    BY <1>1, <1>2, <1>7, <2>6, <2>7 DEF MemInv
  <2>9. Stays(i, c)
    BY <1>1, <2>1 DEF Stays
  <2> QED BY <1>3, <1>4, <1>7, <2>3, <2>8, <2>9 DEF Inv, BaseStays
<1>9. CASE ht.node[n].dirty
  <2>1. PICK v \in 0 .. 1 : v = NewVersion(ht, n)
    BY <1>6
  <2>2. Turned(ht', n) /\ node' = [node EXCEPT ![n][v] = Image(ht'.node[n])] /\ file' = "data"
    BY <1>2, <1>5, <1>6, <1>9, <2>1, Visit
  <2>3. Stored(n, v) /\ DiskType'
    BY <1>1, <1>2, <1>6, <2>2, Stores
  <2>4. Syncing(c)' /\ \A m \in 1 .. SizeOf(Cur) : node'[m][c[m]] = node[m][c[m]]
    BY <1>1, <1>2, <1>3, <1>5, <2>1, <2>2, <2>3, Visited
  <2>5. \A m \in 1 .. SizeOf(i) : node'[m][c[m]] = node[m][c[m]]
    BY <1>4, <2>4
  <2>6. Tree(i, c)'
    BY <1>1, <1>2, <1>3, <1>4, <2>5, TreeKept
  <2>7. /\ Cur' = i /\ Size' = Size /\ SizeOf(i)' = SizeOf(i)
    BY <1>1, <1>4, <2>2 DEF Turned, Cur, Size, SizeOf
  <2>8. TreeType'
    <3>1. \A m \in 1 .. Size : IsNode(ht.node[m])'
      BY <1>1, <2>2 DEF Turned, IsNode
    <3>2. /\ ht' \in [counter : Nat, max : 0 .. MaxNode, len : 0 .. 2 * MaxNode, dirty : BOOLEAN,
                      node : {ht'.node}]
          /\ ht'.node = [m \in 1 .. Size |-> ht'.node[m]]
      BY <2>2 DEF Turned
    <3> QED BY <2>7, <3>1, <3>2 DEF TreeType
  <2>9. Reads'
    BY <1>1, <1>2, <1>6, <2>2, ReadsSame
  <2>10. 1 \in 1 .. MaxNode /\ c[1] = i /\ 1 \in 1 .. SizeOf(i)
    BY <1>3, <1>4, <1>6 DEF Tree
  <2>11. node'[1][i] = node[1][i]
    BY <2>5, <2>10
  <2>12. RootsDiffer'
    <3>1. CASE n # 1
      <4>1. node'[1] = node[1]
        BY <2>3, <2>10, <3>1 DEF Stored
      <4> QED BY <1>1, <1>2, <4>1 DEF RootsDiffer
    <3>2. CASE n = 1
      <4>1. ht'.node[1].hash # node[1][i].hash
        BY <1>1, <1>2, <1>3, <1>4, <1>5, <2>2, <3>2, RootChanges
      <4>2. v = 1 - i
        BY <1>4, <2>1, <3>2 DEF NewVersion, Cur
      <4>3. node'[1][1 - i].hash = ht'.node[1].hash
        BY <2>3, <3>2, <4>2 DEF Stored, Image
      <4>4. node'[1][1 - i].hash # node'[1][i].hash
        BY <2>11, <4>1, <4>3
      <4>5. CASE i = 0
        BY <4>4, <4>5 DEF RootsDiffer
      <4>6. CASE i = 1
        BY <4>4, <4>6 DEF RootsDiffer
      <4> QED BY <4>5, <4>6
    <3> QED BY <3>1, <3>2
  <2>13. Exists => Commit(i)'
    <3> SUFFICES ASSUME Exists PROVE Commit(i)'
      OBVIOUS
    <3>1. Commit(i)
      BY <1>2, <1>4
    <3>2. CASE mode = "hash"
      <4>1. node'[1][i].hash = trusted'
        BY <1>1, <2>11, <3>1, <3>2 DEF Commit
      <4>2. node'[1][1 - i].hash # node'[1][i].hash
        BY <1>1, <2>12, <3>2 DEF RootsDiffer
      <4> QED BY <1>1, <3>2, <4>1, <4>2 DEF Commit
    <3>3. CASE mode = "counter"
      BY <1>1, <3>1, <3>3 DEF Commit
    <3> QED BY <1>2, <3>2, <3>3
  <2>14. DiskInv'
    <3>1. Exists' => \E j \in 0 .. 1 : \E d \in [1 .. SizeOf(j)' -> 0 .. 1] : Commit(j)' /\ Tree(j, d)'
      BY <1>3, <1>4, <1>7, <2>6, <2>7, <2>13
    <3> QED BY <1>1, <1>2, <1>7, <2>2, <2>3, <3>1 DEF DiskInv
  <2>15. Tree(Cur, c)' /\ (Exists => Commit(Cur)')
    BY <2>6, <2>7, <2>13, CurTree
  <2>16. InSync'
    BY <1>3, <1>4, <2>4, <2>7, <2>15 DEF InSync
  <2>17. MemInv'
    BY <1>1, <1>2, <1>7, <2>8, <2>9, <2>12, <2>15, <2>16 DEF MemInv
  <2>18. Stays(i, c)
    BY <1>1, <2>5 DEF Stays
  <2> QED BY <1>3, <1>4, <1>7, <2>14, <2>17, <2>18 DEF Inv, BaseStays
<1> QED BY <1>8, <1>9

----------------------------------------------------------------------------
(* Writing the head. *)

(* What writing the head changes. *)
LEMMA HeadWritten ==
  ASSUME DiskType, TreeType, NEW j \in 0 .. 1, (ht.counter + 1) % 2 = j, SyncHead
  PROVE  /\ ht'.counter = ht.counter + 1 /\ ht'.dirty = FALSE /\ ht'.max = ht.max
         /\ ht'.len = ht.len /\ ht'.node = ht.node /\ Cur' = j /\ Size' = Size
         /\ TreeType' /\ DiskType'
         /\ head'[j].counter = ht.counter + 1 /\ head'[j].root = ht.node[1].hash
         /\ head'[j].max = ht.max /\ head'[j].len = ht.len /\ SizeOf(j)' = Size
         /\ head'[1 - j] = head[1 - j] /\ SizeOf(1 - j)' = SizeOf(1 - j)
<1>1. PICK x : x = [counter |-> ht.counter + 1, root |-> ht.node[1].hash,
                    max |-> ht.max, len |-> ht.len]
  OBVIOUS
<1>2. /\ ht' = [ht EXCEPT !.counter = ht.counter + 1, !.dirty = FALSE]
      /\ head' = [head EXCEPT ![j] = x]
  BY <1>1, Zenon DEF SyncHead
<1>3. UNCHANGED <<mode, file, node, blk, trusted, todo, changes>>
  BY DEF SyncHead
<1>4. /\ ht.counter \in Nat /\ ht.max \in 0 .. MaxNode /\ ht.len \in 0 .. 2 * MaxNode
  BY TreeFacts
<1>5. ht \in [counter : Nat, max : 0 .. MaxNode, len : 0 .. 2 * MaxNode, dirty : BOOLEAN,
             node : {ht.node}]
  BY DEF TreeType
<1>6. /\ ht'.counter = ht.counter + 1 /\ ht'.dirty = FALSE /\ ht'.max = ht.max
      /\ ht'.len = ht.len /\ ht'.node = ht.node
      /\ ht' \in [counter : Nat, max : 0 .. MaxNode, len : 0 .. 2 * MaxNode, dirty : BOOLEAN,
                  node : {ht'.node}]
  <2>1. PICK h, t, k : h = ht /\ t = ht' /\ k = ht.counter + 1
    OBVIOUS
  <2>2. h \in [counter : Nat, max : 0 .. MaxNode, len : 0 .. 2 * MaxNode, dirty : BOOLEAN,
               node : {h.node}]
    BY <1>5, <2>1
  <2>3. t = [h EXCEPT !.counter = k, !.dirty = FALSE] /\ k \in Nat
    BY <1>2, <1>4, <2>1
  <2>4. t.counter = k /\ t.dirty = FALSE /\ t.max = h.max /\ t.len = h.len /\ t.node = h.node
    BY <2>2, <2>3
  <2>5. t \in [counter : Nat, max : 0 .. MaxNode, len : 0 .. 2 * MaxNode, dirty : BOOLEAN,
               node : {h.node}]
    BY <2>2, <2>3
  <2> QED BY <2>1, <2>4, <2>5
<1>7. Cur' = j /\ Size' = Size
  BY <1>6 DEF Cur, Size
<1>8. TreeType'
  BY <1>3, <1>6, <1>7 DEF TreeType, IsNode
<1>9. head = [v \in 0 .. 1 |-> head[v]] /\ \A v \in 0 .. 1 : IsHead(head[v])
  BY DEF DiskType
<1>10. head'[j] = x /\ head'[1 - j] = head[1 - j] /\ head' = [v \in 0 .. 1 |-> head'[v]]
  <2>1. 1 - j \in 0 .. 1 /\ 1 - j # j
    OBVIOUS
  <2> QED BY <1>2, <1>9, <2>1
<1>11. /\ x.counter = ht.counter + 1 /\ x.root = ht.node[1].hash /\ x.max = ht.max /\ x.len = ht.len
       /\ IsHead(x)
  BY <1>1, <1>4 DEF IsHead
<1>12. DiskType'
  <2>1. \A v \in 0 .. 1 : v = j \/ v = 1 - j
    OBVIOUS
  <2>2. \A v \in 0 .. 1 : IsHead(head'[v])
    BY <1>9, <1>10, <1>11, <2>1
  <2>3. \A v \in 0 .. 1 : IsHead(head[v])'
    BY <2>2 DEF IsHead
  <2>4. \A n \in 1 .. MaxNode : \A v \in 0 .. 1 : IsImage(node[n][v])'
    BY <1>3 DEF DiskType, IsImage
  <2> QED BY <1>3, <1>10, <2>3, <2>4 DEF DiskType
<1>13. SizeOf(j)' = Size /\ SizeOf(1 - j)' = SizeOf(1 - j)
  BY <1>10, <1>11 DEF SizeOf, Size
<1> QED BY <1>6, <1>7, <1>8, <1>10, <1>11, <1>12, <1>13

(* The versions that the flags of the tree in memory name. *)
Version(n) == IF n = 1 THEN 1 - Cur ELSE ht.node[n \div 2].child[n % 2]

(* Once every node is written, the head makes the tree in memory the one of the file. *)
LEMMA NewTreeStands ==
  ASSUME DiskType, TreeType, Reads, NEW j \in 0 .. 1, j = 1 - Cur, SyncHead,
         \A n \in 1 .. Size : Synced(n), NEW d, d = [n \in 1 .. Size |-> Version(n)]
  PROVE  Tree(j, d)' /\ Near(d)' /\ (ht.counter + 1) % 2 = j
<1>1. /\ ht.counter \in Nat /\ Size \in 1 .. MaxNode /\ Cur \in 0 .. 1 /\ MaxNode \in Nat
      /\ ht.len \in Nat
  BY TreeFacts, Consts
<1>2. (ht.counter + 1) % 2 = j
  BY <1>1 DEF Cur
<1>3. /\ ht'.counter = ht.counter + 1 /\ ht'.dirty = FALSE /\ ht'.max = ht.max
      /\ ht'.len = ht.len /\ ht'.node = ht.node /\ Cur' = j /\ Size' = Size
      /\ TreeType' /\ DiskType'
      /\ head'[j].counter = ht.counter + 1 /\ head'[j].root = ht.node[1].hash
      /\ head'[j].max = ht.max /\ head'[j].len = ht.len /\ SizeOf(j)' = Size
  BY <1>2, HeadWritten
<1>4. UNCHANGED <<node, blk>>
  BY DEF SyncHead
<1>5. \A n \in 1 .. Size : d[n] = Version(n)
  OBVIOUS
<1>6. ASSUME NEW n \in 1 .. Size PROVE Version(n) \in 0 .. 1
  <2>1. CASE n = 1
    BY <1>1, <2>1 DEF Version
  <2>2. CASE n # 1
    <3>1. n \in Nat /\ n > 1
      BY <1>1, <2>2
    <3>2. n \div 2 \in Nat /\ n \div 2 >= 1 /\ n \div 2 < n /\ n % 2 \in 0 .. 1
      BY <3>1, Half
    <3>3. n \div 2 \in 1 .. Size
      BY <1>1, <3>2
    <3>4. ht.node[n \div 2].child \in [0 .. 1 -> 0 .. 1]
      BY <3>3, NodeFacts DEF Flags
    <3> QED BY <2>2, <3>2, <3>4 DEF Version
  <2> QED BY <2>1, <2>2
<1>7. d \in [1 .. Size -> 0 .. 1] /\ d[1] = j
  BY <1>1, <1>5, <1>6 DEF Version
<1>8. ASSUME NEW n \in 1 .. Size
      PROVE  /\ ~ht.node[n].dirty /\ ~ht.node[n].updated
             /\ ht.node[n].hash = CalcNodeHash(ht.node, n, ht.len)
             /\ node[n][d[n]].blk = ht.node[n].blk /\ node[n][d[n]].child = ht.node[n].child
             /\ node[n][d[n]].tag = ht.node[n].tag /\ node[n][d[n]].hash = ht.node[n].hash
  <2>1. /\ ~ht.node[n].dirty /\ ~ht.node[n].updated
        /\ ht.node[n].hash = CalcNodeHash(ht.node, n, ht.len)
        /\ Image(ht.node[n]) = node[n][d[n]]
    BY <1>5, Zenon DEF Synced, Version
  <2>2. IsNode(ht.node[n])
    BY DEF TreeType
  <2> QED BY <2>1, <2>2, ImageIs
<1>9. \A n \in 2 .. Size : d[n] = node[n \div 2][d[n \div 2]].child[n % 2]
  <2> SUFFICES ASSUME NEW n \in 2 .. Size PROVE d[n] = node[n \div 2][d[n \div 2]].child[n % 2]
    OBVIOUS
  <2>1. n \in Nat /\ n > 1 /\ n \in 1 .. Size /\ n # 1
    BY <1>1
  <2>2. n \div 2 \in Nat /\ n \div 2 >= 1 /\ n \div 2 < n
    BY <2>1, Half
  <2>3. n \div 2 \in 1 .. Size
    BY <1>1, <2>1, <2>2
  <2>4. d[n] = ht.node[n \div 2].child[n % 2]
    BY <1>5, <2>1 DEF Version
  <2> QED BY <1>8, <2>3, <2>4
<1>10. PICK g : g = [n \in 1 .. Size |-> node[n][d[n]]]
  OBVIOUS
<1>11. Loaded(j, d)' = g
  BY <1>3, <1>4, <1>10 DEF Loaded
<1>12. ASSUME NEW n \in 1 .. Size PROVE node[n][d[n]].hash = CalcNodeHash(g, n, ht.len)
  <2>1. DOMAIN g = 1 .. Size /\ \A m \in 1 .. Size : g[m] = node[m][d[m]]
    BY <1>10
  <2>2. DOMAIN ht.node = 1 .. Size
    BY TreeFacts DEF Nodes
  <2>3. /\ ht.node[n].blk = g[n].blk /\ ht.node[n].child = g[n].child /\ ht.node[n].tag = g[n].tag
    BY <1>8, <2>1
  <2>4. \A m \in Kids(n) : m \in 1 .. Size => ht.node[m].hash = g[m].hash
    BY <1>8, <2>1
  <2>5. Agree(ht.node, g, Size, Size, n)
    BY <2>1, <2>2, <2>3, <2>4 DEF Agree
  <2>6. Size \in Nat
    BY <1>1
  <2>7. CalcNodeHash(ht.node, n, ht.len) = CalcNodeHash(g, n, ht.len)
    BY <2>5, <2>6, HashSame
  <2> QED BY <1>8, <2>7
<1>13. head'[j].root = node'[1][j].hash
  <2>1. 1 \in 1 .. Size
    BY <1>1
  <2> QED BY <1>3, <1>4, <1>7, <1>8, <2>1
<1>14. ASSUME NEW b \in Blocks, b * BlockSize < ht.len
       PROVE  b + 1 <= Size /\ Decrypts(b, node[b + 1][d[b + 1]])'
  <2>1. b + 1 <= Size /\ Decrypts(b, ht.node[b + 1])
    BY <1>14 DEF Reads
  <2>2. b + 1 \in 1 .. Size
    BY <1>1, <2>1 DEF Blocks
  <2>3. node[b + 1][d[b + 1]].blk = ht.node[b + 1].blk /\ node[b + 1][d[b + 1]].tag = ht.node[b + 1].tag
    BY <1>8, <2>2
  <2> QED BY <1>4, <2>1, <2>3 DEF Decrypts
<1>15. Tree(j, d)'
  BY <1>2, <1>3, <1>4, <1>7, <1>9, <1>11, <1>12, <1>13, <1>14 DEF Tree
<1>16. Near(d)'
  <2>1. /\ head'[Cur'].counter = ht'.counter /\ SizeOf(Cur)' = Size
        /\ head'[Cur'].len = ht'.len /\ head'[Cur'].max = ht'.max
    BY <1>3 DEF SizeOf
  <2>2. \A n \in 1 .. Size : Block(n, node[n][d[n]])'
    BY <1>3, <1>4, <1>8 DEF Block
  <2> QED BY <1>1, <1>3, <1>4, <1>8, <2>1, <2>2 DEF Near
<1> QED BY <1>2, <1>15, <1>16

(* Writing the first head keeps the invariant. *)
LEMMA CreateHeadStep ==
  ASSUME Inv, SyncHead, pc = "create"
  PROVE  Inv' /\ ~Exists /\ Reads'
<1>1. /\ UNCHANGED <<mode, file, node, blk, trusted, todo, changes>> /\ todo = << >> /\ pc' = "dummy"
  BY DEF SyncHead
<1>2. DiskInv /\ DiskType /\ TreeType /\ Creating /\ mode \in {"hash", "counter"}
  BY DEF Inv, DiskInv, MemInv, DiskType
<1>3. /\ ~Exists /\ node[1][0].hash = << >> /\ head[0].counter = 0 /\ file = "data"
      /\ ht.counter = 0 /\ ht.max = 0 /\ ht.len = 0 /\ ~ht.node[1].dirty /\ ~ht.node[1].updated
      /\ ht.node[1].hash = CalcNodeHash(ht.node, 1, 0) /\ Image(ht.node[1]) = node[1][1]
  BY <1>1, <1>2 DEF Creating
<1>4. Size = 1 /\ Cur = 0 /\ (ht.counter + 1) % 2 = 1
  BY <1>3 DEF Size, Max2, Cur
<1>5. \A n \in 1 .. Size : Synced(n)
  BY <1>3, <1>4 DEF Synced
<1>6. Reads
  BY <1>3, Consts DEF Reads, Blocks
<1>7. PICK d : d = [n \in 1 .. Size |-> Version(n)]
  OBVIOUS
<1>8. Tree(1, d)' /\ Near(d)'
  BY <1>2, <1>4, <1>5, <1>6, <1>7, NewTreeStands
<1>9. /\ ht'.counter = 1 /\ ht'.len = 0 /\ Cur' = 1 /\ Size' = Size
      /\ TreeType' /\ DiskType' /\ head'[1].counter = 1 /\ SizeOf(1)' = Size
      /\ head'[0] = head[0]
  <2>1. /\ ht'.counter = ht.counter + 1 /\ ht'.len = ht.len /\ Cur' = 1 /\ Size' = Size
        /\ TreeType' /\ DiskType' /\ head'[1].counter = ht.counter + 1 /\ SizeOf(1)' = Size
        /\ head'[0] = head[0]
    <3>1. PICK j \in 0 .. 1 : j = 1
      OBVIOUS
    <3>2. /\ ht'.counter = ht.counter + 1 /\ ht'.len = ht.len /\ Cur' = j /\ Size' = Size
          /\ TreeType' /\ DiskType' /\ head'[j].counter = ht.counter + 1 /\ SizeOf(j)' = Size
          /\ head'[1 - j] = head[1 - j]
      BY <1>2, <1>4, <3>1, HeadWritten
    <3>3. 1 - j = 0
      BY <3>1
    <3> QED BY <3>1, <3>2, <3>3
  <2> QED BY <1>3, <2>1
<1>10. Reads'
  BY <1>9, Consts DEF Reads, Blocks
<1>11. RootsDiffer'
  <2>1. DOMAIN ht.node = 1 .. Size
    BY <1>2, TreeFacts DEF Nodes
  <2>2. CalcNodeHash(ht.node, 1, 0) # << >>
    <3>1. Size \in Nat /\ 1 \in 1 .. Size
      BY <1>4
    <3> QED BY <2>1, <3>1, HashParts
  <2>3. node[1][1].hash = ht.node[1].hash
    BY <1>3 DEF Image
  <2> QED BY <1>1, <1>3, <2>2, <2>3 DEF RootsDiffer
<1>12. Exists' <=> mode = "counter"
  BY <1>1, <1>2, <1>3, <1>9 DEF Exists
<1>13. Exists' => Commit(1)'
  <2>1. mode = "counter" => Commit(1)'
    BY <1>1, <1>3, <1>9 DEF Commit
  <2> QED BY <1>12, <2>1
<1>14. d \in [1 .. SizeOf(1)' -> 0 .. 1]
  BY <1>8 DEF Tree
<1>15. DiskInv'
  <2>1. Exists' => \E i \in 0 .. 1 : \E c \in [1 .. SizeOf(i)' -> 0 .. 1] : Commit(i)' /\ Tree(i, c)'
    BY <1>8, <1>13, <1>14
  <2> QED BY <1>1, <1>3, <1>9, <1>12, <2>1 DEF DiskInv
<1>16. Tree(Cur, d)' /\ (Exists' => Commit(Cur)')
  BY <1>8, <1>9, <1>13, CurTree
<1>17. Idle'
  BY <1>8, <1>9, <1>14, <1>16 DEF Idle
<1>18. MemInv'
  BY <1>1, <1>9, <1>10, <1>11, <1>12, <1>16, <1>17 DEF MemInv
<1> QED BY <1>3, <1>10, <1>15, <1>18 DEF Inv

(* Writing the head at the end of a sync keeps the invariant and the base. *)
LEMMA SyncHeadStep ==
  ASSUME Inv, SyncHead, pc = "sync"
  PROVE  /\ Inv' /\ Exists' = Exists /\ BaseStays
         /\ \A n \in 1 .. Size : ~ht.node[n].dirty
<1>1. /\ UNCHANGED <<mode, file, node, blk, trusted, todo, changes>> /\ todo = << >>
      /\ pc' = AfterSync
  BY DEF SyncHead
<1>2. /\ DiskInv /\ DiskType /\ TreeType /\ Reads /\ RootsDiffer /\ mode \in {"hash", "counter"}
      /\ (mode = "counter" => Exists) /\ (Exists => Commit(Cur))
  BY DEF Inv, DiskInv, MemInv, DiskType
<1>3. PICK c \in [1 .. SizeOf(Cur) -> 0 .. 1] : Tree(Cur, c) /\ Syncing(c)
  BY DEF Inv, MemInv, InSync
<1>4. PICK i \in 0 .. 1 : i = Cur
  BY <1>2, TreeFacts
<1>5. PICK j \in 0 .. 1 : j = 1 - i
  OBVIOUS
<1>6. i = 1 - j /\ j = 1 - Cur
  BY <1>4, <1>5
<1>7. Pending = {}
  BY <1>1 DEF Pending, Elements
<1>8. \A n \in 1 .. Size : Synced(n)
  BY <1>3, <1>7 DEF Syncing
<1>9. PICK d : d = [n \in 1 .. Size |-> Version(n)]
  OBVIOUS
<1>10. Tree(j, d)' /\ Near(d)' /\ (ht.counter + 1) % 2 = j
  BY <1>2, <1>6, <1>8, <1>9, NewTreeStands
<1>11. /\ ht'.counter = ht.counter + 1 /\ ht'.len = ht.len /\ ht'.dirty = FALSE
       /\ ht'.node = ht.node /\ Cur' = j /\ Size' = Size
       /\ TreeType' /\ DiskType' /\ head'[j].counter = ht.counter + 1 /\ SizeOf(j)' = Size
       /\ head'[i] = head[i] /\ SizeOf(i)' = SizeOf(i)
  BY <1>2, <1>6, <1>10, HeadWritten
<1>12. Tree(i, c)'
  BY <1>1, <1>2, <1>3, <1>4, <1>11, TreeKept
<1>13. Reads' /\ RootsDiffer'
  BY <1>1, <1>2, <1>11 DEF Reads, Decrypts, RootsDiffer
<1>14. ht.counter \in Nat /\ head[i].counter = ht.counter /\ head[i].counter % 2 = i
  BY <1>2, <1>3, <1>4, TreeFacts DEF Syncing, Tree
<1>15. Exists' = Exists
  <2>1. CASE mode = "hash"
    BY <1>1, <2>1 DEF Exists
  <2>2. CASE mode = "counter"
    <3>1. Exists /\ head[1].counter > 0
      BY <1>2, <2>2 DEF Exists
    <3>2. CASE j = 1
      BY <1>1, <1>11, <1>14, <2>2, <3>1, <3>2 DEF Exists
    <3>3. CASE j = 0
      BY <1>1, <1>6, <1>11, <2>2, <3>1, <3>3 DEF Exists
    <3> QED BY <3>2, <3>3
  <2> QED BY <1>2, <2>1, <2>2
<1>16. mode = "hash" /\ Exists => Commit(i)'
  BY <1>1, <1>2, <1>4 DEF Commit
<1>17. mode = "counter" => Commit(j)'
  BY <1>1, <1>6, <1>10, <1>11, <1>14 DEF Commit
<1>18. d \in [1 .. SizeOf(j)' -> 0 .. 1]
  BY <1>10 DEF Tree
<1>19. DiskInv'
  <2>1. Exists' => \E k \in 0 .. 1 : \E e \in [1 .. SizeOf(k)' -> 0 .. 1] : Commit(k)' /\ Tree(k, e)'
    <3>1. CASE mode = "hash"
      BY <1>3, <1>4, <1>11, <1>12, <1>15, <1>16, <3>1
    <3>2. CASE mode = "counter"
      BY <1>10, <1>17, <1>18, <3>2
    <3> QED BY <1>2, <3>1, <3>2
  <2> QED BY <1>1, <1>2, <1>11, <1>15, <2>1 DEF DiskInv
<1>20. Tree(Cur, d)' /\ (mode = "counter" => Commit(Cur)')
  BY <1>10, <1>11, <1>17, CurTree
<1>21. Idle'
  BY <1>10, <1>11, <1>18, <1>20 DEF Idle
<1>22. MemInv'
  <2>1. CASE mode = "hash"
    <3>1. pc' = "anchor" /\ mode' = "hash"
      BY <1>1, <2>1 DEF AfterSync
    <3> QED BY <1>1, <1>11, <1>13, <1>21, <3>1 DEF MemInv
  <2>2. CASE mode = "counter"
    <3>1. pc' = "idle" /\ mode' = "counter"
      BY <1>1, <2>2 DEF AfterSync
    <3> QED BY <1>1, <1>2, <1>11, <1>13, <1>15, <1>20, <1>21, <2>2, <3>1 DEF MemInv
  <2> QED BY <1>2, <2>1, <2>2
<1>23. Stays(i, c)
  BY <1>1 DEF Stays
<1>24. BaseStays
  BY <1>3, <1>4, <1>23 DEF BaseStays
<1> QED BY <1>8, <1>15, <1>19, <1>22, <1>24 DEF Inv, Synced

----------------------------------------------------------------------------
(* Truncating. *)

(* t is the tree in memory cut to the given length, with max nodes. *)
(* t is the tree in memory, cut to length. *)
Shrunk(t, length, max) ==
  /\ t.counter = ht.counter /\ t.len = length /\ t.dirty = TRUE /\ t.max = max
  /\ t \in [counter : Nat, max : 0 .. MaxNode, len : 0 .. 2 * MaxNode, dirty : BOOLEAN,
            node : {t.node}]
  /\ t.node = [n \in 1 .. Max2(1, max) |-> t.node[n]]
  /\ t.node[1].dirty
  /\ \A n \in 1 .. Max2(1, max) :
       /\ IsNode(t.node[n])
       /\ t.node[n].blk = ht.node[n].blk /\ t.node[n].child = ht.node[n].child
       /\ t.node[n].tag = ht.node[n].tag /\ t.node[n].hash = ht.node[n].hash
       /\ t.node[n].updated = ht.node[n].updated
       /\ (ht.node[n].dirty => t.node[n].dirty)

(* What a truncation makes of the tree. *)
LEMMA TreeShrunk ==
  ASSUME TreeType, NEW length \in 0 .. 2 * MaxNode, NEW q \in Nat, NEW max,
         max = IF q + 1 < ht.max THEN q + 1 ELSE ht.max,
         NEW t, t = [TreeTruncated(ht, q) EXCEPT !.len = length, !.dirty = TRUE,
                                                 !.node[1].dirty = TRUE]
  PROVE  Shrunk(t, length, max)
<1>1. /\ ht.counter \in Nat /\ ht.max \in 0 .. MaxNode /\ ht.len \in 0 .. 2 * MaxNode
      /\ Size \in 1 .. MaxNode /\ MaxNode \in Nat /\ ht.dirty \in BOOLEAN
  BY TreeFacts, Consts
<1>2. max \in 0 .. MaxNode /\ max <= ht.max /\ max \in Nat
  BY <1>1
<1>3. PICK K : K = Max2(1, max)
  OBVIOUS
<1>4. K \in 1 .. Size /\ K \in Nat /\ 1 \in 1 .. K
  BY <1>1, <1>2, <1>3 DEF Max2, Size
<1>5. PICK g : g = [n \in 1 .. K |-> ht.node[n]]
  OBVIOUS
<1>6. PICK D : D = (ht.dirty \/ max < ht.max)
  OBVIOUS
<1>7. TreeTruncated(ht, q) = [ht EXCEPT !.max = max, !.dirty = D, !.node = g]
  BY <1>3, <1>5, <1>6 DEF TreeTruncated, NodesUpTo
<1>8. PICK f : f = [g EXCEPT ![1] = [g[1] EXCEPT !.dirty = TRUE]]
  OBVIOUS
<1>9. PICK h : h = ht
  OBVIOUS
<1>10. h \in [counter : Nat, max : 0 .. MaxNode, len : 0 .. 2 * MaxNode, dirty : BOOLEAN,
              node : {h.node}]
  BY <1>9 DEF TreeType
<1>11. PICK x : x = [h EXCEPT !.max = max, !.dirty = D, !.node = g]
  OBVIOUS
<1>12. x.counter = h.counter /\ x.max = max /\ x.len = h.len /\ x.node = g
       /\ x = [counter |-> h.counter, max |-> max, len |-> h.len, dirty |-> D, node |-> g]
  BY <1>10, <1>11
<1>13. t = [x EXCEPT !.len = length, !.dirty = TRUE, !.node[1].dirty = TRUE]
  BY <1>7, <1>9, <1>11
<1>14. t.counter = h.counter /\ t.max = max /\ t.len = length /\ t.dirty = TRUE
  BY <1>12, <1>13
<1>15. t.node = f
  BY <1>8, <1>12, <1>13
<1>16. t = [counter |-> h.counter, max |-> max, len |-> length, dirty |-> TRUE, node |-> f]
  BY <1>8, <1>12, <1>13
<1>17. t \in [counter : Nat, max : 0 .. MaxNode, len : 0 .. 2 * MaxNode, dirty : BOOLEAN,
              node : {t.node}]
  BY <1>1, <1>2, <1>9, <1>15, <1>16
<1>18. /\ f = [n \in 1 .. K |-> f[n]]
       /\ \A n \in 1 .. K : f[n] = IF n = 1 THEN [ht.node[1] EXCEPT !.dirty = TRUE] ELSE ht.node[n]
  BY <1>4, <1>5, <1>8
<1>19. ASSUME NEW n \in 1 .. K
       PROVE  /\ f[n].blk = ht.node[n].blk /\ f[n].child = ht.node[n].child
              /\ f[n].tag = ht.node[n].tag /\ f[n].hash = ht.node[n].hash
              /\ f[n].updated = ht.node[n].updated
              /\ (ht.node[n].dirty => f[n].dirty) /\ (n = 1 => f[n].dirty)
              /\ IsNode(f[n])
  <2>1. PICK r, s : r = ht.node[n] /\ s = f[n]
    OBVIOUS
  <2>2. n \in 1 .. Size
    BY <1>1, <1>4
  <2>3. r \in [blk : 0 .. 1, child : Flags, tag : 0 .. changes, hash : {r.hash},
               dirty : BOOLEAN, updated : BOOLEAN]
    BY <2>1, <2>2 DEF TreeType, IsNode
  <2>4. s = IF n = 1 THEN [r EXCEPT !.dirty = TRUE] ELSE r
    BY <1>18, <2>1
  <2>5. /\ s.blk = r.blk /\ s.child = r.child /\ s.tag = r.tag /\ s.hash = r.hash
        /\ s.updated = r.updated /\ (r.dirty => s.dirty) /\ (n = 1 => s.dirty)
        /\ s \in [blk : 0 .. 1, child : Flags, tag : 0 .. changes, hash : {s.hash},
               dirty : BOOLEAN, updated : BOOLEAN]
    BY <2>3, <2>4
  <2> QED BY <2>1, <2>5 DEF IsNode
<1> QED BY <1>3, <1>4, <1>9, <1>14, <1>15, <1>17, <1>18, <1>19 DEF Shrunk

(* Cutting off at most one block leaves the blocks of the base. *)
LEMMA CutBlocks ==
  ASSUME NEW old \in Nat, NEW length \in Nat, CeilBlocks(old) - CeilBlocks(length) <= 1
  PROVE  /\ \A b \in Nat : b * BlockSize < old => ~(b > CeilBlocks(length))
         /\ \A b \in Nat : b * BlockSize < length => ~(b > CeilBlocks(length))
         /\ \A b \in Nat : b * BlockSize < length => b <= length \div BlockSize
<1>1. PICK x, y \in Nat : x = CeilBlocks(old) /\ y = CeilBlocks(length)
  <2>1. CeilBlocks(old) \in Nat /\ CeilBlocks(length) \in Nat
    BY DEF CeilBlocks, BlockSize
  <2> QED BY <2>1
<1>2. old <= 2 * x /\ 2 * x < old + 2 /\ length <= 2 * y /\ 2 * y < length + 2
  BY <1>1 DEF CeilBlocks, BlockSize
<1>3. x - y <= 1
  BY <1>1
<1>4. ASSUME NEW b \in Nat, b * BlockSize < old PROVE ~(b > CeilBlocks(length))
  <2>1. 2 * b < old
    BY <1>4 DEF BlockSize
  <2>2. b < x
    BY <1>2, <2>1
  <2> QED BY <1>1, <1>3, <2>2
<1>5. ASSUME NEW b \in Nat, b * BlockSize < length
      PROVE  ~(b > CeilBlocks(length)) /\ b <= length \div BlockSize
  <2>1. 2 * b < length
    BY <1>5 DEF BlockSize
  <2>2. b < y
    BY <1>2, <2>1
  <2>3. length \div BlockSize \in Nat /\ length < 2 * (length \div BlockSize) + 2
    BY BlockOf, Consts
  <2>4. b <= length \div BlockSize
    BY <2>1, <2>3
  <2> QED BY <1>1, <2>2, <2>4
<1> QED BY <1>4, <1>5

(* A gentle truncation keeps the invariant and the base. *)
LEMMA TruncateStep ==
  ASSUME Inv, NEW length \in 0 .. 2 * MaxNode, Truncate(length), TruncatesGently(length)
  PROVE  Inv' /\ Exists' = Exists /\ BaseStays
<1>1. /\ mode = "hash" /\ pc = "idle" /\ 0 < length /\ length < ht.len
      /\ CeilBlocks(ht.len) - CeilBlocks(length) <= 1
      /\ pc' = "sync" /\ todo' = PostOrder(ht'.max) /\ changes' = changes + 1
      /\ UNCHANGED <<mode, file, head, node, trusted>>
  BY DEF Truncate, TruncatesGently, SyncOf
<1>2. /\ DiskInv /\ DiskType /\ TreeType /\ Reads /\ RootsDiffer /\ mode \in {"hash", "counter"}
      /\ (Exists => Commit(Cur)) /\ changes \in Nat
  BY <1>1 DEF Inv, DiskInv, MemInv, DiskType
<1>3. PICK c \in [1 .. SizeOf(Cur) -> 0 .. 1] : Tree(Cur, c) /\ Near(c)
  BY <1>1 DEF Inv, MemInv, Idle
<1>4. PICK i \in 0 .. 1 : i = Cur
  BY <1>2, TreeFacts
<1>5. /\ ht.len \in 0 .. 2 * MaxNode /\ Size \in 1 .. MaxNode /\ MaxNode \in Nat /\ ht.max \in 0 .. MaxNode
      /\ SizeOf(i) \in 1 .. MaxNode /\ head[i].len \in 0 .. 2 * MaxNode /\ length \in Nat
      /\ CeilBlocks(ht.len) \in Int /\ CeilBlocks(length) \in Int
      /\ Nodes(ht) = 1 .. Size
  <2>1. /\ ht.len \in 0 .. 2 * MaxNode /\ Size \in 1 .. MaxNode /\ MaxNode \in Nat
        /\ ht.max \in 0 .. MaxNode /\ Nodes(ht) = 1 .. Size
    BY <1>2, TreeFacts, Consts
  <2>2. SizeOf(i) \in 1 .. MaxNode /\ head[i].len \in 0 .. 2 * MaxNode
    BY <1>2, <1>4, HeadFacts
  <2>3. length \in Nat
    BY <2>1, Consts
  <2>4. CeilBlocks(ht.len) \in Int /\ CeilBlocks(length) \in Int
    BY <2>1, <2>3 DEF CeilBlocks, BlockSize
  <2> QED BY <2>1, <2>2, <2>3, <2>4
<1>6. length < ht.len /\ CeilBlocks(ht.len) - CeilBlocks(length) <= 1 /\ ht.len \in Nat
  BY <1>1, <1>5
<1>7. PICK q \in Nat : q = length \div BlockSize
  BY <1>5, BlockOf
<1>8. PICK max : max = IF q + 1 < ht.max THEN q + 1 ELSE ht.max
  OBVIOUS
<1>9. Shrunk(ht', length, max)
  <2>1. ht' = [TreeTruncated(ht, q) EXCEPT !.len = length, !.dirty = TRUE, !.node[1].dirty = TRUE]
    BY <1>7 DEF Truncate
  <2> QED BY <1>2, <1>7, <1>8, <2>1, TreeShrunk
<1>10. PICK K : K = Max2(1, max)
  OBVIOUS
<1>11. max \in 0 .. MaxNode /\ K \in 1 .. Size /\ K \in Nat /\ (max = ht.max => K = Size)
       /\ (max # ht.max => K = q + 1)
  BY <1>5, <1>8, <1>10 DEF Max2, Size
<1>12. PICK f : f = ht'.node
  OBVIOUS
<1>13. /\ ht'.counter = ht.counter /\ ht'.len = length /\ ht'.dirty = TRUE /\ ht'.max = max
       /\ f[1].dirty
       /\ \A n \in 1 .. K :
            /\ IsNode(f[n])
            /\ f[n].blk = ht.node[n].blk /\ f[n].child = ht.node[n].child
            /\ f[n].tag = ht.node[n].tag /\ f[n].hash = ht.node[n].hash
            /\ f[n].updated = ht.node[n].updated
            /\ (ht.node[n].dirty => f[n].dirty)
  BY <1>9, <1>10, <1>12, Zenon DEF Shrunk
<1>14. Cur' = i /\ Size' = K /\ SizeOf(i)' = SizeOf(i) /\ 1 \in 1 .. K
  BY <1>1, <1>4, <1>10, <1>11, <1>13 DEF Cur, Size, SizeOf
<1>15. TreeType'
  <2>1. \A n \in 1 .. K : IsNode(ht.node[n])'
    <3> SUFFICES ASSUME NEW n \in 1 .. K PROVE IsNode(ht.node[n])'
      OBVIOUS
    <3>1. PICK r : r = f[n]
      OBVIOUS
    <3>2. r \in [blk : 0 .. 1, child : Flags, tag : 0 .. changes, hash : {r.hash},
                 dirty : BOOLEAN, updated : BOOLEAN]
      BY <1>13, <3>1 DEF IsNode
    <3>3. r \in [blk : 0 .. 1, child : Flags, tag : 0 .. changes + 1, hash : {r.hash},
                 dirty : BOOLEAN, updated : BOOLEAN]
      BY <1>2, <3>2
    <3> QED BY <1>1, <1>12, <3>1, <3>3 DEF IsNode
  <2>2. /\ ht' \in [counter : Nat, max : 0 .. MaxNode, len : 0 .. 2 * MaxNode, dirty : BOOLEAN,
                    node : {ht'.node}]
        /\ ht'.node = [n \in 1 .. K |-> ht'.node[n]]
    BY <1>9, <1>10 DEF Shrunk
  <2> QED BY <1>14, <2>1, <2>2 DEF TreeType
<1>16. /\ blk' = [b \in Blocks |-> IF b > CeilBlocks(length) THEN [v \in 0 .. 1 |-> ZeroBlock]
                                   ELSE blk[b]]
  BY DEF Truncate
<1>17. DiskType'
  <2>1. \A v \in 0 .. 1 : IsHead(head[v])'
    BY <1>1, <1>2 DEF DiskType, IsHead
  <2>2. ASSUME NEW n \in 1 .. MaxNode, NEW v \in 0 .. 1 PROVE IsImage(node[n][v])'
    <3>1. PICK r : r = node[n][v]
      OBVIOUS
    <3>2. r \in [blk : 0 .. 1, child : Flags, tag : 0 .. changes, hash : {r.hash}]
      BY <1>2, <3>1 DEF DiskType, IsImage
    <3>3. r \in [blk : 0 .. 1, child : Flags, tag : 0 .. changes + 1, hash : {r.hash}]
      BY <1>2, <3>2
    <3> QED BY <1>1, <3>1, <3>3 DEF IsImage
  <2>3. changes' \in Nat
    BY <1>1, <1>2
  <2>4. head' = [v \in 0 .. 1 |-> head'[v]] /\ node' = [n \in 1 .. MaxNode |-> [v \in 0 .. 1 |-> node'[n][v]]]
    BY <1>1, <1>2 DEF DiskType
  <2> DEFINE Old == [tag : 0 .. changes, data : [0 .. BlockSize - 1 -> 0 .. changes]]
             Set == [tag : 0 .. changes + 1, data : [0 .. BlockSize - 1 -> 0 .. changes + 1]]
  <2>5. Old \subseteq Set
    BY <1>2
  <2>6. ZeroBlock \in Set
    BY <1>2 DEF ZeroBlock
  <2>7. blk \in [Blocks -> [0 .. 1 -> Old]]
    BY <1>2 DEF DiskType
  <2>8. blk' \in [Blocks -> [0 .. 1 -> Set]]
    <3> HIDE DEF Old, Set
    <3>1. \A b \in Blocks : blk[b] \in [0 .. 1 -> Set]
      BY <2>5, <2>7
    <3>2. [v \in 0 .. 1 |-> ZeroBlock] \in [0 .. 1 -> Set]
      BY <2>6
    <3> QED BY <1>16, <3>1, <3>2
  <2>9. blk' \in [Blocks -> [0 .. 1 -> [tag : 0 .. changes', data : [0 .. BlockSize - 1 -> 0 .. changes']]]]
    BY <1>1, <2>8
  <2> QED BY <1>1, <1>2, <2>1, <2>2, <2>3, <2>4, <2>9 DEF DiskType
<1>18. /\ \A b \in Blocks : b * BlockSize < ht.len => blk'[b] = blk[b]
       /\ \A b \in Blocks : b * BlockSize < length => blk'[b] = blk[b] /\ b <= q
  <2>1. \A b \in Blocks : b \in Nat
    BY Consts DEF Blocks
  <2>2. /\ \A b \in Nat : b * BlockSize < ht.len => ~(b > CeilBlocks(length))
        /\ \A b \in Nat : b * BlockSize < length => ~(b > CeilBlocks(length))
        /\ \A b \in Nat : b * BlockSize < length => b <= length \div BlockSize
    BY <1>5, <1>6, CutBlocks
  <2> QED BY <1>7, <1>16, <2>1, <2>2
<1>19. Reads'
  <2> SUFFICES ASSUME NEW b \in Blocks, b * BlockSize < length
               PROVE  b + 1 <= K /\ Decrypts(b, ht.node[b + 1])'
    BY <1>13, <1>14 DEF Reads
  <2>1. b \in Nat /\ b * BlockSize < ht.len
    BY <1>5, <1>6, Consts DEF Blocks, BlockSize
  <2>2. b + 1 <= Size /\ Decrypts(b, ht.node[b + 1]) /\ blk'[b] = blk[b] /\ b <= q
    BY <1>2, <1>18, <2>1 DEF Reads
  <2>3. b + 1 <= K
    BY <1>11, <2>1, <2>2
  <2>4. b + 1 \in 1 .. K
    BY <1>11, <2>1, <2>3
  <2>5. f[b + 1].blk = ht.node[b + 1].blk /\ f[b + 1].tag = ht.node[b + 1].tag
    BY <1>13, <2>4
  <2> QED BY <1>12, <2>2, <2>3, <2>5 DEF Decrypts
<1>20. /\ ht.len >= head[i].len /\ SizeOf(i) <= Size
       /\ ht.len > head[i].len =>
             /\ head[i].len \div BlockSize < Size /\ ht.node[head[i].len \div BlockSize + 1].updated
       /\ \A n \in 1 .. SizeOf(i) :
             /\ ht.node[n].child = node[n][c[n]].child /\ ht.node[n].hash = node[n][c[n]].hash
             /\ Block(n, node[n][c[n]])
       /\ \A n \in 1 .. Size : n > SizeOf(i) => ht.node[n].updated
       /\ \A n \in 1 .. Size : ht.node[n].updated => ht.node[n].dirty
       /\ head[i].counter = ht.counter
  BY <1>3, <1>4, Zenon DEF Near
<1>21. \A b \in Blocks : b * BlockSize < head[i].len => b * BlockSize < ht.len
  <2>1. \A b \in Blocks : b \in Nat
    BY Consts DEF Blocks
  <2>2. PICK x, y \in Nat : x = head[i].len /\ y = ht.len
    BY <1>5
  <2>3. x <= y
    BY <1>20, <2>2
  <2>4. \A b \in Blocks : b * 2 < x => b * 2 < y
    BY <2>1, <2>2, <2>3
  <2> QED BY <2>2, <2>4 DEF BlockSize
<1>22. Stays(i, c)
  BY <1>1, <1>18, <1>21 DEF Stays
<1>23. Tree(i, c)'
  BY <1>1, <1>2, <1>3, <1>4, <1>18, <1>21, TreeKept
<1>24. Order(todo)' /\ Pending' = 1 .. K
  <2>1. (ht.max \in 0 .. MaxNode /\ todo = PostOrder(ht.max) =>
            Order(todo) /\ Pending = 1 .. Size /\ todo # << >>)'
    BY OrderStarts, PTL
  <2> QED BY <1>1, <1>11, <1>13, <1>14, <2>1
<1>25. ASSUME NEW n \in 1 .. K
       PROVE  /\ n \in 1 .. Size /\ (n <= SizeOf(i) => n \in 1 .. SizeOf(i)) /\ (f[n].updated => f[n].dirty)
              /\ (n > SizeOf(i) => f[n].updated) /\ (n <= SizeOf(i) \/ n > SizeOf(i))
              /\ f[n].blk = ht.node[n].blk /\ f[n].child = ht.node[n].child
              /\ f[n].tag = ht.node[n].tag /\ f[n].hash = ht.node[n].hash
              /\ f[n].updated = ht.node[n].updated
  <2>1. n \in 1 .. Size /\ (n <= SizeOf(i) => n \in 1 .. SizeOf(i)) /\ (n <= SizeOf(i) \/ n > SizeOf(i))
    BY <1>5, <1>11
  <2>2. /\ f[n].blk = ht.node[n].blk /\ f[n].child = ht.node[n].child
        /\ f[n].tag = ht.node[n].tag /\ f[n].hash = ht.node[n].hash
        /\ f[n].updated = ht.node[n].updated /\ (ht.node[n].dirty => f[n].dirty)
    BY <1>13, Zenon
  <2> QED BY <1>20, <2>1, <2>2
<1>26. ASSUME NEW n \in 1 .. K PROVE Unsynced(c, n)'
  <2>1. n <= SizeOf(i) =>
          /\ f[n].child = node[n][c[n]].child /\ f[n].hash = node[n][c[n]].hash
          /\ Block(n, node[n][c[n]])
    BY <1>20, <1>25
  <2>2. n <= SizeOf(i) => Block(n, node[n][c[n]])'
    BY <1>1, <1>12, <1>25, <2>1 DEF Block
  <2>3. Differs(c, n)' => f[n].dirty
    <3> SUFFICES ASSUME Differs(c, n)' PROVE f[n].dirty
      OBVIOUS
    <3>1. \/ n > SizeOf(i)
          \/ f[n].tag # node[n][c[n]].tag \/ f[n].child # node[n][c[n]].child
          \/ n = 1
      BY <1>1, <1>12, <1>14 DEF Differs
    <3>2. CASE n > SizeOf(i)
      BY <1>25, <3>2
    <3>3. CASE n <= SizeOf(i) /\ f[n].tag # node[n][c[n]].tag
      BY <1>25, <2>1, <3>3 DEF Block
    <3>4. CASE n = 1
      BY <1>13, <3>4
    <3> QED BY <1>25, <2>1, <3>1, <3>2, <3>3, <3>4
  <2>4. ASSUME ~f[n].dirty, NEW m \in Kids(n), m <= SizeOf(i) PROVE m <= K
    <3> SUFFICES ASSUME ~(m <= K) PROVE FALSE
      OBVIOUS
    <3>1. m \in Nat /\ m \div 2 = n /\ m >= 1
      BY <1>11 DEF Kids
    <3>2. m \in 1 .. Size /\ m \notin 1 .. K
      BY <1>5, <1>11, <1>20, <2>4, <3>1
    <3>3. Nodes(ht') = 1 .. K
      <4>1. DOMAIN [x \in 1 .. K |-> ht'.node[x]] = 1 .. K
        OBVIOUS
      <4>2. ht'.node = [x \in 1 .. K |-> ht'.node[x]]
        BY <1>9, <1>10 DEF Shrunk
      <4> QED BY <4>1, <4>2, Zenon DEF Nodes
    <3>4. ht'.node[m \div 2].dirty
      BY <1>1, <1>5, <3>1, <3>2, <3>3 DEF TruncatesGently
    <3> QED BY <1>12, <2>4, <3>1, <3>4
  <2>5. ~f[n].dirty => n <= SizeOf(i)
    BY <1>25
  <2>6. \A m : m \notin (1 .. K \ 1 .. K)
    OBVIOUS
  <2>7. SizeOf(Cur)' = SizeOf(i)
    BY <1>1, <1>14 DEF SizeOf
  <2> QED BY <1>1, <1>12, <1>14, <1>24, <1>25, <2>1, <2>2, <2>3, <2>4, <2>5, <2>6, <2>7 DEF Unsynced
<1>27. \E n \in 1 .. K : Differs(c, n)'
  <2>1. CASE length # head[i].len
    <3>1. Differs(c, 1)'
      BY <1>1, <1>13, <1>14, <2>1 DEF Differs
    <3> QED BY <1>14, <3>1
  <2>2. CASE length = head[i].len
    <3>1. q + 1 <= Size /\ ht.node[q + 1].updated
      BY <1>5, <1>6, <1>7, <1>20, <2>2
    <3>2. q + 1 \in 1 .. K
      BY <1>5, <1>8, <1>10, <3>1 DEF Max2, Size
    <3>3. PICK n \in 1 .. K : n = q + 1
      BY <3>2
    <3>4. CASE n > SizeOf(i)
      <4>1. SizeOf(Cur)' = SizeOf(i)
        BY <1>1, <1>14 DEF SizeOf
      <4> QED BY <3>4, <4>1 DEF Differs
    <3>5. CASE n <= SizeOf(i)
      <4>1. Block(n, node[n][c[n]]) /\ n \in 1 .. SizeOf(i) /\ n \in 1 .. MaxNode /\ c[n] \in 0 .. 1
        BY <1>3, <1>4, <1>5, <1>20, <1>25, <3>5
      <4>2. ht.node[n].tag > node[n][c[n]].tag
        BY <3>1, <3>3, <4>1 DEF Block
      <4>3. ht.node[n].tag \in Int /\ node[n][c[n]].tag \in Int
        BY <1>2, <1>25, <4>1, NodeFacts, ImageFacts
      <4>4. f[n].tag # node[n][c[n]].tag
        BY <1>25, <4>2, <4>3
      <4> QED BY <1>1, <1>12, <4>4 DEF Differs
    <3> QED BY <1>25, <3>4, <3>5
  <2> QED BY <2>1, <2>2
<1>28. Syncing(c)'
  <2>1. (head[Cur].counter = ht.counter)'
    BY <1>1, <1>13, <1>14, <1>20
  <2>2. \A n \in (1 .. Size \ Pending)' : Synced(n)'
    BY <1>14, <1>24
  <2> QED BY <1>24, <1>26, <1>27, <2>1, <2>2 DEF Syncing
<1>29. Exists' = Exists /\ RootsDiffer' /\ (Exists => Commit(i)')
  BY <1>1, <1>2, <1>4 DEF Exists, RootsDiffer, Commit
<1>30. DiskInv'
  BY <1>1, <1>2, <1>3, <1>4, <1>14, <1>17, <1>23, <1>29 DEF DiskInv
<1>31. Tree(Cur, c)' /\ (Exists => Commit(Cur)')
  BY <1>14, <1>23, <1>29, CurTree
<1>32. InSync'
  BY <1>3, <1>4, <1>14, <1>28, <1>31 DEF InSync
<1>33. MemInv'
  BY <1>1, <1>15, <1>19, <1>29, <1>31, <1>32 DEF MemInv
<1>34. BaseStays
  BY <1>3, <1>4, <1>22 DEF BaseStays
<1> QED BY <1>29, <1>30, <1>33, <1>34 DEF Inv

----------------------------------------------------------------------------
(* Every step. *)

(* A step that changes nothing keeps the invariant. *)
LEMMA StutterStep ==
  ASSUME Inv, UNCHANGED vars
  PROVE  Inv'
<1>1. UNCHANGED <<mode, file, head, node, blk, trusted, ht, pc, todo, changes>>
  BY DEF vars
<1>2. DiskInv' /\ Exists' = Exists
  BY <1>1, DiskSame DEF Inv, disk
<1>3. /\ Cur' = Cur /\ TreeType' = TreeType /\ Reads' = Reads /\ RootsDiffer' = RootsDiffer
      /\ \A i : SizeOf(i)' = SizeOf(i) /\ Commit(i)' = Commit(i)
      /\ Creating' = Creating /\ Commit(Cur)' = Commit(Cur)
  BY <1>1, MemorySame DEF Creating, Exists
<1>4. ASSUME NEW c, Tree(Cur, c), pc # "closed" PROVE Tree(Cur, c)'
  <2>1. PICK i : i = Cur
    OBVIOUS
  <2>2. Tree(i, c)' /\ i = Cur'
    BY <1>1, <1>3, <1>4, <2>1, TreeSame DEF Inv, DiskInv
  <2> QED BY <2>2, CurTree
<1>5. \A c : Near(c)' = Near(c)
  BY <1>1, MemorySame
<1>6. \A c : Syncing(c)' = Syncing(c)
  BY <1>1 DEF Syncing, Order, Pending, Elements, Unsynced, Synced, Differs, Block, Size, SizeOf, Cur
<1>7. pc \in {"dummy", "idle", "anchor"} => Idle'
  <2> SUFFICES ASSUME pc \in {"dummy", "idle", "anchor"} PROVE Idle'
    OBVIOUS
  <2>1. PICK c \in [1 .. SizeOf(Cur) -> 0 .. 1] : Tree(Cur, c) /\ Near(c)
    BY DEF Inv, MemInv, Idle
  <2>2. c \in [1 .. SizeOf(Cur)' -> 0 .. 1]
    BY <1>1 DEF SizeOf, Cur
  <2> QED BY <1>4, <1>5, <2>1, <2>2 DEF Idle
<1>8. pc = "sync" => InSync'
  <2> SUFFICES ASSUME pc = "sync" PROVE InSync'
    OBVIOUS
  <2>1. PICK c \in [1 .. SizeOf(Cur) -> 0 .. 1] : Tree(Cur, c) /\ Syncing(c)
    BY DEF Inv, MemInv, InSync
  <2>2. c \in [1 .. SizeOf(Cur)' -> 0 .. 1]
    BY <1>1 DEF SizeOf, Cur
  <2> QED BY <1>4, <1>6, <2>1, <2>2 DEF InSync
<1>9. MemInv'
  BY <1>1, <1>2, <1>3, <1>7, <1>8 DEF Inv, MemInv
<1> QED BY <1>2, <1>9 DEF Inv

(* So does every other step, one case for each action. *)
LEMMA NextStep ==
  ASSUME Inv, GentleTruncation, Next
  PROVE  Inv'
<1>1. changes \in Nat /\ MaxNode \in Nat /\ Cuts \subseteq 0 .. 2 * MaxNode
  BY Consts DEF Inv, DiskInv, DiskType
<1>2. changes + 1 \in 0 .. changes + 1
  BY <1>1
<1>3. ASSUME NEW from \in Cuts, NEW to \in Cuts, OutOfPlaceWrite(from, to, changes + 1) PROVE Inv'
  BY <1>1, <1>2, <1>3, OutOfPlaceWriteStep
<1>4. ASSUME NEW from \in Cuts, NEW to \in Cuts, OutOfPlaceWriteStops(from, to, changes + 1) PROVE Inv'
  BY <1>1, <1>2, <1>4, OutOfPlaceWriteStopsStep
<1>5. ASSUME NEW length \in Cuts, Extend(length) PROVE Inv'
  BY <1>1, <1>5, ExtendStep
<1>6. ASSUME NEW length \in Cuts, Truncate(length) PROVE Inv'
  BY <1>1, <1>6, TruncateStep DEF GentleTruncation
<1>6f. ASSUME NEW length \in Cuts, TruncateFails(length) PROVE Inv'
  BY <1>6f, FailsGently, StutterStep
<1>7. ASSUME SyncNode PROVE Inv'
  <2>1. pc = "create" \/ pc = "sync"
    BY <1>7 DEF SyncNode
  <2> QED BY <1>7, <2>1, CreateNodeStep, SyncNodeStep
<1>8. ASSUME SyncHead PROVE Inv'
  <2>1. pc = "create" \/ pc = "sync"
    BY <1>8 DEF SyncHead
  <2> QED BY <1>8, <2>1, CreateHeadStep, SyncHeadStep
<1> QED BY <1>3, <1>4, <1>5, <1>6, <1>6f, <1>7, <1>8, CreateStep, OpenStep, OpenPartiallyDoneStep,
           OpenEmptyStep, SyncToStorageStep, WriteDummyHeadStep, AnchorStep, LoseStep DEF Next

(* Whenever power is lost, requests fail or the file is closed, DiskInv and MemInv *)
(* hold: the committed version of the file is a tree whose hashes verify and whose *)
(* blocks decrypt, and the tree in memory differs from it only in what its flags   *)
(* say.  For every number of nodes, blocks, writes and syncs, and for the          *)
(* truncations that tee_fs_htree_truncate gets right.                              *)
THEOREM Inductive ==
  Spec /\ [][GentleTruncation]_vars => []Inv
<1>1. Init => Inv
  BY InitStep
<1>2. Inv /\ [Next]_vars /\ [GentleTruncation]_vars => Inv'
  <2>1. CASE UNCHANGED vars
    BY <2>1, StutterStep
  <2>2. CASE Next /\ GentleTruncation
    BY <2>2, NextStep
  <2> QED BY <2>1, <2>2
<1> QED BY <1>1, <1>2, PTL DEF Spec

----------------------------------------------------------------------------
(* What the file reads as. *)

(* The content of version i of the file, its nodes in the versions c. *)
UnitAt(c, u) ==
  blk[u \div BlockSize][node[(u \div BlockSize) + 1][c[(u \div BlockSize) + 1]].blk].data[u % BlockSize]
Content(i, c) == [u \in 0 .. head[i].len - 1 |-> UnitAt(c, u)]

(* What the next open reads is the content of the committed tree. *)
LEMMA SavedIs ==
  ASSUME DiskType, Exists, NEW i, NEW c, Commit(i), Tree(i, c)
  PROVE  /\ Saved = Content(i, c)
         /\ \A u \in 0 .. head[i].len - 1 : UnitAt(c, u) \in 0 .. changes
<1>1. i \in 0 .. 1
  BY DEF Tree
<1>2. head[i].len \in 0 .. 2 * MaxNode /\ SizeOf(i) \in 1 .. MaxNode /\ MaxNode \in Nat
  BY <1>1, HeadFacts, Consts
<1>3. PICK t : t = TreeFromData(i)
  OBVIOUS
<1>4. AsLoaded(t, i, c)
  BY <1>3, FromData
<1>5. Saved = ReadAll(t)
  BY <1>3, Taken, Opens DEF Saved
<1>6. ASSUME NEW u \in 0 .. head[i].len - 1
      PROVE  /\ BlockReads(t, u \div BlockSize)
             /\ BlockData(t, u \div BlockSize)[u % BlockSize] = UnitAt(c, u)
             /\ UnitAt(c, u) \in 0 .. changes
  <2>1. PICK b : b = u \div BlockSize
    OBVIOUS
  <2>2. b \in Blocks /\ b * BlockSize < head[i].len /\ u % BlockSize \in 0 .. BlockSize - 1
    BY <1>2, <1>6, <2>1, UnitOf
  <2>3. b + 1 <= SizeOf(i) /\ Decrypts(b, node[b + 1][c[b + 1]])
    BY <2>2 DEF Tree
  <2>4. b \in Nat /\ b + 1 \in 1 .. SizeOf(i) /\ b + 1 \in 1 .. MaxNode
    BY <1>2, <2>2, <2>3 DEF Blocks
  <2>5. c[b + 1] \in 0 .. 1
    BY <2>4 DEF Tree
  <2>6. node[b + 1][c[b + 1]].blk \in 0 .. 1
    BY <2>4, <2>5, ImageFacts
  <2>7. t.node[b + 1].blk = node[b + 1][c[b + 1]].blk /\ t.node[b + 1].tag = node[b + 1][c[b + 1]].tag
    <3>1. t.node[b + 1] = [blk |-> node[b + 1][c[b + 1]].blk, child |-> node[b + 1][c[b + 1]].child,
                           tag |-> node[b + 1][c[b + 1]].tag, hash |-> node[b + 1][c[b + 1]].hash,
                           dirty |-> FALSE, updated |-> FALSE]
      BY <1>4, <2>4, Zenon DEF AsLoaded
    <3>2. PICK r : r = t.node[b + 1]
      OBVIOUS
    <3> QED BY <3>1, <3>2
  <2>8. Nodes(t) = 1 .. SizeOf(i)
    BY <1>4 DEF AsLoaded
  <2>9. BlockReads(t, b)
    BY <2>3, <2>4, <2>7, <2>8 DEF BlockReads, Decrypts
  <2>10. BlockData(t, b)[u % BlockSize] = UnitAt(c, u)
    BY <2>1, <2>7 DEF BlockData, UnitAt
  <2>11. UnitAt(c, u) \in 0 .. changes
    BY <2>1, <2>2, <2>6, BlockFacts DEF UnitAt
  <2> QED BY <2>1, <2>9, <2>10, <2>11
<1>7. t.len = head[i].len
  BY <1>4 DEF AsLoaded
<1>8. Saved = Content(i, c)
  BY <1>5, <1>6, <1>7 DEF ReadAll, Content
<1> QED BY <1>6, <1>8

(* What is committed can be opened and read. *)
LEMMA SavedReads ==
  ASSUME Inv
  PROVE  ReopenVerifies
<1>1. CASE ~Exists
  <2>1. Saved = None
    BY <1>1 DEF Saved
  <2> QED BY <2>1, ConstantsOK DEF ReopenVerifies
<1>2. CASE Exists
  <2>1. PICK i \in 0 .. 1 : \E c \in [1 .. SizeOf(i) -> 0 .. 1] : Commit(i) /\ Tree(i, c)
    BY <1>2 DEF Inv, DiskInv
  <2>2. PICK c \in [1 .. SizeOf(i) -> 0 .. 1] : Commit(i) /\ Tree(i, c)
    BY <2>1
  <2>3. DiskType /\ changes \in Nat
    BY DEF Inv, DiskInv, DiskType
  <2>4. /\ Saved = Content(i, c)
        /\ \A u \in 0 .. head[i].len - 1 : UnitAt(c, u) \in 0 .. changes
    BY <1>2, <2>2, <2>3, SavedIs
  <2>5. PICK s : s = Saved
    OBVIOUS
  <2>6. PICK l : l = head[i].len
    OBVIOUS
  <2>7. s \in [0 .. l - 1 -> Int] /\ \A u \in 0 .. l - 1 : s[u] # -1
    <3>1. s = [u \in 0 .. l - 1 |-> UnitAt(c, u)]
      BY <2>4, <2>5, <2>6 DEF Content
    <3>2. \A u \in 0 .. l - 1 : UnitAt(c, u) \in Int /\ UnitAt(c, u) # -1
      BY <2>3, <2>4, <2>6
    <3> QED BY <3>1, <3>2
  <2>8. l \in 0 .. 2 * MaxNode
    BY <2>1, <2>3, <2>6, HeadFacts
  <2>9. l \in 0 .. MaxNode * 2
    BY <2>8, Consts
  <2>10. s # Corrupt
    BY <2>7, <2>9, ConstantsOK
  <2>11. \A u \in DOMAIN s : s[u] # -1
    BY <2>7
  <2> QED BY <2>5, <2>10, <2>11 DEF ReopenVerifies, Unreadable
<1> QED BY <1>1, <1>2

(* ReopenVerifies: the file that was last committed always opens again, its hashes *)
(* verify and each of its blocks decrypts.  (tee_fs_htree_open,                    *)
(* tee_fs_htree_read_block)                                                        *)
THEOREM ReopensAfterPowerLoss ==
  Spec /\ [][GentleTruncation]_vars => []ReopenVerifies
<1>1. Inv => ReopenVerifies
  BY SavedReads
<1> QED BY <1>1, Inductive, PTL

----------------------------------------------------------------------------
(* What is committed is not touched. *)

(* The step leaves the images of the committed tree. *)
CommittedStays == Exists => \E i \in 0 .. 1 : \E c \in [1 .. SizeOf(i) -> 0 .. 1] :
                               Commit(i) /\ Tree(i, c) /\ Stays(i, c)

(* A step that writes no image of a node or a block. *)
LEMMA StaysUnchanged ==
  ASSUME Inv, UNCHANGED <<node, blk>>
  PROVE  CommittedStays
<1> SUFFICES ASSUME Exists
             PROVE  \E i \in 0 .. 1 : \E c \in [1 .. SizeOf(i) -> 0 .. 1] :
                       Commit(i) /\ Tree(i, c) /\ Stays(i, c)
  BY DEF CommittedStays
<1>1. PICK i \in 0 .. 1 : \E c \in [1 .. SizeOf(i) -> 0 .. 1] : Commit(i) /\ Tree(i, c)
  BY DEF Inv, DiskInv
<1>2. PICK c \in [1 .. SizeOf(i) -> 0 .. 1] : Commit(i) /\ Tree(i, c)
  BY <1>1
<1>3. Stays(i, c)
  BY DEF Stays
<1> QED BY <1>2, <1>3

(* A step on a tree in memory whose base is the committed tree. *)
LEMMA StaysAtBase ==
  ASSUME Inv, pc \in {"idle", "sync"}, BaseStays
  PROVE  CommittedStays
<1> SUFFICES ASSUME Exists
             PROVE  \E i \in 0 .. 1 : \E c \in [1 .. SizeOf(i) -> 0 .. 1] :
                       Commit(i) /\ Tree(i, c) /\ Stays(i, c)
  BY DEF CommittedStays
<1>1. PICK i \in 0 .. 1 : \E c \in [1 .. SizeOf(i) -> 0 .. 1] : i = Cur /\ Tree(i, c) /\ Stays(i, c)
  BY DEF BaseStays
<1>2. PICK c \in [1 .. SizeOf(i) -> 0 .. 1] : i = Cur /\ Tree(i, c) /\ Stays(i, c)
  BY <1>1
<1>3. Commit(i)
  BY <1>2 DEF Inv, MemInv
<1> QED BY <1>2, <1>3

(* Every step leaves the images of the committed tree. *)
LEMMA StaysAtStep ==
  ASSUME Inv, GentleTruncation, Next
  PROVE  CommittedStays
<1>1. changes \in Nat /\ MaxNode \in Nat /\ Cuts \subseteq 0 .. 2 * MaxNode
  BY Consts DEF Inv, DiskInv, DiskType
<1>2. changes + 1 \in 0 .. changes + 1
  BY <1>1
<1>3. ASSUME NEW from \in Cuts, NEW to \in Cuts, OutOfPlaceWrite(from, to, changes + 1)
      PROVE  CommittedStays
  <2>1. pc = "idle"
    BY <1>3 DEF OutOfPlaceWrite, CanWrite
  <2> QED BY <1>1, <1>2, <1>3, <2>1, OutOfPlaceWriteStep, StaysAtBase
<1>4. ASSUME NEW from \in Cuts, NEW to \in Cuts, OutOfPlaceWriteStops(from, to, changes + 1)
      PROVE  CommittedStays
  <2>1. pc = "idle"
    BY <1>4 DEF OutOfPlaceWriteStops, CanWrite
  <2> QED BY <1>1, <1>2, <1>4, <2>1, OutOfPlaceWriteStopsStep, StaysAtBase
<1>5. ASSUME NEW length \in Cuts, Extend(length) PROVE CommittedStays
  <2>1. pc = "idle"
    BY <1>5 DEF Extend
  <2> QED BY <1>1, <1>5, <2>1, ExtendStep, StaysAtBase
<1>6. ASSUME NEW length \in Cuts, Truncate(length) PROVE CommittedStays
  <2>1. pc = "idle"
    BY <1>6 DEF Truncate
  <2> QED BY <1>1, <1>6, <2>1, TruncateStep, StaysAtBase DEF GentleTruncation
<1>6f. ASSUME NEW length \in Cuts, TruncateFails(length) PROVE CommittedStays
  BY <1>6f, StaysUnchanged DEF TruncateFails, disk
<1>7. ASSUME SyncNode PROVE CommittedStays
  <2>1. pc = "create" \/ pc = "sync"
    BY <1>7 DEF SyncNode
  <2>2. CASE pc = "create"
    BY <2>2 DEF Inv, MemInv, Creating, CommittedStays
  <2>3. CASE pc = "sync"
    BY <1>7, <2>3, SyncNodeStep, StaysAtBase
  <2> QED BY <2>1, <2>2, <2>3
<1>8. ASSUME SyncHead PROVE CommittedStays
  BY <1>8, StaysUnchanged DEF SyncHead
<1>9. ASSUME Create \/ OpenEmpty PROVE CommittedStays
  <2>1. ~Exists
    BY <1>9 DEF Inv, DiskInv, DiskType, Exists, Create, OpenEmpty
  <2> QED BY <2>1 DEF CommittedStays
<1>10. ASSUME Open \/ OpenPartiallyDone \/ SyncToStorage \/ WriteDummyHead \/ Anchor \/ Lose
       PROVE  CommittedStays
  BY <1>10, StaysUnchanged DEF Open, OpenPartiallyDone, SyncToStorage, WriteDummyHead, Anchor, Lose, disk
<1> QED BY <1>3, <1>4, <1>5, <1>6, <1>6f, <1>7, <1>8, <1>9, <1>10 DEF Next

(* In the words of the property. *)
Untouched(t) ==
  /\ \A i \in CommittedNodes(t) : node'[i[1]][i[2]] = node[i[1]][i[2]]
  /\ \A i \in CommittedBlocks(t) : blk'[i[1]][i[2]] = blk[i[1]][i[2]]

(* The images of the committed tree, as the property names them. *)
LEMMA StaysUntouched ==
  ASSUME DiskType, NEW i, NEW c, Commit(i), Tree(i, c), Stays(i, c)
  PROVE  Untouched(TreeFromData(InitHeadFromData))
<1>1. i \in 0 .. 1 /\ InitHeadFromData = i
  BY Taken DEF Tree
<1>2. head[i].len \in 0 .. 2 * MaxNode /\ SizeOf(i) \in 1 .. MaxNode /\ MaxNode \in Nat
  BY <1>1, HeadFacts, Consts
<1>3. PICK t : t = TreeFromData(i)
  OBVIOUS
<1>4. AsLoaded(t, i, c)
  BY <1>3, FromData
<1>5. Nodes(t) = 1 .. SizeOf(i) /\ t.len = head[i].len
  BY <1>4 DEF AsLoaded
<1>6. ASSUME NEW n \in 1 .. SizeOf(i)
      PROVE  t.node[n].blk = node[n][c[n]].blk /\ t.node[n].child = node[n][c[n]].child
  <2>1. t.node[n] = [blk |-> node[n][c[n]].blk, child |-> node[n][c[n]].child,
                     tag |-> node[n][c[n]].tag, hash |-> node[n][c[n]].hash,
                     dirty |-> FALSE, updated |-> FALSE]
    BY <1>4, <1>6, Zenon DEF AsLoaded
  <2>2. PICK r : r = t.node[n]
    OBVIOUS
  <2> QED BY <2>1, <2>2
<1>7. ASSUME NEW p \in CommittedNodes(t) PROVE node'[p[1]][p[2]] = node[p[1]][p[2]]
  <2>1. \E n \in 1 .. SizeOf(i) : p = <<n, c[n]>>
    <3>1. CASE p = <<1, InitHeadFromData>>
      BY <1>1, <1>2, <3>1 DEF Tree
    <3>2. CASE \E n \in Nodes(t) \ {1} : p = <<n, t.node[n \div 2].child[n % 2]>>
      <4>1. PICK n \in 1 .. SizeOf(i) : n # 1 /\ p = <<n, t.node[n \div 2].child[n % 2]>>
        BY <1>5, <3>2
      <4>2. n \in Nat /\ n > 1 /\ n \in 2 .. SizeOf(i)
        BY <1>2, <4>1
      <4>3. n \div 2 \in 1 .. SizeOf(i)
        BY <1>2, <4>2, Half
      <4>4. t.node[n \div 2].child[n % 2] = node[n \div 2][c[n \div 2]].child[n % 2]
        BY <1>6, <4>3
      <4>5. c[n] = node[n \div 2][c[n \div 2]].child[n % 2]
        BY <4>2 DEF Tree
      <4> QED BY <4>1, <4>4, <4>5
    <3> QED BY <1>7, <3>1, <3>2 DEF CommittedNodes
  <2>2. PICK n \in 1 .. SizeOf(i) : p = <<n, c[n]>>
    BY <2>1
  <2>3. node'[n][c[n]] = node[n][c[n]]
    BY <2>2 DEF Stays
  <2> QED BY <2>2, <2>3
<1>8. ASSUME NEW p \in CommittedBlocks(t) PROVE blk'[p[1]][p[2]] = blk[p[1]][p[2]]
  <2>1. PICK n \in 1 .. SizeOf(i) : (n - 1) * BlockSize < head[i].len /\ p = <<n - 1, t.node[n].blk>>
    BY <1>5, <1>8 DEF CommittedBlocks
  <2>2. PICK b : b = n - 1
    OBVIOUS
  <2>3. n = b + 1 /\ b \in Blocks /\ b * BlockSize < head[i].len
    BY <1>2, <2>1, <2>2 DEF Blocks
  <2>4. p = <<b, node[b + 1][c[b + 1]].blk>>
    BY <1>6, <2>1, <2>2, <2>3
  <2>5. blk'[b][node[b + 1][c[b + 1]].blk] = blk[b][node[b + 1][c[b + 1]].blk]
    BY <2>3 DEF Stays
  <2> QED BY <2>4, <2>5
<1> QED BY <1>1, <1>3, <1>7, <1>8, Zenon DEF Untouched

(* CommittedUntouched: no step writes an image of a node or a block that the *)
(* committed tree is made of.  (htree_sync_node_to_storage,                  *)
(* tee_fs_htree_write_block)                                                 *)
THEOREM UpdatesOutOfPlace ==
  Spec /\ [][GentleTruncation]_vars => CommittedUntouched
<1> DEFINE U == LET t == TreeFromData(InitHeadFromData)
       IN  Exists =>
             /\ \A i \in CommittedNodes(t) : node'[i[1]][i[2]] = node[i[1]][i[2]]
             /\ \A i \in CommittedBlocks(t) : blk'[i[1]][i[2]] = blk[i[1]][i[2]]
<1>1. Inv /\ Next /\ GentleTruncation => U
  <2> SUFFICES ASSUME Inv, Next, GentleTruncation, Exists PROVE Untouched(TreeFromData(InitHeadFromData))
    BY Zenon DEF Untouched
  <2>1. PICK i \in 0 .. 1 : \E c \in [1 .. SizeOf(i) -> 0 .. 1] : Commit(i) /\ Tree(i, c) /\ Stays(i, c)
    BY StaysAtStep DEF CommittedStays
  <2>2. PICK c \in [1 .. SizeOf(i) -> 0 .. 1] : Commit(i) /\ Tree(i, c) /\ Stays(i, c)
    BY <2>1
  <2> QED BY <2>2, StaysUntouched DEF Inv, DiskInv
<1>2. CommittedUntouched <=> [][U]_vars
  BY Zenon DEF CommittedUntouched
<1>3. []Inv /\ [][Next]_vars /\ [][GentleTruncation]_vars => [][U]_vars
  <2> HIDE DEF U
  <2>1. Inv /\ [Next]_vars /\ [GentleTruncation]_vars => [U]_vars
    BY <1>1
  <2> QED BY <2>1, PTL
<1>4. Spec /\ [][GentleTruncation]_vars => []Inv
  BY Inductive
<1> HIDE DEF U
<1> QED BY <1>2, <1>3, <1>4, PTL DEF Spec

----------------------------------------------------------------------------
(* What the tree in memory reads as. *)

(* The content of the tree in memory. *)
Held == [u \in 0 .. ht.len - 1 |-> Cell(u)]

(* The open file can be read as a whole. *)
LEMMA Readable ==
  ASSUME Inv, pc # "closed"
  PROVE  TreeType /\ Reads /\ DiskType
<1>1. TreeType /\ DiskType /\ changes \in Nat
  BY DEF Inv, DiskInv, MemInv, DiskType
<1>2. CASE pc = "create"
  <2>1. ht.len = 0
    BY <1>1, <1>2, NewTreeType DEF Inv, MemInv, Creating
  <2>2. \A b \in Blocks : ~(b * BlockSize < 0)
    BY Consts DEF Blocks, BlockSize
  <2> QED BY <1>1, <2>1, <2>2 DEF Reads
<1> QED BY <1>1, <1>2 DEF Inv, MemInv

(* What the open file reads as. *)
LEMMA WorkIs ==
  ASSUME Inv, pc # "closed"
  PROVE  /\ Work = Held /\ Work # None /\ ht.len \in 0 .. 2 * MaxNode
         /\ \A u \in 0 .. ht.len - 1 : Cell(u) \in 0 .. changes
<1>1. TreeType /\ Reads /\ DiskType /\ changes \in Nat
  BY Readable DEF DiskType
<1>2. ht.len \in 0 .. 2 * MaxNode /\ Nodes(ht) = 1 .. Size
  BY <1>1, TreeFacts
<1>3. ASSUME NEW u \in 0 .. ht.len - 1
      PROVE  /\ BlockReads(ht, u \div BlockSize) /\ Cell(u) \in 0 .. changes
             /\ BlockData(ht, u \div BlockSize)[u % BlockSize] = Cell(u)
  <2>1. PICK b : b = u \div BlockSize
    OBVIOUS
  <2>2. /\ b \in Blocks /\ b + 1 \in 1 .. Size /\ u % BlockSize \in 0 .. BlockSize - 1
        /\ Decrypts(b, ht.node[b + 1]) /\ ht.node[b + 1].blk \in 0 .. 1
    BY <1>1, <1>3, <2>1, InReach
  <2>3. Cell(u) \in 0 .. changes
    BY <1>1, <2>1, <2>2, BlockFacts DEF Cell
  <2> QED BY <1>2, <2>1, <2>2, <2>3 DEF BlockReads, BlockData, Decrypts, Cell
<1>4. Work = Held
  BY <1>3 DEF Work, ReadAll, Held
<1>5. PICK s, l : s = Held /\ l = ht.len
  OBVIOUS
<1>6. s \in [0 .. l - 1 -> Int]
  <2>1. s = [u \in 0 .. l - 1 |-> Cell(u)]
    BY <1>5 DEF Held
  <2>2. \A u \in 0 .. l - 1 : Cell(u) \in Int
    BY <1>1, <1>3, <1>5
  <2> QED BY <2>1, <2>2
<1>7. l \in 0 .. MaxNode * 2
  BY <1>2, <1>5, Consts
<1>8. s # None
  BY <1>6, <1>7, ConstantsOK
<1> QED BY <1>2, <1>3, <1>4, <1>5, <1>8

(* A tree without changes reads as the file. *)
LEMMA CleanSaved ==
  ASSUME Inv, pc \in {"idle", "dummy"}, ~ht.dirty, Exists
  PROVE  Saved = Work
<1>1. TreeType /\ Reads /\ DiskType /\ Commit(Cur)
  BY Readable DEF Inv, MemInv
<1>2. PICK c \in [1 .. SizeOf(Cur) -> 0 .. 1] : Tree(Cur, c) /\ Near(c)
  BY DEF Inv, MemInv, Idle
<1>3. PICK i : i = Cur
  OBVIOUS
<1>4. Saved = Content(i, c)
  BY <1>1, <1>2, <1>3, SavedIs
<1>5. Work = Held
  BY WorkIs
<1>6. ht.len = head[i].len /\ SizeOf(i) = Size
  BY <1>2, <1>3 DEF Near, SizeOf, Size
<1>7. ASSUME NEW u \in 0 .. ht.len - 1 PROVE Cell(u) = UnitAt(c, u)
  <2>1. PICK b : b = u \div BlockSize
    OBVIOUS
  <2>2. PICK n : n = b + 1
    OBVIOUS
  <2>3. n \in 1 .. Size
    BY <1>1, <1>7, <2>1, <2>2, InReach
  <2>4. ~ht.node[n].dirty /\ (ht.node[n].updated => ht.node[n].dirty) /\ Block(n, node[n][c[n]])
    BY <1>2, <1>3, <1>6, <2>3 DEF Near
  <2>5. ht.node[n].blk = node[n][c[n]].blk
    BY <2>4 DEF Block
  <2> QED BY <2>1, <2>2, <2>5 DEF Cell, UnitAt
<1> QED BY <1>4, <1>5, <1>6, <1>7 DEF Held, Content

(* A file that exists has a content. *)
LEMMA SavedThere ==
  ASSUME Inv, Exists
  PROVE  Saved # None
<1>1. PICK i \in 0 .. 1 : \E c \in [1 .. SizeOf(i) -> 0 .. 1] : Commit(i) /\ Tree(i, c)
  BY DEF Inv, DiskInv
<1>2. PICK c \in [1 .. SizeOf(i) -> 0 .. 1] : Commit(i) /\ Tree(i, c)
  BY <1>1
<1>3. DiskType /\ changes \in Nat
  BY DEF Inv, DiskInv, DiskType
<1>4. /\ Saved = Content(i, c)
      /\ \A u \in 0 .. head[i].len - 1 : UnitAt(c, u) \in 0 .. changes
  BY <1>2, <1>3, SavedIs
<1>5. PICK s, l : s = Saved /\ l = head[i].len
  OBVIOUS
<1>6. s \in [0 .. l - 1 -> Int]
  <2>1. s = [u \in 0 .. l - 1 |-> UnitAt(c, u)]
    BY <1>4, <1>5 DEF Content
  <2>2. \A u \in 0 .. l - 1 : UnitAt(c, u) \in Int
    BY <1>3, <1>4, <1>5
  <2> QED BY <2>1, <2>2
<1>7. l \in 0 .. MaxNode * 2
  <2>1. l \in 0 .. 2 * MaxNode
    BY <1>1, <1>3, <1>5, HeadFacts
  <2> QED BY <2>1, Consts
<1>8. s # None
  BY <1>6, <1>7, ConstantsOK
<1> QED BY <1>5, <1>8

(* SavedIs as one formula. *)
LEMMA SavedIsAll ==
  \A j, d : DiskType /\ Exists /\ Commit(j) /\ Tree(j, d) => Saved = Content(j, d)
BY SavedIs

(* What is saved is the same when its images and the choice of it are. *)
LEMMA SavedStays ==
  ASSUME Inv, Inv', Exists, Exists', NEW i, NEW c, Commit(i), Commit(i)', Tree(i, c), Stays(i, c),
         head'[i] = head[i]
  PROVE  Saved' = Saved
<1>1. DiskType /\ DiskType'
  BY DEF Inv, DiskInv
<1>2. i \in 0 .. 1
  BY DEF Tree
<1>3. head[i].len \in 0 .. 2 * MaxNode
  BY <1>1, <1>2, HeadFacts
<1>4. Tree(i, c)'
  <2>1. \A n \in 1 .. SizeOf(i) : node'[n][c[n]] = node[n][c[n]]
    BY DEF Stays
  <2>2. \A b \in Blocks : b * BlockSize < head[i].len =>
             blk'[b][node[b + 1][c[b + 1]].blk].tag = blk[b][node[b + 1][c[b + 1]].blk].tag
    BY DEF Stays
  <2> QED BY <1>1, <2>1, <2>2, TreeKept
<1>5. Saved = Content(i, c)
  BY <1>1, SavedIs
<1>6. Saved' = Content(i, c)'
  <2>1. (DiskType /\ Exists /\ Commit(i) /\ Tree(i, c) => Saved = Content(i, c))'
    <3>1. (\A j, d : DiskType /\ Exists /\ Commit(j) /\ Tree(j, d) => Saved = Content(j, d))'
      BY SavedIsAll, PTL
    <3> QED BY <3>1
  <2> QED BY <1>1, <1>4, <2>1
<1>7. ASSUME NEW u \in 0 .. head[i].len - 1 PROVE UnitAt(c, u)' = UnitAt(c, u)
  <2>1. PICK b : b = u \div BlockSize
    OBVIOUS
  <2>2. b \in Blocks /\ b * BlockSize < head[i].len
    BY <1>3, <1>7, <2>1, UnitOf
  <2>3. b + 1 \in 1 .. SizeOf(i)
    <3>1. b + 1 <= SizeOf(i) /\ SizeOf(i) \in 1 .. MaxNode
      BY <1>1, <1>2, <2>2, HeadFacts DEF Tree
    <3> QED BY <2>2, <3>1, Consts DEF Blocks
  <2>4. /\ node'[b + 1][c[b + 1]] = node[b + 1][c[b + 1]]
        /\ blk'[b][node[b + 1][c[b + 1]].blk] = blk[b][node[b + 1][c[b + 1]].blk]
    BY <2>2, <2>3 DEF Stays
  <2> QED BY <2>1, <2>4 DEF UnitAt
<1> QED BY <1>5, <1>6, <1>7 DEF Content

(* A file that does not exist has no content. *)
LEMMA NothingSaved ==
  ASSUME ~Exists, ~Exists'
  PROVE  Saved' = Saved /\ Saved = None
BY DEF Saved

(* WorkIs as a predicate. *)
Reading ==
  /\ Work = Held /\ Work # None /\ ht.len \in 0 .. 2 * MaxNode
  /\ \A u \in 0 .. ht.len - 1 : Cell(u) \in 0 .. changes

(* WorkIs as one formula. *)
LEMMA WorkReads == Inv /\ pc # "closed" => Reading
BY WorkIs DEF Reading

(* CleanSaved as one formula. *)
LEMMA CleanReads == Inv /\ pc \in {"idle", "dummy"} /\ ~ht.dirty /\ Exists => Saved = Work
BY CleanSaved

(* WorkIs after a step. *)
LEMMA WorkReadsNext ==
  ASSUME Inv', pc' # "closed"
  PROVE  /\ Work' = Held' /\ Work' # None /\ ht'.len \in 0 .. 2 * MaxNode
         /\ \A u \in 0 .. ht'.len - 1 : Cell(u)' \in 0 .. changes'
<1>1. (Inv /\ pc # "closed" => Reading)'
  BY WorkReads, PTL
<1> QED BY <1>1 DEF Reading

(* CleanSaved after a step. *)
LEMMA CleanSavedNext ==
  ASSUME Inv', pc' \in {"idle", "dummy"}, ~ht'.dirty, Exists'
  PROVE  Saved' = Work'
<1>1. (Inv /\ pc \in {"idle", "dummy"} /\ ~ht.dirty /\ Exists => Saved = Work)'
  BY CleanReads, PTL
<1> QED BY <1>1

(* The unit that is read is in the same place and has not changed. *)
LEMMA WorkStays ==
  ASSUME Inv, Inv', pc # "closed", pc' # "closed", ht'.len = ht.len, UNCHANGED blk,
         \A n \in 1 .. Size : ht'.node[n].blk = ht.node[n].blk
  PROVE  Work' = Work
<1>1. Work = Held /\ Work' = Held'
  BY WorkIs, WorkReadsNext
<1>2. TreeType /\ Reads
  BY Readable
<1>3. ASSUME NEW u \in 0 .. ht.len - 1 PROVE Cell(u)' = Cell(u)
  <2>1. PICK b : b = u \div BlockSize
    OBVIOUS
  <2>2. b + 1 \in 1 .. Size
    BY <1>2, <1>3, <2>1, InReach
  <2> QED BY <2>1, <2>2 DEF Cell
<1> QED BY <1>1, <1>3 DEF Held

(* A file that is being created is empty. *)
LEMMA EmptyWork ==
  ASSUME Inv, pc = "create"
  PROVE  Work = [u \in {} |-> 0]
<1>1. TreeType /\ changes \in Nat
  BY DEF Inv, MemInv, DiskInv, DiskType
<1>2. ht.len = 0
  BY <1>1, NewTreeType DEF Inv, MemInv, Creating
<1>3. Work = Held
  BY WorkIs
<1>4. 0 .. ht.len - 1 = {}
  BY <1>2
<1> QED BY <1>3, <1>4 DEF Held

(* The same as one formula. *)
LEMMA EmptyIs == Inv /\ pc = "create" => Work = [u \in {} |-> 0]
BY EmptyWork

(* The same after a step. *)
LEMMA EmptyWorkNext ==
  ASSUME Inv', pc' = "create"
  PROVE  Work' = [u \in {} |-> 0]
<1>1. (Inv /\ pc = "create" => Work = [u \in {} |-> 0])'
  BY EmptyIs, PTL
<1> QED BY <1>1

----------------------------------------------------------------------------
(* The file is an atomic one. *)

(* A gentle truncation leaves the units before its length. *)
LEMMA CutData ==
  ASSUME Inv, NEW length \in 0 .. 2 * MaxNode, Truncate(length), TruncatesGently(length)
  PROVE  /\ ht'.len = length /\ length < ht.len
         /\ \A u \in 0 .. length - 1 : Cell(u)' = Cell(u)
<1>1. /\ pc = "idle" /\ 0 < length /\ length < ht.len
      /\ CeilBlocks(ht.len) - CeilBlocks(length) <= 1
      /\ blk' = [b \in Blocks |->
                  IF b > CeilBlocks(length) THEN [v \in 0 .. 1 |-> ZeroBlock] ELSE blk[b]]
  BY DEF Truncate, TruncatesGently
<1>2. TreeType /\ Reads
  BY <1>1, Readable
<1>3. /\ ht.len \in Nat /\ length \in Nat /\ Size \in 1 .. MaxNode /\ MaxNode \in Nat
      /\ ht.max \in 0 .. MaxNode
  BY <1>2, TreeFacts, Consts
<1>4. CeilBlocks(ht.len) \in Int /\ CeilBlocks(length) \in Int
  BY <1>3 DEF CeilBlocks, BlockSize
<1>5. length < ht.len /\ CeilBlocks(ht.len) - CeilBlocks(length) <= 1
  BY <1>1, <1>3, <1>4
<1>6. PICK q \in Nat : q = length \div BlockSize
  BY <1>3, BlockOf
<1>7. PICK max : max = IF q + 1 < ht.max THEN q + 1 ELSE ht.max
  OBVIOUS
<1>8. Shrunk(ht', length, max)
  <2>1. ht' = [TreeTruncated(ht, q) EXCEPT !.len = length, !.dirty = TRUE, !.node[1].dirty = TRUE]
    BY <1>6 DEF Truncate
  <2> QED BY <1>2, <1>6, <1>7, <2>1, TreeShrunk
<1>9. PICK f : f = ht'.node
  OBVIOUS
<1>10. /\ ht'.len = length
       /\ \A n \in 1 .. Max2(1, max) : f[n].blk = ht.node[n].blk
  BY <1>8, <1>9, Zenon DEF Shrunk
<1>11. ASSUME NEW u \in 0 .. length - 1 PROVE Cell(u)' = Cell(u)
  <2>1. PICK b : b = u \div BlockSize
    OBVIOUS
  <2>2. b \in Blocks /\ b \in Nat /\ b + 1 \in 1 .. Size
    <3>1. u \in 0 .. ht.len - 1
      BY <1>3, <1>5, <1>11
    <3> QED BY <1>2, <2>1, <3>1, InReach
  <2>3. b * BlockSize < length
    BY <1>11, <2>1, UnitOf
  <2>4. ~(b > CeilBlocks(length)) /\ b <= q
    BY <1>3, <1>5, <1>6, <2>2, <2>3, CutBlocks
  <2>5. b + 1 \in 1 .. Max2(1, max)
    BY <1>3, <1>6, <1>7, <2>2, <2>4 DEF Max2, Size
  <2>6. f[b + 1].blk = ht.node[b + 1].blk
    BY <1>10, <2>5
  <2>7. blk'[b] = blk[b]
    BY <1>1, <2>2, <2>4
  <2> QED BY <1>9, <2>1, <2>6, <2>7 DEF Cell
<1> QED BY <1>5, <1>10, <1>11

(* A change of what can be read is one of the abstract file. *)
LEMMA WroteChange ==
  ASSUME Inv, Inv', pc # "closed", pc' # "closed", Saved' = Saved, NEW from \in Int, NEW last \in Int,
         NEW w \in 0 .. MaxChanges, Wrote(from, last, w)
  PROVE  File!Next
<1>1. Work = Held /\ Work' = Held' /\ Work # None /\ Work' # None
  BY WorkIs, WorkReadsNext
<1>2. PICK old, new : old = Work /\ new = Work'
  OBVIOUS
<1>3. PICK k, l : k = ht.len /\ l = ht'.len
  OBVIOUS
<1>4. k \in Nat /\ l \in Nat /\ l >= k
  <2>1. k \in 0 .. 2 * MaxNode /\ l \in 0 .. 2 * MaxNode
    BY <1>3, WorkIs, WorkReadsNext
  <2> QED BY <1>3, <2>1, Consts DEF Wrote
<1>5. /\ DOMAIN old = 0 .. k - 1 /\ \A u \in 0 .. k - 1 : old[u] = Cell(u)
      /\ DOMAIN new = 0 .. l - 1 /\ \A u \in 0 .. l - 1 : new[u] = Cell(u)'
  BY <1>1, <1>2, <1>3 DEF Held
<1>6. \A u \in 0 .. l - 1 : \/ u \in from .. last /\ new[u] = w
                            \/ u \notin from .. last /\ u \in 0 .. k - 1 /\ new[u] = old[u]
  BY <1>3, <1>4, <1>5 DEF Wrote
<1>7. PICK ch : ch = {u \in DOMAIN new : u \in DOMAIN old => new[u] # old[u]}
  OBVIOUS
<1>8. \A a \in ch : a \in from .. last
  BY <1>5, <1>6, <1>7
<1>9. \A u \in DOMAIN new : (\E a, b \in ch : a <= u /\ u <= b) => new[u] = w
  BY <1>5, <1>6, <1>8
<1>10. DOMAIN old \subseteq DOMAIN new
  BY <1>4, <1>5
<1>11. File!Write(old, new)
  BY <1>7, <1>9, <1>10, Zenon DEF File!Write
<1>12. File!Change
  BY <1>1, <1>2, <1>11, Zenon DEF File!Change
<1> QED BY <1>12, Zenon DEF File!Next

(* A shorter content with the same units is a change of the abstract file. *)
LEMMA CutChange ==
  ASSUME Inv, Inv', pc # "closed", pc' # "closed", Saved' = Saved, ht'.len <= ht.len,
         \A u \in 0 .. ht'.len - 1 : Cell(u)' = Cell(u)
  PROVE  File!Next
<1>1. Work = Held /\ Work' = Held' /\ Work # None /\ Work' # None
  BY WorkIs, WorkReadsNext
<1>2. PICK old, new : old = Work /\ new = Work'
  OBVIOUS
<1>3. PICK k, l : k = ht.len /\ l = ht'.len
  OBVIOUS
<1>4. k \in Nat /\ l \in Nat /\ l <= k
  <2>1. k \in 0 .. 2 * MaxNode /\ l \in 0 .. 2 * MaxNode
    BY <1>3, WorkIs, WorkReadsNext
  <2> QED BY <1>3, <2>1, Consts
<1>5. /\ DOMAIN old = 0 .. k - 1 /\ \A u \in 0 .. k - 1 : old[u] = Cell(u)
      /\ DOMAIN new = 0 .. l - 1 /\ \A u \in 0 .. l - 1 : new[u] = Cell(u)'
  BY <1>1, <1>2, <1>3 DEF Held
<1>6. DOMAIN new \subseteq DOMAIN old /\ \A u \in DOMAIN new : new[u] = old[u]
  BY <1>3, <1>4, <1>5
<1>7. File!Shrink(old, new)
  BY <1>6, Zenon DEF File!Shrink
<1>8. File!Change
  BY <1>1, <1>2, <1>7, Zenon DEF File!Change
<1> QED BY <1>8, Zenon DEF File!Next

(* What is saved, over steps that leave the choice of it alone. *)
LEMMA SavedAtBase ==
  ASSUME Inv, Inv', pc \in {"idle", "sync"}, BaseStays, Exists' = Exists,
         pc' \in {"idle", "sync"}, Cur' = Cur, UNCHANGED head
  PROVE  Saved' = Saved
<1>1. CASE ~Exists
  BY <1>1, NothingSaved
<1>2. CASE Exists
  <2>1. PICK i \in 0 .. 1 : \E c \in [1 .. SizeOf(i) -> 0 .. 1] : i = Cur /\ Tree(i, c) /\ Stays(i, c)
    BY DEF BaseStays
  <2>2. PICK c \in [1 .. SizeOf(i) -> 0 .. 1] : i = Cur /\ Tree(i, c) /\ Stays(i, c)
    BY <2>1
  <2>3. Commit(i)
    BY <1>2, <2>2 DEF Inv, MemInv
  <2>4. Commit(Cur)'
    BY <1>2 DEF Inv, MemInv
  <2>5. Commit(i)'
    BY <2>2, <2>4, CurTree
  <2> QED BY <1>2, <2>2, <2>3, <2>5, SavedStays
<1> QED BY <1>1, <1>2

(* What is saved is the same in a file that does not change. *)
LEMMA SavedSame ==
  ASSUME UNCHANGED <<mode, disk, trusted>>
  PROVE  Saved' = Saved /\ Exists' = Exists
<1>1. UNCHANGED <<mode, file, head, node, blk, trusted>>
  BY DEF disk
<1>2. Exists' = Exists
  BY <1>1 DEF Exists
<1>3. InitHeadFromData' = InitHeadFromData
  BY <1>1 DEF InitHeadFromData
<1> QED BY <1>1, <1>2, <1>3 DEF Saved, OpenSucceeds, VerifyRoot, VerifyTree, InitTreeFromData,
           TreeFromData, ReadAll, BlockReads, BlockData

(* What is saved is the same after a step that writes blocks only. *)
LEMMA SavedOverWrite ==
  ASSUME Inv, Inv', pc = "idle", BaseStays, Exists' = Exists, UNCHANGED <<mode, head, node, trusted>>
  PROVE  Saved' = Saved
<1>1. CASE ~Exists
  BY <1>1, NothingSaved
<1>2. CASE Exists
  <2>1. PICK i \in 0 .. 1 : \E c \in [1 .. SizeOf(i) -> 0 .. 1] : i = Cur /\ Tree(i, c) /\ Stays(i, c)
    BY DEF BaseStays
  <2>2. PICK c \in [1 .. SizeOf(i) -> 0 .. 1] : i = Cur /\ Tree(i, c) /\ Stays(i, c)
    BY <2>1
  <2>3. Commit(i)
    BY <1>2, <2>2 DEF Inv, MemInv
  <2>4. Commit(i)'
    BY <2>3 DEF Commit
  <2> QED BY <1>2, <2>2, <2>3, <2>4, SavedStays
<1> QED BY <1>1, <1>2

(* A step of the abstract file, or none. *)
FileStep == File!Next \/ (Saved' = Saved /\ Work' = Work)

(* A file that does not exist is started: the abstract Create. *)
LEMMA StartFile ==
  ASSUME Inv, Inv', pc = "closed", pc' = "create", ~Exists, ~Exists'
  PROVE  FileStep
<1>1. Saved' = Saved /\ Saved = None
  BY NothingSaved
<1>2. Work = None
  BY DEF Work
<1>3. Work' = [u \in {} |-> 0]
  BY EmptyWorkNext
<1>4. File!Create
  BY <1>1, <1>2, <1>3, Zenon DEF File!Create
<1> QED BY <1>1, <1>4, Zenon DEF FileStep, File!Next

(* Create is the abstract Create. *)
LEMMA CreateFile ==
  ASSUME Inv, Create
  PROVE  FileStep
<1>1. Inv' /\ pc = "closed" /\ pc' = "create"
  BY CreateStep DEF Create, StartCreation
<1>2. ~Exists
  BY DEF Inv, DiskInv, DiskType, Exists, Create
<1>3. ~Exists'
  BY <1>1 DEF Inv, MemInv, Creating
<1> QED BY <1>1, <1>2, <1>3, StartFile

(* So is OpenPartiallyDone. *)
LEMMA OpenPartiallyDoneFile ==
  ASSUME Inv, OpenPartiallyDone
  PROVE  FileStep
<1>1. pc = "closed" /\ pc' = "create"
  BY DEF OpenPartiallyDone, StartCreation
<1> QED BY <1>1, OpenPartiallyDoneStep, StartFile

(* OpenEmpty is no step of the abstract file. *)
LEMMA OpenEmptyFile ==
  ASSUME Inv, OpenEmpty
  PROVE  FileStep
<1>1. /\ mode = "counter" /\ mode' = mode /\ pc = "closed" /\ pc' = "closed" /\ file = "empty"
      /\ head' = [v \in 0 .. 1 |-> ZeroHead]
  BY DEF OpenEmpty, Erase
<1>2. ~Exists /\ ~Exists'
  <2>1. ~Exists
    BY <1>1 DEF Inv, DiskInv
  <2>2. head'[1].counter = 0
    BY <1>1, ZeroFacts
  <2> QED BY <1>1, <2>1, <2>2 DEF Exists
<1>3. Work = None /\ Work' = None
  BY <1>1 DEF Work
<1> QED BY <1>2, <1>3, NothingSaved DEF FileStep

(* Open is the abstract Open. *)
LEMMA OpenFile ==
  ASSUME Inv, Open
  PROVE  FileStep
<1>1. Inv' /\ Exists
  BY OpenStep
<1>2. pc = "closed" /\ pc' = "idle" /\ UNCHANGED <<mode, disk, trusted>>
  BY DEF Open
<1>3. Saved' = Saved /\ Exists'
  BY <1>1, <1>2, SavedSame
<1>4. ht'.dirty = FALSE
  <2>1. PICK i, c : Commit(i) /\ Tree(i, c) /\ ht' = TreeFromData(i)
    BY OpenStep
  <2>2. AsLoaded(TreeFromData(i), i, c)
    BY <2>1, FromData DEF Inv, DiskInv
  <2>3. TreeFromData(i).dirty = FALSE
    BY <2>2, Zenon DEF AsLoaded
  <2> QED BY <2>1, <2>3
<1>5. Saved' = Work'
  BY <1>1, <1>2, <1>3, <1>4, CleanSavedNext
<1>6. Work = None /\ Saved # None
  BY <1>1, <1>2, SavedThere DEF Work
<1>7. File!Open
  BY <1>3, <1>5, <1>6 DEF File!Open
<1> QED BY <1>3, <1>7, Zenon DEF FileStep, File!Next

(* A write is the abstract Change. *)
LEMMA WriteFile ==
  ASSUME Inv, NEW from \in 0 .. 2 * MaxNode, NEW to \in 0 .. 2 * MaxNode,
         NEW w \in 0 .. changes + 1, OutOfPlaceWrite(from, to, w)
  PROVE  FileStep
<1>1. /\ pc = "idle" /\ pc' = "idle" /\ changes < MaxChanges
      /\ UNCHANGED <<mode, head, node, trusted>>
  BY DEF OutOfPlaceWrite, CanWrite
<1>2. Inv' /\ Exists' = Exists /\ BaseStays /\ Wrote(from, to - 1, w)
  BY OutOfPlaceWriteStep
<1>3. from \in Int /\ to - 1 \in Int /\ w \in 0 .. MaxChanges
  BY <1>1, Consts DEF Inv, DiskInv, DiskType
<1>4. Saved' = Saved
  BY <1>1, <1>2, SavedOverWrite
<1>5. File!Next
  BY <1>1, <1>2, <1>3, <1>4, WroteChange
<1> QED BY <1>5 DEF FileStep

(* So is Extend. *)
LEMMA ExtendFile ==
  ASSUME Inv, NEW length \in 0 .. 2 * MaxNode, Extend(length)
  PROVE  FileStep
<1>1. TreeType /\ changes \in Nat
  BY DEF Inv, MemInv, DiskInv, DiskType, Extend
<1>2. ht.len \in 0 .. 2 * MaxNode /\ 0 \in 0 .. changes + 1
  BY <1>1, TreeFacts
<1> QED BY <1>2, WriteFile DEF Extend

(* So is a write that stops. *)
LEMMA StopsFile ==
  ASSUME Inv, NEW from \in 0 .. 2 * MaxNode, NEW to \in 0 .. 2 * MaxNode,
         NEW w \in 0 .. changes + 1, OutOfPlaceWriteStops(from, to, w)
  PROVE  FileStep
<1>1. /\ pc = "idle" /\ pc' = "idle" /\ changes < MaxChanges
      /\ UNCHANGED <<mode, head, node, trusted>>
  BY DEF OutOfPlaceWriteStops, CanWrite
<1>2. Inv' /\ Exists' = Exists /\ BaseStays
  BY OutOfPlaceWriteStopsStep
<1>3. PICK last \in Int : Wrote(from, last, w)
  BY OutOfPlaceWriteStopsStep
<1>4. from \in Int /\ w \in 0 .. MaxChanges
  BY <1>1, Consts DEF Inv, DiskInv, DiskType
<1>5. Saved' = Saved
  BY <1>1, <1>2, SavedOverWrite
<1>6. File!Next
  BY <1>1, <1>2, <1>3, <1>4, <1>5, WroteChange
<1> QED BY <1>6 DEF FileStep

(* So is a gentle truncation. *)
LEMMA TruncateFile ==
  ASSUME Inv, NEW length \in 0 .. 2 * MaxNode, Truncate(length), TruncatesGently(length)
  PROVE  FileStep
<1>1. /\ pc = "idle" /\ pc' = "sync" /\ UNCHANGED <<mode, head, node, trusted>>
  BY DEF Truncate, SyncOf
<1>2. Inv' /\ Exists' = Exists /\ BaseStays
  BY TruncateStep
<1>3. Saved' = Saved
  BY <1>1, <1>2, SavedOverWrite
<1>4. /\ ht'.len = length /\ length < ht.len
      /\ \A u \in 0 .. length - 1 : Cell(u)' = Cell(u)
  BY CutData
<1>5. length \in Nat /\ ht.len \in Nat
  <2>1. ht.len \in 0 .. 2 * MaxNode
    BY <1>1, WorkIs
  <2> QED BY <2>1, Consts
<1>6. File!Next
  BY <1>1, <1>2, <1>3, <1>4, <1>5, CutChange
<1> QED BY <1>6 DEF FileStep

(* Starting a sync is no step of the abstract file. *)
LEMMA SyncToStorageFile ==
  ASSUME Inv, SyncToStorage
  PROVE  FileStep
<1>1. /\ pc = "idle" /\ pc' # "closed" /\ UNCHANGED <<mode, disk, trusted, ht>>
  BY DEF SyncToStorage, SyncOf, AfterSync
<1>2. Inv'
  BY SyncToStorageStep
<1>3. Work' = Work
  BY <1>1, <1>2, WorkStays DEF disk
<1> QED BY <1>1, <1>3, SavedSame DEF FileStep

(* Writing a node is no step of the abstract file. *)
LEMMA SyncNodeFile ==
  ASSUME Inv, SyncNode
  PROVE  FileStep
<1>1. (pc = "create" \/ pc = "sync") /\ pc' = pc /\ todo # << >> /\ UNCHANGED <<mode, head, blk, trusted>>
  BY DEF SyncNode
<1>2. CASE pc = "create"
  <2>1. Inv'
    BY <1>2, CreateNodeStep
  <2>2. ~Exists /\ ~Exists'
    BY <1>1, <1>2, <2>1 DEF Inv, MemInv, Creating
  <2>3. Work' = Work
    BY <1>1, <1>2, <2>1, EmptyWork, EmptyWorkNext
  <2> QED BY <2>2, <2>3, NothingSaved DEF FileStep
<1>3. CASE pc = "sync"
  <2>1. Inv' /\ Exists' = Exists /\ BaseStays
    BY <1>3, SyncNodeStep
  <2>2. TreeType /\ Size \in Nat
    BY <1>3, TreeFacts, Consts DEF Inv, MemInv
  <2>3. PICK n : n = Head(todo)
    OBVIOUS
  <2>4. n \in 1 .. Size
    <3>1. Order(todo)
      BY <1>3 DEF Inv, MemInv, InSync, Syncing
    <3> QED BY <1>1, <2>2, <2>3, <3>1, FirstOf
  <2>5. /\ ht'.counter = ht.counter /\ ht'.len = ht.len
        /\ \A m \in 1 .. Size : ht'.node[m].blk = ht.node[m].blk
    <3>1. CASE ht.node[n].dirty
      <4>1. Turned(ht', n)
        BY <2>2, <2>3, <2>4, <3>1, Visit
      <4>2. \A m \in 1 .. Size : m # n => ht'.node[m].blk = ht.node[m].blk
        BY <2>2, <2>4, <4>1, Around
      <4>3. /\ ht'.node[n].blk = ht.node[n].blk
            /\ ht'.counter = ht.counter /\ ht'.len = ht.len
        BY <4>1, Zenon DEF Turned
      <4> QED BY <4>2, <4>3
    <3>2. CASE ~ht.node[n].dirty
      BY <2>2, <2>3, <2>4, <3>2, Visit
    <3> QED BY <3>1, <3>2
  <2>6. Work' = Work
    BY <1>1, <1>3, <2>1, <2>5, WorkStays
  <2>7. Cur' = Cur
    BY <2>5 DEF Cur
  <2>8. Saved' = Saved
    BY <1>1, <1>3, <2>1, <2>7, SavedAtBase
  <2> QED BY <2>6, <2>8 DEF FileStep
<1> QED BY <1>1, <1>2, <1>3

(* A step after which the file reads as the open tree did is the abstract Commit. *)
LEMMA CommitFile ==
  ASSUME Inv, Inv', pc # "closed", pc' \in {"idle", "dummy"}, Exists', ~ht'.dirty, Work' = Work
  PROVE  FileStep
<1>1. Saved' = Work'
  BY CleanSavedNext
<1>2. Work # None
  BY WorkIs
<1>3. File!Commit
  BY <1>1, <1>2 DEF File!Commit
<1> QED BY <1>3, Zenon DEF FileStep, File!Next

(* Writing the head commits the directory file, and does nothing to an object's file. *)
LEMMA SyncHeadFile ==
  ASSUME Inv, SyncHead
  PROVE  FileStep
<1>1. /\ pc = "create" \/ pc = "sync"
      /\ pc' = IF pc = "create" THEN "dummy" ELSE AfterSync
      /\ UNCHANGED <<mode, node, blk, trusted>>
  BY DEF SyncHead
<1>2. Inv' /\ (pc = "sync" => Exists' = Exists /\ BaseStays) /\ (pc = "create" => ~Exists)
  BY <1>1, CreateHeadStep, SyncHeadStep
<1>3. DiskType /\ TreeType /\ mode \in {"hash", "counter"}
  BY <1>1 DEF Inv, DiskInv, MemInv, DiskType
<1>4. PICK j \in 0 .. 1 : (ht.counter + 1) % 2 = j
  BY <1>3, TreeFacts
<1>5. /\ ht'.dirty = FALSE /\ ht'.len = ht.len /\ ht'.node = ht.node
      /\ head'[1 - j] = head[1 - j]
  BY <1>3, <1>4, HeadWritten
<1>6. pc # "closed" /\ pc' # "closed"
  BY <1>1 DEF AfterSync
<1>7. Work' = Work
  BY <1>1, <1>2, <1>5, <1>6, WorkStays
<1>8. CASE mode = "counter"
  <2>1. pc' \in {"idle", "dummy"}
    BY <1>1, <1>8 DEF AfterSync
  <2>2. Exists'
    BY <1>1, <1>2, <1>8, <2>1 DEF Inv, MemInv
  <2> QED BY <1>2, <1>5, <1>6, <1>7, <2>1, <2>2, CommitFile
<1>9. CASE mode = "hash" /\ pc = "create"
  <2>1. ~Exists /\ ~Exists'
    BY <1>1, <1>2, <1>9 DEF Exists
  <2> QED BY <1>7, <2>1, NothingSaved DEF FileStep
<1>10. CASE mode = "hash" /\ pc = "sync"
  <2>1. CASE ~Exists
    BY <1>2, <1>7, <1>10, <2>1, NothingSaved DEF FileStep
  <2>2. CASE Exists
    <3>1. PICK i \in 0 .. 1 : \E c \in [1 .. SizeOf(i) -> 0 .. 1] : i = Cur /\ Tree(i, c) /\ Stays(i, c)
      BY <1>2, <1>10 DEF BaseStays
    <3>2. PICK c \in [1 .. SizeOf(i) -> 0 .. 1] : i = Cur /\ Tree(i, c) /\ Stays(i, c)
      BY <3>1
    <3>3. Commit(i)
      BY <1>10, <2>2, <3>2 DEF Inv, MemInv
    <3>4. i = 1 - j
      <4>1. ht.counter \in Nat
        BY <1>3, TreeFacts
      <4> QED BY <1>4, <3>2, <4>1 DEF Cur
    <3>5. Commit(i)'
      BY <1>1, <1>10, <3>3 DEF Commit
    <3>6. Saved' = Saved
      BY <1>2, <1>5, <1>10, <2>2, <3>2, <3>3, <3>4, <3>5, SavedStays
    <3> QED BY <1>7, <3>6 DEF FileStep
  <2> QED BY <2>1, <2>2
<1> QED BY <1>1, <1>3, <1>8, <1>9, <1>10

(* The dummy head is no step of the abstract file. *)
LEMMA WriteDummyHeadFile ==
  ASSUME Inv, WriteDummyHead
  PROVE  FileStep
<1>1. pc = "dummy" /\ pc' = "idle" /\ UNCHANGED <<mode, node, blk, trusted, ht>>
  BY DEF WriteDummyHead
<1>2. Inv' /\ head' = [head EXCEPT ![0] = ZeroHead] /\ Cur = 1 /\ Cur' = Cur
  BY <1>1, WriteDummyHeadStep DEF Cur
<1>3. DiskType /\ mode \in {"hash", "counter"}
  BY DEF Inv, DiskInv, DiskType
<1>4. Work' = Work
  BY <1>1, <1>2, WorkStays
<1>5. CASE mode = "hash"
  <2>1. ~Exists /\ ~Exists'
    BY <1>1, <1>5 DEF Inv, MemInv, Exists
  <2> QED BY <1>4, <2>1, NothingSaved DEF FileStep
<1>6. CASE mode = "counter"
  <2>1. Exists /\ Exists' /\ Commit(Cur) /\ Commit(Cur)'
    BY <1>1, <1>2, <1>6 DEF Inv, MemInv
  <2>2. PICK i \in 0 .. 1 : i = 1
    OBVIOUS
  <2>3. PICK c : Tree(i, c)
    BY <1>1, <1>2, <2>2 DEF Inv, MemInv, Idle
  <2>4. Commit(i) /\ Commit(i)'
    BY <1>2, <2>1, <2>2, CurTree
  <2>5. head'[i] = head[i]
    BY <1>2, <1>3, <2>2 DEF DiskType
  <2>6. Stays(i, c)
    BY <1>1 DEF Stays
  <2>7. Saved' = Saved
    BY <1>2, <2>1, <2>3, <2>4, <2>5, <2>6, SavedStays
  <2> QED BY <1>4, <2>7 DEF FileStep
<1> QED BY <1>3, <1>5, <1>6

(* The directory file's commit of the root hash commits an object's file. *)
LEMMA AnchorFile ==
  ASSUME Inv, Anchor
  PROVE  FileStep
<1>1. /\ pc = "anchor" /\ pc' = "idle" /\ trusted' = ht.node[1].hash /\ mode' = mode
      /\ UNCHANGED <<ht, blk>>
  BY DEF Anchor, disk
<1>2. Inv' /\ ~ht.dirty
  BY AnchorStep
<1>3. mode = "hash" /\ DiskType /\ TreeType
  BY <1>1 DEF Inv, MemInv, DiskInv
<1>4. PICK c : Tree(Cur, c) /\ Near(c)
  BY AnchorStep
<1>5. PICK i \in 0 .. 1 : i = Cur
  BY <1>3, TreeFacts
<1>6. SizeOf(i) \in 1 .. MaxNode /\ 1 \in 1 .. SizeOf(i) /\ SizeOf(i) \in Nat
  BY <1>3, HeadFacts, Consts
<1>7. ht.node[1].hash = CalcNodeHash(Loaded(i, c), 1, head[i].len)
  BY <1>4, <1>5, <1>6 DEF Tree, Near
<1>8. ht.node[1].hash # << >>
  <2>1. DOMAIN Loaded(i, c) = 1 .. SizeOf(i)
    BY DEF Loaded
  <2> QED BY <1>6, <1>7, <2>1, HashParts
<1>9. Exists'
  BY <1>1, <1>3, <1>8 DEF Exists
<1>10. Work' = Work
  BY <1>1, <1>2, WorkStays
<1> QED BY <1>1, <1>2, <1>9, <1>10, CommitFile

(* Lose is the abstract Lose. *)
LEMMA LoseFile ==
  ASSUME Inv, Lose
  PROVE  FileStep
<1>1. pc' = "closed" /\ UNCHANGED <<mode, disk, trusted>>
  BY DEF Lose
<1>2. Saved' = Saved
  BY <1>1, SavedSame
<1>3. Work' = None
  BY <1>1 DEF Work
<1>4. File!Lose
  BY <1>3 DEF File!Lose
<1> QED BY <1>2, <1>4, Zenon DEF FileStep, File!Next

(* A step that changes nothing. *)
LEMMA NoStep ==
  ASSUME UNCHANGED vars
  PROVE  Saved' = Saved /\ Work' = Work
<1>1. UNCHANGED <<mode, disk, trusted, ht, pc, blk>>
  BY DEF vars, disk
<1>2. Work' = Work
  BY <1>1 DEF Work, ReadAll, BlockReads, BlockData
<1> QED BY <1>1, <1>2, SavedSame

(* Every step, one case for each action. *)
LEMMA EachStep ==
  ASSUME Inv, GentleTruncation, Next
  PROVE  FileStep
<1>1. changes \in Nat /\ MaxNode \in Nat /\ Cuts \subseteq 0 .. 2 * MaxNode
  BY Consts DEF Inv, DiskInv, DiskType
<1>2. changes + 1 \in 0 .. changes + 1
  BY <1>1
<1>3. ASSUME NEW from \in Cuts, NEW to \in Cuts, OutOfPlaceWrite(from, to, changes + 1) PROVE FileStep
  BY <1>1, <1>2, <1>3, WriteFile
<1>4. ASSUME NEW from \in Cuts, NEW to \in Cuts, OutOfPlaceWriteStops(from, to, changes + 1)
      PROVE  FileStep
  BY <1>1, <1>2, <1>4, StopsFile
<1>5. ASSUME NEW length \in Cuts, Extend(length) PROVE FileStep
  BY <1>1, <1>5, ExtendFile
<1>6. ASSUME NEW length \in Cuts, Truncate(length) PROVE FileStep
  BY <1>1, <1>6, TruncateFile DEF GentleTruncation
<1>7. ASSUME NEW length \in Cuts, TruncateFails(length) PROVE FileStep
  BY <1>7, FailsGently, NoStep DEF FileStep
<1> QED BY <1>3, <1>4, <1>5, <1>6, <1>7, CreateFile, OpenFile, OpenPartiallyDoneFile, OpenEmptyFile,
           SyncToStorageFile, SyncNodeFile, SyncHeadFile, WriteDummyHeadFile, AnchorFile, LoseFile DEF Next

(* RefinesAtomicFile: the file implements AtomicFile.  What an open finds changes *)
(* only when a head (of the directory file) or a root hash (of an object) is      *)
(* committed, to exactly what the open tree reads back.                           *)
(* (tee_fs_htree_sync_to_storage, out_of_place_write, ree_fs_truncate)            *)
THEOREM FileIsAtomic ==
  Spec /\ [][GentleTruncation]_vars => RefinesAtomicFile
<1>1. Init => File!Init
  BY DEF Init, File!Init, Saved, Exists, Work, ZeroHead
<1>2. Inv /\ [Next]_vars /\ [GentleTruncation]_vars => [File!Next]_<<Saved, Work>>
  <2> SUFFICES ASSUME Inv, [Next]_vars, [GentleTruncation]_vars PROVE [File!Next]_<<Saved, Work>>
    OBVIOUS
  <2>1. CASE UNCHANGED vars
    BY <2>1, NoStep
  <2>2. CASE Next /\ GentleTruncation
    BY <2>2, EachStep DEF FileStep
  <2> QED BY <2>1, <2>2
<1>3. Spec /\ [][GentleTruncation]_vars => []Inv
  BY Inductive
<1> QED BY <1>1, <1>2, <1>3, PTL DEF Spec, RefinesAtomicFile, File!Spec

----------------------------------------------------------------------------
(* Where no truncation is to be feared. *)

(* The directory file is never truncated: it opens again, is updated out of place *)
(* and is atomic, without any condition.  (open_dirh, commit_dirh_writes)         *)
THEOREM DirectoryFile ==
  Spec /\ mode = "counter" => []ReopenVerifies /\ CommittedUntouched /\ RefinesAtomicFile
<1>1. mode = "counter" /\ [Next]_vars => (mode = "counter")'
  BY DEF Next, vars, Create, Open, OpenPartiallyDone, OpenEmpty, OutOfPlaceWrite, OutOfPlaceWriteStops,
         Extend, Truncate, TruncateFails, SyncToStorage, SyncNode, SyncHead, WriteDummyHead, Anchor, Lose
<1>2. mode = "counter" => [GentleTruncation]_vars
  BY DEF GentleTruncation, Truncate, TruncateFails
<1>3. Spec /\ mode = "counter" => [][GentleTruncation]_vars
  BY <1>1, <1>2, PTL DEF Spec
<1> QED BY <1>3, ReopensAfterPowerLoss, UpdatesOutOfPlace, FileIsAtomic, PTL

(* So is an object's file of any size that no call tries to make shorter. *)
(* (ree_fs_write, ree_fs_truncate)                                        *)
THEOREM UntruncatedFile ==
  Spec /\ [][\A length \in Cuts : ~Truncate(length) /\ ~TruncateFails(length)]_vars
     => []ReopenVerifies /\ CommittedUntouched /\ RefinesAtomicFile
<1> DEFINE NoTruncation == \A length \in Cuts : ~Truncate(length) /\ ~TruncateFails(length)
<1>1. [NoTruncation]_vars => [GentleTruncation]_vars
  BY DEF GentleTruncation
<1> HIDE DEF NoTruncation
<1>2. [][NoTruncation]_vars => [][GentleTruncation]_vars
  BY <1>1, PTL
<1>3. Spec /\ [][NoTruncation]_vars => []ReopenVerifies /\ CommittedUntouched /\ RefinesAtomicFile
  BY <1>2, ReopensAfterPowerLoss, UpdatesOutOfPlace, FileIsAtomic, PTL
<1> QED BY <1>3 DEF NoTruncation

(* In a tree of three nodes every parent is the root, which a truncation marks dirty. *)
LEMMA SmallIsGentle ==
  ASSUME MinCut >= 1, MaxShrink <= 1, ~CutMayFail, MaxNode <= 3, Inv
  PROVE  GentleTruncation
<1>a. \A length \in Cuts : TruncateFails(length) => ht' = ht
  BY DEF TruncateFails
<1> SUFFICES ASSUME NEW length \in Cuts, Truncate(length) PROVE TruncatesGently(length)
  BY <1>a DEF GentleTruncation
<1>1. /\ pc = "idle" /\ 0 < length /\ length + MinCut <= ht.len
      /\ CeilBlocks(ht.len) - CeilBlocks(length) <= MaxShrink
  BY DEF Truncate
<1>2. TreeType
  BY <1>1 DEF Inv, MemInv
<1>3. /\ ht.len \in Nat /\ length \in Nat /\ Size \in 1 .. MaxNode /\ MaxNode \in Nat
      /\ MinCut \in Nat /\ MaxShrink \in Nat /\ Nodes(ht) = 1 .. Size /\ length \in 0 .. 2 * MaxNode
  BY <1>2, TreeFacts, Consts
<1>4. CeilBlocks(ht.len) \in Int /\ CeilBlocks(length) \in Int
  BY <1>3 DEF CeilBlocks, BlockSize
<1>5. length < ht.len /\ CeilBlocks(ht.len) - CeilBlocks(length) <= 1
  BY <1>1, <1>3, <1>4
<1>6. PICK q \in Nat : q = length \div BlockSize
  BY <1>3, BlockOf
<1>7. PICK max : max = IF q + 1 < ht.max THEN q + 1 ELSE ht.max
  OBVIOUS
<1>8. Shrunk(ht', length, max)
  <2>1. ht' = [TreeTruncated(ht, q) EXCEPT !.len = length, !.dirty = TRUE, !.node[1].dirty = TRUE]
    BY <1>6 DEF Truncate
  <2> QED BY <1>2, <1>3, <1>6, <1>7, <2>1, TreeShrunk
<1>9. ht'.node[1].dirty /\ Nodes(ht') = 1 .. Max2(1, max)
  <2>1. PICK f : f = ht'.node
    OBVIOUS
  <2>2. f = [n \in 1 .. Max2(1, max) |-> f[n]] /\ f[1].dirty
    BY <1>8, <2>1, Zenon DEF Shrunk
  <2>3. DOMAIN f = 1 .. Max2(1, max)
    BY <2>2
  <2> QED BY <2>1, <2>2, <2>3 DEF Nodes
<1>10. ASSUME NEW n \in Nodes(ht) \ Nodes(ht'), n \div 2 \in Nodes(ht') PROVE ht'.node[n \div 2].dirty
  <2>1. n \in 1 .. 3 /\ n \div 2 >= 1
    <3>1. max \in Int
      BY <1>2, <1>3, <1>7, TreeFacts, Consts
    <3> QED BY <1>3, <1>9, <1>10, <3>1 DEF Max2
  <2>2. n \div 2 = 1
    BY <2>1
  <2> QED BY <1>9, <2>2
<1> QED BY <1>5, <1>10 DEF TruncatesGently

(* So is a file of at most three blocks, when truncations take away something and at *)
(* most one block, and fail only before they take a node away: the instance that     *)
(* HashTree.cfg checks.  (ree_fs_truncate)                                           *)
THEOREM SmallFile ==
  MinCut >= 1 /\ MaxShrink <= 1 /\ ~CutMayFail /\ MaxNode <= 3
     => (Spec => []ReopenVerifies /\ CommittedUntouched /\ RefinesAtomicFile)
<1> SUFFICES ASSUME MinCut >= 1, MaxShrink <= 1, ~CutMayFail, MaxNode <= 3
             PROVE  Spec => []ReopenVerifies /\ CommittedUntouched /\ RefinesAtomicFile
  OBVIOUS
<1>1. Inv => GentleTruncation
  BY SmallIsGentle
<1>2. Init => Inv
  BY InitStep
<1>3. Inv /\ [Next]_vars => Inv' /\ [GentleTruncation]_vars
  <2> SUFFICES ASSUME Inv, [Next]_vars PROVE Inv' /\ [GentleTruncation]_vars
    OBVIOUS
  <2>1. CASE UNCHANGED vars
    BY <2>1, StutterStep
  <2>2. CASE Next
    BY <1>1, <2>2, NextStep
  <2> QED BY <2>1, <2>2
<1>4. Spec => [][GentleTruncation]_vars
  BY <1>2, <1>3, PTL DEF Spec
<1> QED BY <1>4, ReopensAfterPowerLoss, UpdatesOutOfPlace, FileIsAtomic, PTL
=============================================================================
