----------------------------- MODULE HashTree -----------------------------
(***************************************************************************)
(* One file of the secure storage: a binary hash tree kept in a file of    *)
(* the normal world (core/tee/fs_htree.c) and the reads, writes and        *)
(* truncations of core/tee/tee_ree_fs.c that work on it.                   *)
(*                                                                         *)
(* The file holds two images of the head, of each node and of each block.  *)
(* Which node image is current is said by a flag of its parent, which      *)
(* block image by a flag of its node, which root and head by the counter.  *)
(* Every write of an image is one request to tee-supplicant, which opened  *)
(* the file O_SYNC: power can be lost between two of them, and what was    *)
(* written stays.  The tree in memory is lost with the power, when a       *)
(* request fails, and when the file is closed.                             *)
(*                                                                         *)
(* mode "hash" is an object's file: it is opened with the root hash that   *)
(* the directory file remembers, in trusted.  mode "counter" is the        *)
(* directory file itself: it is opened by the counters of its two heads    *)
(* (this build has no monotonic counter, so min_counter is 0).             *)
(***************************************************************************)
EXTENDS Integers, Sequences, FiniteSets

CONSTANTS MaxNode,      \* nodes (and blocks) a file can have
          MaxChanges,   \* writes and truncations in a behaviour
          Cuts,         \* where writes and truncations may start and end
          MaxCounter,   \* bound of the head's counter
          MinCut,       \* units that one truncation takes away at least,
          MaxShrink,    \* and blocks that it takes away at most
          CutMayFail,   \* a truncation that takes nodes away may fail half way
          None,         \* no such file, or the file is not open
          Corrupt       \* what an open returns that cannot verify the file

ASSUME ConstantsOK ==
    /\ MaxNode \in Nat \ {0} /\ MaxChanges \in Nat
    /\ Cuts \subseteq 0 .. MaxNode * 2
    /\ MaxCounter \in Nat \ {0} /\ MinCut \in Nat /\ MaxShrink \in Nat
    /\ CutMayFail \in BOOLEAN
    /\ None # Corrupt
    /\ \A n \in 0 .. MaxNode * 2 :
          None \notin [0 .. n - 1 -> Int] /\ Corrupt \notin [0 .. n - 1 -> Int]

BlockSize == 2          \* units in a block, so that a block can be half used

Blocks == 0 .. MaxNode - 1

VARIABLES
    mode,       \* how the file is opened: "hash" or "counter"
    file,       \* "absent", "empty" (created, nothing written), "data"
    head, node, blk,    \* the images in the file, by version
    trusted,    \* the root hash the directory file holds, << >> for none
    ht,         \* the tree in memory, NoTree when the file is not open
    pc,         \* what the operation that holds ree_fs_mutex does next
    todo,       \* nodes that tee_fs_htree_sync_to_storage has still to visit
    changes     \* writes and truncations so far; the number of the last one

disk == <<file, head, node, blk>>
vars == <<mode, file, head, node, blk, trusted, ht, pc, todo, changes>>

----------------------------------------------------------------------------
(* Images.  A node's tag is that of the encryption of its block: a fresh    *)
(* one for every encryption, so it names the write.  Zero images are what   *)
(* a part of the file reads as that was never written.                      *)

Max2(a, b) == IF a > b THEN a ELSE b
CeilBlocks(length) == (length + BlockSize - 1) \div BlockSize

NoTree == << >>
ZeroHead == [counter |-> 0, root |-> << >>, max |-> 0, len |-> 0]
ZeroNode == [blk |-> 0, child |-> [c \in 0 .. 1 |-> 0], tag |-> 0,
             hash |-> << >>]
ZeroBlock == [tag |-> 0, data |-> [u \in 0 .. BlockSize - 1 |-> 0]]

Image(n) == [blk |-> n.blk, child |-> n.child, tag |-> n.tag, hash |-> n.hash]

NodesUpTo(max) == 1 .. Max2(1, max)
Nodes(t) == DOMAIN t.node

\* The hashes of the children that exist, child[0] before child[1].
ChildHashes(nodes, n) ==
    LET kids == {2 * n, 2 * n + 1} \cap DOMAIN nodes
    IN  [k \in 1 .. Cardinality(kids) |-> nodes[2 * n + k - 1].hash]

\* Only the root's hash covers the meta data, here the length of the file.
CalcNodeHash(nodes, n, len) ==
    <<nodes[n].blk, nodes[n].child, nodes[n].tag, IF n = 1 THEN len ELSE -1>>
        \o ChildHashes(nodes, n)

PostOrder(max) ==
    LET visit[n \in 1 .. 2 * MaxNode + 1] ==
            IF n \in NodesUpTo(max)
            THEN visit[2 * n] \o visit[2 * n + 1] \o <<n>>
            ELSE << >>
    IN  visit[1]

----------------------------------------------------------------------------
(* Opening.                                                                 *)

\* Mutant: the head with the smaller counter is taken.
GetIdxFromCounterOlder(c0, c1) ==
    IF c0 % 2 = 0
    THEN IF c1 % 2 = 0 \/ c0 < c1 THEN 0 ELSE 1
    ELSE IF c1 % 2 = 1 THEN 1 ELSE -1

GetIdxFromCounter(c0, c1) ==
    IF c0 % 2 = 0
    THEN IF c1 % 2 = 0 \/ c0 > c1 THEN 0 ELSE 1
    ELSE IF c1 % 2 = 1 THEN 1 ELSE -1

\* The version whose root and head are read, -1 when there is none.
InitHeadFromData ==
    IF mode = "hash"
    THEN IF node[1][0].hash = trusted THEN 0
         ELSE IF node[1][1].hash = trusted THEN 1 ELSE -1
    ELSE GetIdxFromCounter(head[0].counter, head[1].counter)

HeadIsPartiallyDone(h) == h.counter = 0 /\ h.root = << >>

\* Each node is read in the version that its parent's flag names.
InitTreeFromData(idx) ==
    LET load[n \in NodesUpTo(head[idx].max)] ==
            IF n = 1 THEN node[1][idx]
            ELSE node[n][load[n \div 2].child[n % 2]]
    IN  [n \in NodesUpTo(head[idx].max) |-> load[n]]

\* The head's tag authenticates the root hash along with the head.
VerifyRoot(idx) == head[idx].root # << >> /\ head[idx].root = node[1][idx].hash

VerifyTree(nodes, len) ==
    \A n \in DOMAIN nodes : nodes[n].hash = CalcNodeHash(nodes, n, len)

OpenSucceeds(idx) ==
    /\ idx \in 0 .. 1
    /\ VerifyRoot(idx)
    /\ VerifyTree(InitTreeFromData(idx), head[idx].len)

TreeFromData(idx) ==
    LET nodes == InitTreeFromData(idx)
    IN  [counter |-> head[idx].counter, max |-> head[idx].max,
         len |-> head[idx].len, dirty |-> FALSE,
         node |-> [n \in DOMAIN nodes |->
                      [blk |-> nodes[n].blk, child |-> nodes[n].child,
                       tag |-> nodes[n].tag, hash |-> nodes[n].hash,
                       dirty |-> FALSE, updated |-> FALSE]]]

NewNode == [blk |-> 0, child |-> [c \in 0 .. 1 |-> 0], tag |-> 0,
            hash |-> << >>, dirty |-> FALSE, updated |-> FALSE]

\* create_and_sync before its first write; max_node_id is still 0.
NewTree == [counter |-> 0, max |-> 0, len |-> 0, dirty |-> TRUE,
            node |-> [n \in {1} |-> [NewNode EXCEPT !.dirty = TRUE]]]

(* Reading: a block must decrypt with the tag its node holds.              *)
BlockReads(t, b) ==
    /\ b + 1 \in Nodes(t)
    /\ t.node[b + 1].tag # 0
    /\ blk[b][t.node[b + 1].blk].tag = t.node[b + 1].tag

BlockData(t, b) == blk[b][t.node[b + 1].blk].data

Unreadable == -1

\* What ree_fs_read returns for each unit of the file.
ReadAll(t) ==
    [u \in 0 .. t.len - 1 |->
        IF BlockReads(t, u \div BlockSize)
        THEN BlockData(t, u \div BlockSize)[u % BlockSize]
        ELSE Unreadable]

----------------------------------------------------------------------------
Init ==
    /\ mode \in {"hash", "counter"}
    /\ file = "absent"
    /\ head = [v \in 0 .. 1 |-> ZeroHead]
    /\ node = [n \in 1 .. MaxNode |-> [v \in 0 .. 1 |-> ZeroNode]]
    /\ blk = [b \in Blocks |-> [v \in 0 .. 1 |-> ZeroBlock]]
    /\ trusted = << >>
    /\ ht = NoTree /\ pc = "closed" /\ todo = << >> /\ changes = 0

Erase(newFile) ==
    /\ file' = newFile
    /\ head' = [v \in 0 .. 1 |-> ZeroHead]
    /\ node' = [n \in 1 .. MaxNode |-> [v \in 0 .. 1 |-> ZeroNode]]
    /\ blk' = [b \in Blocks |-> [v \in 0 .. 1 |-> ZeroBlock]]

StartCreation ==
    /\ ht' = NewTree
    /\ pc' = "create" /\ todo' = <<1>>

\* The file is created, or emptied if one was left behind, and a tree of one
\* node is started.  An object's file is made when no entry refers to it, the
\* directory file when it is not there.
Create ==
    /\ pc = "closed"
    /\ IF mode = "hash" THEN trusted = << >> ELSE file = "absent"
    /\ Erase("empty")
    /\ StartCreation
    /\ UNCHANGED <<mode, trusted, changes>>

HasName == IF mode = "hash" THEN trusted # << >> ELSE file # "absent"

Open ==
    /\ pc = "closed" /\ HasName /\ file = "data"
    /\ OpenSucceeds(InitHeadFromData)
    /\ ht' = TreeFromData(InitHeadFromData)
    /\ pc' = "idle"
    /\ UNCHANGED <<mode, disk, trusted, todo, changes>>

\* Power was lost after the first node and before the first head.
OpenPartiallyDone ==
    /\ pc = "closed" /\ HasName /\ file = "data"
    /\ InitHeadFromData \in 0 .. 1
    /\ HeadIsPartiallyDone(head[InitHeadFromData])
    /\ StartCreation
    /\ UNCHANGED <<mode, disk, trusted, changes>>

\* Power was lost before the first node: the heads cannot be read, and a file
\* that is not protected against roll-back is removed.
OpenEmpty ==
    /\ mode = "counter" /\ pc = "closed" /\ file = "empty"
    /\ Erase("absent")
    /\ UNCHANGED <<mode, trusted, ht, pc, todo, changes>>

----------------------------------------------------------------------------
(* Writing.  out_of_place_write of units from .. to-1, which lie in blocks  *)
(* first .. last.                                                           *)

\* Mutant: a block that was already written since the last sync is written to
\* its other version again.
TreeWrittenTurns(t, bs, tag) ==
    LET last == CHOOSE b \in bs : \A c \in bs : c <= b
        ids == Nodes(t) \cup 1 .. last + 1
        old(n) == IF n \in Nodes(t) THEN t.node[n] ELSE NewNode
    IN  [t EXCEPT
           !.dirty = TRUE,
           !.max = IF last + 1 \in Nodes(t) THEN @ ELSE Max2(@, last + 1),
           !.node = [n \in ids |->
               IF n - 1 \in bs
               THEN [old(n) EXCEPT !.blk = 1 - @, !.tag = tag,
                                   !.updated = TRUE, !.dirty = TRUE]
               ELSE old(n)]]

\* tee_fs_htree_write_block of the blocks bs on tree t.
TreeWritten(t, bs, tag) ==
    LET last == CHOOSE b \in bs : \A c \in bs : c <= b
        ids == Nodes(t) \cup 1 .. last + 1
        old(n) == IF n \in Nodes(t) THEN t.node[n] ELSE NewNode
    IN  [t EXCEPT
           !.dirty = TRUE,
           !.max = IF last + 1 \in Nodes(t) THEN @ ELSE Max2(@, last + 1),
           !.node = [n \in ids |->
               IF n - 1 \in bs
               THEN [old(n) EXCEPT
                       !.blk = IF old(n).updated THEN @ ELSE 1 - @,
                       !.tag = tag, !.updated = TRUE, !.dirty = TRUE]
               ELSE old(n)]]

\* The content that block b gets: the old one or zeros, and the new units.
NewData(b, from, to, w) ==
    [u \in 0 .. BlockSize - 1 |->
        IF b * BlockSize + u \in from .. to - 1 THEN w
        ELSE IF b < CeilBlocks(ht.len) THEN BlockData(ht, b)[u] ELSE 0]

WriteBlocks(bs, from, to, w) ==
    LET t == TreeWritten(ht, bs, changes + 1)
    IN  /\ blk' = [b \in Blocks |->
                     IF b \in bs
                     THEN [blk[b] EXCEPT ![t.node[b + 1].blk] =
                             [tag |-> changes + 1,
                              data |-> NewData(b, from, to, w)]]
                     ELSE blk[b]]
        /\ changes' = changes + 1

BlocksOf(from, to) == (from \div BlockSize) .. ((to - 1) \div BlockSize)

CanWrite(from, to) ==
    /\ pc = "idle" /\ changes < MaxChanges
    /\ from <= ht.len /\ from < to
    /\ \A b \in BlocksOf(from, to) :
          b < CeilBlocks(ht.len) => BlockReads(ht, b)

Written(from, to) ==
    LET t == TreeWritten(ht, BlocksOf(from, to), changes + 1)
    IN  IF to > ht.len
        THEN [t EXCEPT !.len = to, !.node[1].dirty = TRUE]
        ELSE t

\* A write that starts inside the file or at its end.
OutOfPlaceWrite(from, to, w) ==
    /\ CanWrite(from, to)
    /\ WriteBlocks(BlocksOf(from, to), from, to, w)
    /\ ht' = Written(from, to)
    /\ UNCHANGED <<mode, file, head, node, trusted, pc, todo>>

\* ree_fs_ftruncate_internal to a length past the end: also the first half of a
\* write that starts past the end.
Extend(length) == pc = "idle" /\ OutOfPlaceWrite(ht.len, length, 0)

\* The caller's buffer cannot be read any further after some of the blocks:
\* the write fails and the tree stays as it is, changed blocks included.
OutOfPlaceWriteStops(from, to, w) ==
    /\ mode = "hash" /\ CanWrite(from, to)
    /\ \E last \in BlocksOf(from, to) \ {(to - 1) \div BlockSize} :
          LET bs == (from \div BlockSize) .. last
          IN  /\ WriteBlocks(bs, from, to, w)
              /\ ht' = TreeWritten(ht, bs, changes + 1)
    /\ UNCHANGED <<mode, file, head, node, trusted, pc, todo>>

\* tee_fs_htree_truncate: the nodes after blockNum's leave the tree.
TreeTruncated(t, blockNum) ==
    LET max == IF blockNum + 1 < t.max THEN blockNum + 1 ELSE t.max
    IN  [t EXCEPT
           !.max = max,
           !.dirty = @ \/ max < t.max,
           !.node = [n \in NodesUpTo(max) |-> t.node[n]]]

SyncOf(t) == /\ pc' = "sync" /\ todo' = PostOrder(t.max)

\* ree_fs_truncate to a length inside the file, behind its header: the tree loses
\* nodes, the file is cut after the block that follows the last one in use, and
\* the new length is synchronised.
Truncate(length) ==
    /\ mode = "hash" /\ pc = "idle" /\ changes < MaxChanges
    /\ 0 < length /\ length + MinCut <= ht.len
    /\ CeilBlocks(ht.len) - CeilBlocks(length) <= MaxShrink
    /\ ht' = [TreeTruncated(ht, length \div BlockSize) EXCEPT
                 !.len = length, !.dirty = TRUE, !.node[1].dirty = TRUE]
    /\ blk' = [b \in Blocks |->
                  IF b > CeilBlocks(length) THEN [v \in 0 .. 1 |-> ZeroBlock]
                  ELSE blk[b]]
    /\ SyncOf(ht')
    /\ changes' = changes + 1
    /\ UNCHANGED <<mode, file, head, node, trusted>>

\* The request to cut the file fails: the tree, which stays open, has lost its
\* nodes already and keeps the old length.  A truncation within the last node of
\* the tree has taken none away.
TruncateFails(length) ==
    /\ mode = "hash" /\ pc = "idle"
    /\ 0 < length /\ length <= ht.len
    /\ CutMayFail \/ TreeTruncated(ht, length \div BlockSize) = ht
    /\ ht' = TreeTruncated(ht, length \div BlockSize)
    /\ UNCHANGED <<mode, disk, trusted, pc, todo, changes>>

----------------------------------------------------------------------------
(* Synchronising.                                                           *)

AfterSync == IF mode = "hash" THEN "anchor" ELSE "idle"

\* An object is never saved empty: ree_fs_create writes a header first.
SyncToStorage ==
    /\ pc = "idle" /\ ht.counter < MaxCounter
    /\ mode = "hash" => ht.len > 0
    /\ IF ht.dirty THEN SyncOf(ht) ELSE pc' = AfterSync /\ UNCHANGED todo
    /\ UNCHANGED <<mode, disk, trusted, ht, changes>>

\* Mutant: a node is written before its parent's flag is turned.
NewVersionOld(t, n) ==
    IF n = 1 THEN 1 - (t.counter % 2) ELSE t.node[n \div 2].child[n % 2]

\* The version of node n that a sync writes, once its parent's flag is turned.
NewVersion(t, n) ==
    IF n = 1 THEN 1 - (t.counter % 2) ELSE 1 - t.node[n \div 2].child[n % 2]

TurnParentFlag(t, n) ==
    IF n = 1 THEN t.node
    ELSE [t.node EXCEPT ![n \div 2].dirty = TRUE,
                        ![n \div 2].child[n % 2] = 1 - @]

SyncNode ==
    /\ pc \in {"create", "sync"} /\ todo # << >>
    /\ LET n == Head(todo)
           nodes == TurnParentFlag(ht, n)
           new == [nodes[n] EXCEPT !.hash = CalcNodeHash(nodes, n, ht.len),
                                   !.dirty = FALSE, !.updated = FALSE]
       IN  IF ht.node[n].dirty
           THEN /\ ht' = [ht EXCEPT !.node = [nodes EXCEPT ![n] = new]]
                /\ node' = [node EXCEPT ![n][NewVersion(ht, n)] = Image(new)]
                /\ file' = "data"
           ELSE UNCHANGED <<ht, node, file>>
    /\ todo' = Tail(todo)
    /\ UNCHANGED <<mode, head, blk, trusted, pc, changes>>

SyncHead ==
    /\ pc \in {"create", "sync"} /\ todo = << >>
    /\ LET counter == ht.counter + 1
       IN  /\ ht' = [ht EXCEPT !.counter = counter, !.dirty = FALSE]
           /\ head' = [head EXCEPT ![counter % 2] =
                         [counter |-> counter, root |-> ht.node[1].hash,
                          max |-> ht.max, len |-> ht.len]]
    /\ pc' = IF pc = "create" THEN "dummy" ELSE AfterSync
    /\ UNCHANGED <<mode, file, node, blk, trusted, todo, changes>>

\* The last step of create_and_sync.
WriteDummyHead ==
    /\ pc = "dummy"
    /\ head' = [head EXCEPT ![0] = ZeroHead]
    /\ pc' = "idle"
    /\ UNCHANGED <<mode, file, node, blk, trusted, ht, todo, changes>>

\* The directory file with the object's new root hash is committed.
Anchor ==
    /\ pc = "anchor"
    /\ trusted' = ht.node[1].hash
    /\ pc' = "idle"
    /\ UNCHANGED <<mode, disk, ht, todo, changes>>

\* Power is lost, a request fails and the tree is closed, or the file is.
Lose ==
    /\ pc # "closed"
    /\ ht' = NoTree /\ pc' = "closed" /\ todo' = << >>
    /\ UNCHANGED <<mode, disk, trusted, changes>>

Next ==
    \/ Create \/ Open \/ OpenPartiallyDone \/ OpenEmpty
    \/ \E from, to \in Cuts :
          \/ OutOfPlaceWrite(from, to, changes + 1)
          \/ OutOfPlaceWriteStops(from, to, changes + 1)
    \/ \E length \in Cuts :
          Extend(length) \/ Truncate(length) \/ TruncateFails(length)
    \/ SyncToStorage \/ SyncNode \/ SyncHead \/ WriteDummyHead
    \/ Anchor \/ Lose

Spec == Init /\ [][Next]_vars

----------------------------------------------------------------------------
(* What the file holds as the next open will see it.                        *)

\* Before its first head (or directory entry) there is no file to lose.
Exists ==
    IF mode = "hash" THEN trusted # << >> ELSE head[1].counter > 0

Saved ==
    LET idx == InitHeadFromData
    IN  IF ~ Exists THEN None
        ELSE IF ~ OpenSucceeds(idx) THEN Corrupt
        ELSE ReadAll(TreeFromData(idx))

Work == IF pc = "closed" THEN None ELSE ReadAll(ht)

\* Whenever power is lost, the file that was last committed opens again, its
\* hashes verify and each of its blocks decrypts.
\* (tee_fs_htree_open, tee_fs_htree_read_block)
ReopenVerifies ==
    /\ Saved # Corrupt
    /\ Saved # None => \A u \in DOMAIN Saved : Saved[u] # Unreadable

\* The images of nodes and blocks that the committed tree is made of.
CommittedNodes(t) ==
    {<<1, InitHeadFromData>>} \cup
        {<<n, t.node[n \div 2].child[n % 2]>> : n \in Nodes(t) \ {1}}
CommittedBlocks(t) ==
    {<<n - 1, t.node[n].blk>> : n \in {m \in Nodes(t) :
                                          (m - 1) * BlockSize < t.len}}

\* Updates are out of place: no step changes an image of a node or a block
\* that the committed tree is made of, whatever the tree in memory has done to
\* its flags since.  (htree_sync_node_to_storage, tee_fs_htree_write_block)
CommittedUntouched ==
    [][LET t == TreeFromData(InitHeadFromData)
       IN  Exists =>
             /\ \A i \in CommittedNodes(t) : node'[i[1]][i[2]] = node[i[1]][i[2]]
             /\ \A i \in CommittedBlocks(t) : blk'[i[1]][i[2]] = blk[i[1]][i[2]]
      ]_vars

File == INSTANCE AtomicFile WITH
            saved <- Saved, work <- Work, Values <- 0 .. MaxChanges

\* The file is an atomic one: the content that an open finds changes only at a
\* commit, to exactly what the open tree reads back, and a tree reads back
\* what was written to it, zeros where it was made longer.
\* (tee_fs_htree_sync_to_storage, out_of_place_write, ree_fs_truncate)
RefinesAtomicFile == File!Spec
===========================================================================
