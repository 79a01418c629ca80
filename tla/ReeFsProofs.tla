---------------------------- MODULE ReeFsProofs ----------------------------
(***************************************************************************)
(* The secure storage keeps its objects whole and its handles right, and   *)
(* counts the users of the shared directory handle exactly, for every      *)
(* number of clients, objects, file numbers and roots, with power loss     *)
(* between any two steps.                                                  *)
(***************************************************************************)
EXTENDS ReeFs, FiniteSetTheorems, TLAPS, WellFoundedInduction

----------------------------------------------------------------------------
(* Counting the elements of a finite set.                                   *)

(* Two sets that agree except on t differ in size by t's membership.        *)
LEMMA CountMove ==
  ASSUME NEW T, IsFiniteSet(T), NEW A \in SUBSET T, NEW B \in SUBSET T, NEW t,
         A \ {t} = B \ {t}
  PROVE  /\ Cardinality(A) \in Nat /\ Cardinality(B) \in Nat
         /\ t \in A /\ t \in B => Cardinality(B) = Cardinality(A)
         /\ t \notin A /\ t \notin B => Cardinality(B) = Cardinality(A)
         /\ t \in A /\ t \notin B => Cardinality(B) = Cardinality(A) - 1
         /\ t \notin A /\ t \in B => Cardinality(B) = Cardinality(A) + 1
<1>1. IsFiniteSet(A) /\ IsFiniteSet(B) BY FS_Subset
<1>2. Cardinality(A) \in Nat /\ Cardinality(B) \in Nat
  BY <1>1, FS_CardinalityType
<1>3. Cardinality(A \ {t}) = IF t \in A THEN Cardinality(A) - 1 ELSE Cardinality(A)
  BY <1>1, FS_RemoveElement
<1>4. Cardinality(B \ {t}) = IF t \in B THEN Cardinality(B) - 1 ELSE Cardinality(B)
  BY <1>1, FS_RemoveElement
<1>5. Cardinality(A \ {t}) = Cardinality(B \ {t}) OBVIOUS
<1> QED BY <1>2, <1>3, <1>4, <1>5

(* The same in one equation.                                                *)
LEMMA CountDelta ==
  ASSUME NEW T, IsFiniteSet(T), NEW A \in SUBSET T, NEW B \in SUBSET T, NEW t,
         A \ {t} = B \ {t}
  PROVE  /\ Cardinality(A) \in Nat /\ Cardinality(B) \in Nat
         /\ Cardinality(B) = Cardinality(A) + (IF t \in B THEN 1 ELSE 0)
                                            - (IF t \in A THEN 1 ELSE 0)
BY CountMove

(* A set with an element is not counted as empty.                           *)
LEMMA CountPositive ==
  ASSUME NEW T, IsFiniteSet(T), NEW A \in SUBSET T, NEW t \in A
  PROVE  Cardinality(A) \in Nat /\ Cardinality(A) > 0
<1>1. IsFiniteSet(A) BY FS_Subset
<1>2. Cardinality(A) \in Nat /\ Cardinality(A) # 0
  BY <1>1, FS_CardinalityType, FS_EmptySet
<1> QED BY <1>2

(* A set counted as one element holds no two.                               *)
LEMMA CountOne ==
  ASSUME NEW T, IsFiniteSet(T), NEW A \in SUBSET T, Cardinality(A) = 1,
         NEW t \in A, NEW u \in A
  PROVE  t = u
<1>1. IsFiniteSet(A) BY FS_Subset
<1>2. \E x : A = {x} BY <1>1, FS_Singleton
<1> QED BY <1>2

(* Where a client holds ree_fs_mutex, has an open file, has an operation    *)
(* running beside it, and has a reference to the object it names.           *)
Locked == {"tmp", "naming", "named", "writing", "updating", "moving", "removing", "removed"}
Running == {"writing", "updating", "moving", "removing", "removed"}
HasFile == {"tmp", "naming", "named", "writing", "updating", "moving", "ready", "created",
            "renaming", "moved", "closing", "looked"}
MayHaveFile == HasFile \cup {"corrupt", "removing", "removed"}
Listing == {"listing", "listed", "looking", "looked"}
Unnamed == {"idle", "listing"}
Unheld == Unnamed \cup {"listed"}

(* The part of the types that counting needs.                               *)
StoreType ==
  /\ dir \in Entries
  /\ files \in [FileNumbers -> SUBSET Roots]
  /\ dirh \in Dirh \cup {Nil}
  /\ refcount \in Nat
  /\ owner \in Clients \cup {Nil}
  /\ cl \in [Clients -> Client]

Shape(c) ==
  /\ cl[c].pc \in HasFile => cl[c].fh # Nil
  /\ cl[c].fh # Nil => cl[c].pc \in MayHaveFile
  /\ cl[c].pc \in Listing => cl[c].lists
  /\ cl[c].lists => cl[c].pc \in Listing \cup {"releasing"}
  /\ owner = c <=> cl[c].pc \in Locked
  /\ cl[c].name # Nil <=> cl[c].pc \notin Unnamed
  /\ cl[c].to # Nil <=> cl[c].pc \in {"renaming", "moving", "moved"}
  /\ cl[c].fh # Nil /\ cl[c].pc # "tmp" => cl[c].fh.idx # -1

ShapeInv == \A c \in Clients : Shape(c)

(* The references to the directory handle.                                  *)
FileRefs == {c \in Clients : cl[c].fh # Nil}
ListRefs == {c \in Clients : cl[c].lists}
RunRefs == {c \in Clients : cl[c].pc \in Running}

RefsInv ==
  /\ refcount = Cardinality(FileRefs) + Cardinality(ListRefs) + Cardinality(RunRefs)
  /\ dirh # Nil => refcount > 0
  /\ owner # Nil => dirh # Nil

CountInv == StoreType /\ ShapeInv /\ RefsInv

----------------------------------------------------------------------------
(* What the store needs of its clients: objects that are written or created *)
(* are not shared, a handle on which a call failed is not written to, and a *)
(* look-up that fails is one of a missing name.                             *)
Exclusive(flags) == "M" \in flags \/ ("W" \in flags /\ "SW" \notin flags)

ExclusiveUse ==
  /\ ~Retry /\ ~FindMayFail
  /\ \A c \in Clients : \A flags \in OpenFlags[c] : "W" \in flags => Exclusive(flags)
  /\ \A flags \in CreateFlags : Exclusive(flags)

FlagsOK(c) ==
  /\ "W" \in cl[c].flags => Exclusive(cl[c].flags)
  /\ cl[c].pc \in {"creating", "tmp", "naming", "named", "created", "writing", "updating"} =>
       Exclusive(cl[c].flags) /\ ~cl[c].failed
  /\ cl[c].pc \in {"renaming", "moving", "moved"} => "M" \in cl[c].flags
  /\ cl[c].pc = "idle" => ~cl[c].failed

FlagsInv == \A c \in Clients : FlagsOK(c)

(* The references to a persistent object by its name, those to one that     *)
(* reserves the name, by enumerations and by the client that will move its  *)
(* object there.                                                            *)
Refers(c, n) == cl[c].name = n /\ cl[c].pc \notin Unheld
ByName(n) == {c \in Clients : Refers(c, n) /\ ~cl[c].spare}
Spares(n) == {c \in Clients : Refers(c, n) /\ cl[c].spare}
ByTo(n) == {c \in Clients : cl[c].to = n}

Pobj == [refcnt : Nat, creating : BOOLEAN, flags : SUBSET Flags, reserved : Nat]

RefcntOK(n) ==
  /\ pobj[n].refcnt = Cardinality(ByName(n))
  /\ pobj[n].reserved = Cardinality(ByTo(n)) + Cardinality(Spares(n))

(* A client that has an object to itself shares it only with enumerations.  *)
OwnedOK(n) ==
  \A c \in ByName(n) :
    ~cl[c].lists /\ Exclusive(cl[c].flags) =>
      /\ Exclusive(pobj[n].flags)
      /\ \A d \in ByName(n) : d # c => cl[d].lists

(* A reserved name is reserved by one client and used by nobody.            *)
ReservedOK(n) ==
  \A c \in ByTo(n) : ByName(n) = {} /\ \A d \in ByTo(n) : d = c

SpareInv == \A c \in Clients : cl[c].spare => cl[c].lists

PobjInv ==
  /\ pobj \in [Names -> Pobj]
  /\ \A n \in Names : RefcntOK(n) /\ OwnedOK(n) /\ ReservedOK(n)
  /\ SpareInv

----------------------------------------------------------------------------
(* The object a handle is on.                                               *)
EntryOf(c) == [name |-> cl[c].name, file |-> cl[c].fh.file, hash |-> cl[c].fh.base]

FilesOf(ents) == {ents[i].file : i \in Used(ents)}

(* The object is not there: another reader took it for corrupt.             *)
Gone(c) == ~Exclusive(cl[c].flags) /\ \A i \in Used(dir) : dir[i].name # cl[c].name

HandleOK(c) ==
  cl[c].pc \in {"ready", "created", "named", "writing", "renaming", "moving"} /\ ~cl[c].failed
    => dir[cl[c].fh.idx] = EntryOf(c) \/ Gone(c)

(* How the directory in memory differs from the one on disk while an        *)
(* operation is under way, and what the operation is about to remove.       *)
TmpOK(c) ==
  cl[c].pc \in {"tmp", "naming"} =>
    cl[c].fh.file \notin FilesOf(dir) /\ cl[c].fh.file \in dirh.bits

NamingOK(c) ==
  cl[c].pc = "naming" =>
    LET h == cl[c].fh IN
    /\ dirh.ents = [dir EXCEPT ![h.idx] = EntryOf(c)]
    /\ h.base \in files[h.file]
    /\ \A i \in Used(dir) : dir[i].name = cl[c].name <=> i = h.idx
    /\ cl[c].old = IF dir[h.idx] = Nil THEN Nil ELSE dir[h.idx].file

UpdatingOK(c) ==
  cl[c].pc = "updating" =>
    LET h == cl[c].fh IN
    /\ dir[h.idx] # Nil /\ dir[h.idx].name = cl[c].name /\ dir[h.idx].file = h.file
    /\ dirh.ents = [dir EXCEPT ![h.idx] = EntryOf(c)]
    /\ h.base \in files[h.file]

MovingOK(c) ==
  cl[c].pc = "moving" =>
    /\ \E i \in Used(dir) :
         /\ dir[i].name = cl[c].name
         /\ dirh.ents = [dir EXCEPT ![i] = [dir[i] EXCEPT !.name = cl[c].to]]
    /\ \A j \in Used(dir) : dir[j].name # cl[c].to

MovedOK(c) ==
  cl[c].pc = "moved" /\ ~cl[c].failed =>
    dir[cl[c].fh.idx] = [name |-> cl[c].to, file |-> cl[c].fh.file, hash |-> cl[c].fh.base]

RemovingOK(c) ==
  cl[c].pc = "removing" =>
    \E i \in Used(dir) : /\ dir[i].name = cl[c].name /\ cl[c].old = dir[i].file
                         /\ dirh.ents = [dir EXCEPT ![i] = Nil]

CommittedOK(c) ==
  /\ cl[c].pc \in {"tmp", "named", "writing", "removed"} => dirh.ents = dir
  /\ cl[c].pc \in {"named", "removed"} => cl[c].old \notin FilesOf(dir)
  /\ cl[c].pc = "removed" => cl[c].old \in FileNumbers

PendingOK(c) ==
  /\ TmpOK(c) /\ NamingOK(c) /\ UpdatingOK(c) /\ MovingOK(c)
  /\ MovedOK(c) /\ RemovingOK(c) /\ CommittedOK(c)

ClientInv == \A c \in Clients : HandleOK(c) /\ PendingOK(c)

DirhInv ==
  dirh # Nil => /\ FilesOf(dirh.ents) \subseteq dirh.bits
                /\ owner = Nil => dirh.ents = dir

StoreInv == CountInv /\ FlagsInv /\ PobjInv /\ StoreIntact /\ ClientInv /\ DirhInv

----------------------------------------------------------------------------
(* Sets of natural numbers have a least element. *)
LEMMA LeastExists ==
  ASSUME NEW S \in SUBSET Nat, S # {}
  PROVE  Min(S) \in S
<1> DEFINE R == {p \in Nat \X Nat : p[1] < p[2]}
<1>1. IsWellFoundedOn(R, Nat)
  BY NatLessThanWellFounded, Zenon DEF OpToRel
<1>2. PICK x \in S : \A y \in S : ~(<<y, x>> \in R)
  <2> HIDE DEF R
  <2> QED BY <1>1, WFMin
<1>3. \A y \in S : ~(y < x)
  BY <1>2
<1>4. \A y \in S : x =< y
  BY <1>3
<1> QED BY <1>4 DEF Min

(* tee_fs_dirfile_find: an entry of that name, or -1 when there is none. *)
LEMMA FindFinds ==
  ASSUME NEW ents \in Entries, NEW n
  PROVE  \/ Find(ents, n) \in Used(ents) /\ ents[Find(ents, n)].name = n
         \/ Find(ents, n) = -1 /\ \A i \in Used(ents) : ents[i].name # n
<1> DEFINE found == {i \in Used(ents) : ents[i].name = n}
<1>1. found \in SUBSET Nat
  BY ReeFsAssumption, FS_CardinalityType DEF Used, Idx
<1>2. found # {} => Min(found) \in found
  BY <1>1, LeastExists
<1> QED BY <1>2 DEF Find

(* tee_fs_dirfile_get_tmp: a number that is not in use. *)
LEMMA GetTmpFree ==
  ASSUME NEW d \in Dirh, FileNumbers \ d.bits # {}
  PROVE  GetTmp(d) \in FileNumbers /\ GetTmp(d) \notin d.bits
<1>1. FileNumbers \ d.bits \in SUBSET Nat
  BY ReeFsAssumption DEF FileNumbers
<1> QED BY <1>1, LeastExists DEF GetTmp

(* A root not in use belongs to its file. *)
LEMMA NewRootType ==
  ASSUME NEW f \in FileNumbers, FreshRoots(f) # {}
  PROVE  NewRoot(f) \in Roots
<1>1. FreshRoots(f) \in SUBSET Nat /\ FreshRoots(f) \subseteq 1 .. MaxRoot
  BY ReeFsAssumption DEF FreshRoots
<1>2. Min(FreshRoots(f)) \in 1 .. MaxRoot
  BY <1>1, LeastExists
<1> QED BY <1>2 DEF NewRoot, Roots

(* find_empty_idx *)
LEMMA EmptyIdx ==
  ASSUME NEW ents \in Entries, Used(ents) # Idx
  PROVE  FindEmptyIdx(ents) \in Idx \ Used(ents)
<1>1. Idx \ Used(ents) \in SUBSET Nat /\ Idx \ Used(ents) # {}
  BY ReeFsAssumption, FS_CardinalityType DEF Used, Idx
<1> QED BY <1>1, LeastExists DEF FindEmptyIdx

----------------------------------------------------------------------------
(* Types. *)

(* The types of what a client keeps.                                        *)
LEMMA ClientTypes ==
  ASSUME StoreType, NEW c \in Clients
  PROVE  /\ cl[c] \in Client
         /\ cl[c].pc \in Places /\ cl[c].name \in Names \cup {Nil} /\ cl[c].to \in Names \cup {Nil}
         /\ cl[c].flags \in SUBSET Flags /\ cl[c].fh \in Handle \cup {Nil}
         /\ cl[c].old \in FileNumbers \cup {Nil} /\ cl[c].failed \in BOOLEAN /\ cl[c].lists \in BOOLEAN
         /\ cl[c].closed \in BOOLEAN /\ cl[c].spare \in BOOLEAN
         /\ cl[c].fh # Nil => /\ cl[c].fh.file \in FileNumbers /\ cl[c].fh.base \in Roots
                              /\ cl[c].fh.idx \in Idx \cup {-1}
BY DEF StoreType, Client, Handle

(* The fields of client c after a step of its own. *)
Others(c) == /\ cl' \in [Clients -> Client]
             /\ \A d \in Clients : d # c => cl'[d] = cl[d]

(* Create reserves the name. *)
LEMMA CreateEffect ==
  ASSUME StoreType, NEW c \in Clients, NEW m \in Names, NEW f \in SUBSET Flags, NEW w \in BOOLEAN,
         Create(c, m, f, w)
  PROVE  /\ Others(c)
         /\ cl'[c].pc = "creating" /\ cl'[c].name = m /\ cl'[c].to = cl[c].to
         /\ cl'[c].flags = f /\ cl'[c].overwrite = w /\ cl'[c].fh = cl[c].fh
         /\ cl'[c].old = cl[c].old /\ cl'[c].failed = cl[c].failed /\ cl'[c].lists = cl[c].lists
         /\ cl'[c].spare = cl[c].spare
<1> DEFINE r == [cl[c] EXCEPT !.pc = "creating", !.name = m, !.flags = f, !.overwrite = w]
<1>1. cl' = [cl EXCEPT ![c] = r]
  BY ClientTypes DEF Create, StoreType, Client
<1>2. cl[c] \in Client /\ "creating" \in Places
  BY ClientTypes DEF Places
<1>3. r \in Client
  BY <1>2, ClientTypes DEF Client
<1> QED BY <1>1, <1>2, <1>3 DEF Others, StoreType, Client

(* FsOpen and CreateTmp give the client a file. *)
LEMMA FileEffect ==
  ASSUME StoreType, NEW c \in Clients, NEW p \in Places, NEW h \in Handle,
         cl' = [cl EXCEPT ![c].pc = p, ![c].fh = h]
  PROVE  /\ Others(c)
         /\ cl'[c].pc = p /\ cl'[c].name = cl[c].name /\ cl'[c].to = cl[c].to
         /\ cl'[c].flags = cl[c].flags /\ cl'[c].overwrite = cl[c].overwrite /\ cl'[c].fh = h
         /\ cl'[c].old = cl[c].old /\ cl'[c].failed = cl[c].failed /\ cl'[c].lists = cl[c].lists
         /\ cl'[c].spare = cl[c].spare
<1> DEFINE r == [cl[c] EXCEPT !.pc = p, !.fh = h]
<1>1. cl' = [cl EXCEPT ![c] = r]
  BY ClientTypes DEF StoreType, Client
<1>2. cl[c] \in Client /\ p \in Places
  BY ClientTypes DEF Places
<1>3. r \in Client
  BY <1>2, ClientTypes DEF Client
<1> QED BY <1>1, <1>2, <1>3 DEF Others, StoreType, Client

(* SetName gives the file its place in the directory. *)
LEMMA SetNameEffect ==
  ASSUME StoreType, NEW c \in Clients, cl[c].fh # Nil, NEW j \in Idx, NEW f \in FileNumbers \cup {Nil},
         cl' = [cl EXCEPT ![c].pc = "naming", ![c].fh.idx = j, ![c].old = f]
  PROVE  /\ Others(c)
         /\ cl'[c].pc = "naming" /\ cl'[c].name = cl[c].name /\ cl'[c].to = cl[c].to
         /\ cl'[c].flags = cl[c].flags /\ cl'[c].overwrite = cl[c].overwrite /\ cl'[c].fh = [cl[c].fh EXCEPT !.idx = j]
         /\ cl'[c].old = f /\ cl'[c].failed = cl[c].failed /\ cl'[c].lists = cl[c].lists
         /\ cl'[c].spare = cl[c].spare
<1> DEFINE r == [cl[c] EXCEPT !.pc = "naming", !.fh = [cl[c].fh EXCEPT !.idx = j], !.old = f]
<1>1. cl' = [cl EXCEPT ![c] = r]
  BY ClientTypes DEF StoreType, Client
<1>2. cl[c] \in Client /\ "naming" \in Places
  BY ClientTypes DEF Places
<1>3. [cl[c].fh EXCEPT !.idx = j] \in Handle
  BY ClientTypes DEF Handle
<1>4. r \in Client
  BY <1>2, <1>3, ClientTypes DEF Client
<1> QED BY <1>1, <1>2, <1>4 DEF Others, StoreType, Client

(* CreateFinal makes the object an ordinary one. *)
LEMMA CreateFinalEffect ==
  ASSUME StoreType, NEW c \in Clients,
         cl' = [cl EXCEPT ![c].pc = "ready", ![c].overwrite = FALSE, ![c].old = Nil]
  PROVE  /\ Others(c)
         /\ cl'[c].pc = "ready" /\ cl'[c].name = cl[c].name /\ cl'[c].to = cl[c].to
         /\ cl'[c].flags = cl[c].flags /\ cl'[c].overwrite = FALSE /\ cl'[c].fh = cl[c].fh
         /\ cl'[c].old = Nil /\ cl'[c].failed = cl[c].failed /\ cl'[c].lists = cl[c].lists
         /\ cl'[c].spare = cl[c].spare
<1> DEFINE r == [cl[c] EXCEPT !.pc = "ready", !.overwrite = FALSE, !.old = Nil]
<1>1. cl' = [cl EXCEPT ![c] = r]
  BY ClientTypes DEF StoreType, Client
<1>2. cl[c] \in Client /\ "ready" \in Places
  BY ClientTypes DEF Places
<1>3. r \in Client
  BY <1>2, ClientTypes DEF Client
<1> QED BY <1>1, <1>2, <1>3 DEF Others, StoreType, Client

(* WriteSync moves the handle to the new root. *)
LEMMA WriteSyncEffect ==
  ASSUME StoreType, NEW c \in Clients, cl[c].fh # Nil, NEW r0 \in Roots,
         cl' = [cl EXCEPT ![c].pc = "updating", ![c].fh.base = r0]
  PROVE  /\ Others(c)
         /\ cl'[c].pc = "updating" /\ cl'[c].name = cl[c].name /\ cl'[c].to = cl[c].to
         /\ cl'[c].flags = cl[c].flags /\ cl'[c].overwrite = cl[c].overwrite /\ cl'[c].fh = [cl[c].fh EXCEPT !.base = r0]
         /\ cl'[c].old = cl[c].old /\ cl'[c].failed = cl[c].failed /\ cl'[c].lists = cl[c].lists
         /\ cl'[c].spare = cl[c].spare
<1> DEFINE r == [cl[c] EXCEPT !.pc = "updating", !.fh = [cl[c].fh EXCEPT !.base = r0]]
<1>1. cl' = [cl EXCEPT ![c] = r]
  BY ClientTypes DEF StoreType, Client
<1>2. cl[c] \in Client /\ "updating" \in Places
  BY ClientTypes DEF Places
<1>3. [cl[c].fh EXCEPT !.base = r0] \in Handle
  BY ClientTypes DEF Handle
<1>4. r \in Client
  BY <1>2, <1>3, ClientTypes DEF Client
<1> QED BY <1>1, <1>2, <1>4 DEF Others, StoreType, Client

(* Rename reserves the new name. *)
LEMMA RenameEffect ==
  ASSUME StoreType, NEW c \in Clients, NEW m \in Names,
         cl' = [cl EXCEPT ![c].pc = "renaming", ![c].to = m]
  PROVE  /\ Others(c)
         /\ cl'[c].pc = "renaming" /\ cl'[c].name = cl[c].name /\ cl'[c].to = m
         /\ cl'[c].flags = cl[c].flags /\ cl'[c].overwrite = cl[c].overwrite /\ cl'[c].fh = cl[c].fh
         /\ cl'[c].old = cl[c].old /\ cl'[c].failed = cl[c].failed /\ cl'[c].lists = cl[c].lists
         /\ cl'[c].spare = cl[c].spare
<1> DEFINE r == [cl[c] EXCEPT !.pc = "renaming", !.to = m]
<1>1. cl' = [cl EXCEPT ![c] = r]
  BY ClientTypes DEF StoreType, Client
<1>2. cl[c] \in Client /\ "renaming" \in Places
  BY ClientTypes DEF Places
<1>3. r \in Client
  BY <1>2, ClientTypes DEF Client
<1> QED BY <1>1, <1>2, <1>3 DEF Others, StoreType, Client

(* A rename that fails gives the new name back. *)
LEMMA UnreserveEffect ==
  ASSUME StoreType, NEW c \in Clients,
         cl' = [cl EXCEPT ![c].pc = "ready", ![c].to = Nil]
  PROVE  /\ Others(c)
         /\ cl'[c].pc = "ready" /\ cl'[c].name = cl[c].name /\ cl'[c].to = Nil
         /\ cl'[c].flags = cl[c].flags /\ cl'[c].overwrite = cl[c].overwrite /\ cl'[c].fh = cl[c].fh
         /\ cl'[c].old = cl[c].old /\ cl'[c].failed = cl[c].failed /\ cl'[c].lists = cl[c].lists
         /\ cl'[c].spare = cl[c].spare
<1> DEFINE r == [cl[c] EXCEPT !.pc = "ready", !.to = Nil]
<1>1. cl' = [cl EXCEPT ![c] = r]
  BY ClientTypes DEF StoreType, Client
<1>2. cl[c] \in Client /\ "ready" \in Places
  BY ClientTypes DEF Places
<1>3. r \in Client
  BY <1>2, ClientTypes DEF Client
<1> QED BY <1>1, <1>2, <1>3 DEF Others, StoreType, Client

(* PobjRename gives the handle its new name. *)
LEMMA PobjRenameEffect ==
  ASSUME StoreType, NEW c \in Clients,
         cl' = [cl EXCEPT ![c].pc = "ready", ![c].name = cl[c].to, ![c].to = Nil]
  PROVE  /\ Others(c)
         /\ cl'[c].pc = "ready" /\ cl'[c].name = cl[c].to /\ cl'[c].to = Nil
         /\ cl'[c].flags = cl[c].flags /\ cl'[c].overwrite = cl[c].overwrite /\ cl'[c].fh = cl[c].fh
         /\ cl'[c].old = cl[c].old /\ cl'[c].failed = cl[c].failed /\ cl'[c].lists = cl[c].lists
         /\ cl'[c].spare = cl[c].spare
<1> DEFINE r == [cl[c] EXCEPT !.pc = "ready", !.name = cl[c].to, !.to = Nil]
<1>1. cl' = [cl EXCEPT ![c] = r]
  BY ClientTypes DEF StoreType, Client
<1>2. cl[c] \in Client /\ "ready" \in Places
  BY ClientTypes DEF Places
<1>3. r \in Client
  BY <1>2, ClientTypes DEF Client
<1> QED BY <1>1, <1>2, <1>3 DEF Others, StoreType, Client

(* FsRemove remembers the file. *)
LEMMA FsRemoveEffect ==
  ASSUME StoreType, NEW c \in Clients, NEW f \in FileNumbers,
         cl' = [cl EXCEPT ![c].pc = "removing", ![c].old = f]
  PROVE  /\ Others(c)
         /\ cl'[c].pc = "removing" /\ cl'[c].name = cl[c].name /\ cl'[c].to = cl[c].to
         /\ cl'[c].flags = cl[c].flags /\ cl'[c].overwrite = cl[c].overwrite /\ cl'[c].fh = cl[c].fh
         /\ cl'[c].old = f /\ cl'[c].failed = cl[c].failed /\ cl'[c].lists = cl[c].lists
         /\ cl'[c].spare = cl[c].spare
<1> DEFINE r == [cl[c] EXCEPT !.pc = "removing", !.old = f]
<1>1. cl' = [cl EXCEPT ![c] = r]
  BY ClientTypes DEF StoreType, Client
<1>2. cl[c] \in Client /\ "removing" \in Places
  BY ClientTypes DEF Places
<1>3. r \in Client
  BY <1>2, ClientTypes DEF Client
<1> QED BY <1>1, <1>2, <1>3 DEF Others, StoreType, Client

(* A failing write marks the handle. *)
LEMMA WriteFailsEffect ==
  ASSUME StoreType, NEW c \in Clients,
         cl' = [cl EXCEPT ![c].pc = "ready", ![c].failed = TRUE]
  PROVE  /\ Others(c)
         /\ cl'[c].pc = "ready" /\ cl'[c].name = cl[c].name /\ cl'[c].to = cl[c].to
         /\ cl'[c].flags = cl[c].flags /\ cl'[c].overwrite = cl[c].overwrite /\ cl'[c].fh = cl[c].fh
         /\ cl'[c].old = cl[c].old /\ cl'[c].failed = TRUE /\ cl'[c].lists = cl[c].lists
         /\ cl'[c].spare = cl[c].spare
<1> DEFINE r == [cl[c] EXCEPT !.pc = "ready", !.failed = TRUE]
<1>1. cl' = [cl EXCEPT ![c] = r]
  BY ClientTypes DEF StoreType, Client
<1>2. cl[c] \in Client /\ "ready" \in Places
  BY ClientTypes DEF Places
<1>3. r \in Client
  BY <1>2, ClientTypes DEF Client
<1> QED BY <1>1, <1>2, <1>3 DEF Others, StoreType, Client

(* A write or a read that fails may close the tree of the handle. *)
LEMMA CloseTreeEffect ==
  ASSUME StoreType, NEW c \in Clients,
         \/ cl' = [cl EXCEPT ![c].pc = "ready", ![c].failed = TRUE, ![c].closed = TRUE]
         \/ cl[c].pc = "ready" /\ cl' = [cl EXCEPT ![c].failed = TRUE, ![c].closed = TRUE]
  PROVE  /\ Others(c)
         /\ cl'[c].pc = "ready" /\ cl'[c].name = cl[c].name /\ cl'[c].to = cl[c].to
         /\ cl'[c].flags = cl[c].flags /\ cl'[c].overwrite = cl[c].overwrite /\ cl'[c].fh = cl[c].fh
         /\ cl'[c].old = cl[c].old /\ cl'[c].failed = TRUE /\ cl'[c].lists = cl[c].lists
         /\ cl'[c].spare = cl[c].spare
<1> DEFINE r == [cl[c] EXCEPT !.pc = "ready", !.failed = TRUE, !.closed = TRUE]
<1>1. cl' = [cl EXCEPT ![c] = r]
  <2>1. CASE cl' = [cl EXCEPT ![c].pc = "ready", ![c].failed = TRUE, ![c].closed = TRUE]
    BY <2>1, ClientTypes DEF StoreType, Client
  <2>2. CASE cl[c].pc = "ready" /\ cl' = [cl EXCEPT ![c].failed = TRUE, ![c].closed = TRUE]
    <3>1. [cl[c] EXCEPT !.failed = TRUE, !.closed = TRUE] = r
      BY <2>2, ClientTypes DEF StoreType, Client
    <3>2. cl' = [cl EXCEPT ![c] = [cl[c] EXCEPT !.failed = TRUE, !.closed = TRUE]]
      BY <2>2, ClientTypes DEF StoreType, Client
    <3> QED BY <3>1, <3>2 DEF r
  <2> QED BY <2>1, <2>2
<1>2. cl[c] \in Client /\ "ready" \in Places
  BY ClientTypes DEF Places
<1>3. r \in Client
  BY <1>2, ClientTypes DEF Client
<1> QED BY <1>1, <1>2, <1>3 DEF Others, StoreType, Client

(* A rename whose last step fails marks the handle. *)
LEMMA StaleNameEffect ==
  ASSUME StoreType, NEW c \in Clients,
         cl' = [cl EXCEPT ![c].pc = "ready", ![c].to = Nil, ![c].failed = TRUE]
  PROVE  /\ Others(c)
         /\ cl'[c].pc = "ready" /\ cl'[c].name = cl[c].name /\ cl'[c].to = Nil
         /\ cl'[c].flags = cl[c].flags /\ cl'[c].overwrite = cl[c].overwrite /\ cl'[c].fh = cl[c].fh
         /\ cl'[c].old = cl[c].old /\ cl'[c].failed = TRUE /\ cl'[c].lists = cl[c].lists
         /\ cl'[c].spare = cl[c].spare
<1> DEFINE r == [cl[c] EXCEPT !.pc = "ready", !.to = Nil, !.failed = TRUE]
<1>1. cl' = [cl EXCEPT ![c] = r]
  BY ClientTypes DEF StoreType, Client
<1>2. cl[c] \in Client /\ "ready" \in Places
  BY ClientTypes DEF Places
<1>3. r \in Client
  BY <1>2, ClientTypes DEF Client
<1> QED BY <1>1, <1>2, <1>3 DEF Others, StoreType, Client

(* EnumGet refers to the object, or to one that reserves its name. *)
LEMMA EnumGetEffect ==
  ASSUME StoreType, NEW c \in Clients, NEW b \in BOOLEAN,
         cl' = [cl EXCEPT ![c].pc = "looking", ![c].spare = b]
  PROVE  /\ Others(c)
         /\ cl'[c].pc = "looking" /\ cl'[c].name = cl[c].name /\ cl'[c].to = cl[c].to
         /\ cl'[c].flags = cl[c].flags /\ cl'[c].overwrite = cl[c].overwrite /\ cl'[c].fh = cl[c].fh
         /\ cl'[c].old = cl[c].old /\ cl'[c].failed = cl[c].failed /\ cl'[c].lists = cl[c].lists
         /\ cl'[c].spare = b
<1> DEFINE r == [cl[c] EXCEPT !.pc = "looking", !.spare = b]
<1>1. cl' = [cl EXCEPT ![c] = r]
  BY ClientTypes DEF StoreType, Client
<1>2. cl[c] \in Client /\ "looking" \in Places
  BY ClientTypes DEF Places
<1>3. r \in Client
  BY <1>2, ClientTypes DEF Client
<1> QED BY <1>1, <1>2, <1>3 DEF Others, StoreType, Client

(* The object will be removed as corrupt. *)
LEMMA CorruptEffect ==
  ASSUME StoreType, NEW c \in Clients, NEW h \in Handle \cup {Nil},
         cl' = [cl EXCEPT ![c] = Corrupt(c, h)]
  PROVE  /\ Others(c)
         /\ cl'[c].pc = "corrupt" /\ cl'[c].name = cl[c].name /\ cl'[c].to = Nil
         /\ cl'[c].flags = {} /\ cl'[c].overwrite = FALSE /\ cl'[c].fh = h
         /\ cl'[c].old = Nil /\ cl'[c].failed = FALSE /\ cl'[c].lists = FALSE
         /\ cl'[c].spare = FALSE
BY ClientTypes DEF Corrupt, Idle, StoreType, Client, Others, Places

(* StartEnum begins an enumeration. *)
LEMMA StartEnumEffect ==
  ASSUME StoreType, NEW c \in Clients,
         cl' = [cl EXCEPT ![c].pc = "listing", ![c].lists = TRUE]
  PROVE  /\ Others(c)
         /\ cl'[c].pc = "listing" /\ cl'[c].name = cl[c].name /\ cl'[c].to = cl[c].to
         /\ cl'[c].flags = cl[c].flags /\ cl'[c].overwrite = cl[c].overwrite /\ cl'[c].fh = cl[c].fh
         /\ cl'[c].old = cl[c].old /\ cl'[c].failed = cl[c].failed /\ cl'[c].lists = TRUE
         /\ cl'[c].spare = cl[c].spare
<1> DEFINE r == [cl[c] EXCEPT !.pc = "listing", !.lists = TRUE]
<1>1. cl' = [cl EXCEPT ![c] = r]
  BY ClientTypes DEF StoreType, Client
<1>2. cl[c] \in Client /\ "listing" \in Places
  BY ClientTypes DEF Places
<1>3. r \in Client
  BY <1>2, ClientTypes DEF Client
<1> QED BY <1>1, <1>2, <1>3 DEF Others, StoreType, Client

(* ReadDir finds a name. *)
LEMMA ReadDirEffect ==
  ASSUME StoreType, NEW c \in Clients, NEW m \in Names,
         cl' = [cl EXCEPT ![c].pc = "listed", ![c].name = m]
  PROVE  /\ Others(c)
         /\ cl'[c].pc = "listed" /\ cl'[c].name = m /\ cl'[c].to = cl[c].to
         /\ cl'[c].flags = cl[c].flags /\ cl'[c].overwrite = cl[c].overwrite /\ cl'[c].fh = cl[c].fh
         /\ cl'[c].old = cl[c].old /\ cl'[c].failed = cl[c].failed /\ cl'[c].lists = cl[c].lists
         /\ cl'[c].spare = cl[c].spare
<1> DEFINE r == [cl[c] EXCEPT !.pc = "listed", !.name = m]
<1>1. cl' = [cl EXCEPT ![c] = r]
  BY ClientTypes DEF StoreType, Client
<1>2. cl[c] \in Client /\ "listed" \in Places
  BY ClientTypes DEF Places
<1>3. r \in Client
  BY <1>2, ClientTypes DEF Client
<1> QED BY <1>1, <1>2, <1>3 DEF Others, StoreType, Client

(* The handle is gone. *)
LEMMA DoneEffect ==
  ASSUME StoreType, NEW c \in Clients, cl' = [cl EXCEPT ![c] = Done(c)]
  PROVE  /\ Others(c)
         /\ cl'[c].pc = "releasing" /\ cl'[c].name = cl[c].name /\ cl'[c].to = Nil
         /\ cl'[c].flags = {} /\ cl'[c].overwrite = FALSE /\ cl'[c].fh = Nil
         /\ cl'[c].old = Nil /\ cl'[c].failed = FALSE /\ cl'[c].lists = cl[c].lists
         /\ cl'[c].spare = cl[c].spare
BY ClientTypes DEF Done, Idle, StoreType, Client, Others, Places

(* Only the handle is left. *)
LEMMA ClosingEffect ==
  ASSUME StoreType, NEW c \in Clients, cl' = [cl EXCEPT ![c] = Closing(c)]
  PROVE  /\ Others(c)
         /\ cl[c].fh = Nil => cl'[c].pc = "releasing"
         /\ cl[c].fh # Nil => cl'[c].pc = "closing"
         /\ cl'[c].name = cl[c].name /\ cl'[c].to = Nil
         /\ cl'[c].flags = {} /\ cl'[c].overwrite = FALSE /\ cl'[c].fh = cl[c].fh
         /\ cl'[c].old = Nil /\ cl'[c].failed = FALSE /\ cl'[c].lists = FALSE
         /\ cl'[c].spare = FALSE
BY ClientTypes DEF Closing, Idle, StoreType, Client, Others, Places

(* Nothing is left. *)
LEMMA IdleEffect ==
  ASSUME StoreType, NEW c \in Clients, cl' = [cl EXCEPT ![c] = Idle]
  PROVE  /\ Others(c)
         /\ cl'[c].pc = "idle" /\ cl'[c].name = Nil /\ cl'[c].to = Nil
         /\ cl'[c].flags = {} /\ cl'[c].overwrite = FALSE /\ cl'[c].fh = Nil
         /\ cl'[c].old = Nil /\ cl'[c].failed = FALSE /\ cl'[c].lists = FALSE
         /\ cl'[c].spare = FALSE
BY ClientTypes DEF Idle, StoreType, Client, Others, Places

(* The enumeration goes on. *)
LEMMA NextNameEffect ==
  ASSUME StoreType, NEW c \in Clients, cl' = [cl EXCEPT ![c] = [Idle EXCEPT !.pc = "listing", !.lists = TRUE]]
  PROVE  /\ Others(c)
         /\ cl'[c].pc = "listing" /\ cl'[c].name = Nil /\ cl'[c].to = Nil
         /\ cl'[c].flags = {} /\ cl'[c].overwrite = FALSE /\ cl'[c].fh = Nil
         /\ cl'[c].old = Nil /\ cl'[c].failed = FALSE /\ cl'[c].lists = TRUE
         /\ cl'[c].spare = FALSE
BY ClientTypes DEF Idle, StoreType, Client, Others, Places

(* Open reserves the name. *)
LEMMA OpenEffect ==
  ASSUME StoreType, NEW c \in Clients, NEW m \in Names, NEW f \in SUBSET Flags,
         cl' = [cl EXCEPT ![c].pc = "opening", ![c].name = m, ![c].flags = f]
  PROVE  /\ Others(c)
         /\ cl'[c].pc = "opening" /\ cl'[c].name = m /\ cl'[c].to = cl[c].to
         /\ cl'[c].flags = f /\ cl'[c].overwrite = cl[c].overwrite /\ cl'[c].fh = cl[c].fh
         /\ cl'[c].old = cl[c].old /\ cl'[c].failed = cl[c].failed /\ cl'[c].lists = cl[c].lists
         /\ cl'[c].spare = cl[c].spare
<1> DEFINE r == [cl[c] EXCEPT !.pc = "opening", !.name = m, !.flags = f]
<1>1. cl' = [cl EXCEPT ![c] = r]
  BY ClientTypes DEF StoreType, Client
<1>2. cl[c] \in Client /\ "opening" \in Places
  BY ClientTypes DEF Places
<1>3. r \in Client
  BY <1>2, ClientTypes DEF Client
<1> QED BY <1>1, <1>2, <1>3 DEF Others, StoreType, Client

(* Only the place in the program changes. *)
LEMMA GotoEffect ==
  ASSUME StoreType, NEW c \in Clients, NEW p \in Places, Goto(c, p)
  PROVE  /\ Others(c)
         /\ cl'[c].pc = p /\ cl'[c].name = cl[c].name /\ cl'[c].to = cl[c].to
         /\ cl'[c].flags = cl[c].flags /\ cl'[c].overwrite = cl[c].overwrite /\ cl'[c].fh = cl[c].fh
         /\ cl'[c].old = cl[c].old /\ cl'[c].failed = cl[c].failed /\ cl'[c].lists = cl[c].lists
         /\ cl'[c].spare = cl[c].spare
BY ClientTypes DEF Goto, StoreType, Client, Others
----------------------------------------------------------------------------
(* The reference count of the directory handle. *)

(* tee_fs_dirfile_open returns a directory. *)
LEMMA GetDirhType ==
  ASSUME StoreType
  PROVE  GetDirh \in Dirh /\ GetDirh # Nil /\ GetDirh.ents \in Entries
<1>1. DirfileOpen.ents \in Entries
  BY DEF StoreType, DirfileOpen, Entries
<1>2. DirfileOpen.bits \in SUBSET FileNumbers
  BY DEF StoreType, DirfileOpen, Entries, Used, Entry
<1>3. DirfileOpen = [ents |-> DirfileOpen.ents, bits |-> DirfileOpen.bits]
  BY DEF DirfileOpen
<1>4. DirfileOpen \in Dirh
  BY <1>1, <1>2, <1>3 DEF Dirh
<1>5. GetDirh \in Dirh
  BY <1>4 DEF GetDirh, StoreType
<1> QED BY <1>5, ReeFsAssumption DEF Dirh

(* A client that has a file or a list, or runs an operation, is counted. *)
LEMMA Counted ==
  ASSUME CountInv, NEW c \in Clients, cl[c].fh # Nil \/ cl[c].lists \/ cl[c].pc \in Running
  PROVE  refcount > 0
<1>1. FileRefs \in SUBSET Clients /\ ListRefs \in SUBSET Clients /\ RunRefs \in SUBSET Clients
  BY DEF FileRefs, ListRefs, RunRefs
<1>2. Cardinality(FileRefs) \in Nat /\ Cardinality(ListRefs) \in Nat /\ Cardinality(RunRefs) \in Nat
  BY <1>1, ReeFsAssumption, FS_Subset, FS_CardinalityType
<1>3. c \in FileRefs \/ c \in ListRefs \/ c \in RunRefs
  BY DEF FileRefs, ListRefs, RunRefs
<1>4. Cardinality(FileRefs) > 0 \/ Cardinality(ListRefs) > 0 \/ Cardinality(RunRefs) > 0
  BY <1>1, <1>3, ReeFsAssumption, CountPositive
<1> QED BY <1>2, <1>4 DEF CountInv, RefsInv

(* A step that counts what its client gains and loses keeps the count exact. *)
LEMMA CountStep ==
  ASSUME CountInv, NEW c \in Clients, Others(c), StoreType', Shape(c)',
         \/ owner' = owner
         \/ owner = Nil /\ owner' = c
         \/ owner = c /\ owner' = Nil,
         refcount' = refcount
           + (IF cl'[c].fh # Nil THEN 1 ELSE 0) - (IF cl[c].fh # Nil THEN 1 ELSE 0)
           + (IF cl'[c].lists THEN 1 ELSE 0) - (IF cl[c].lists THEN 1 ELSE 0)
           + (IF cl'[c].pc \in Running THEN 1 ELSE 0) - (IF cl[c].pc \in Running THEN 1 ELSE 0),
         dirh' # Nil => refcount' > 0, owner' # Nil => dirh' # Nil
  PROVE  CountInv'
<1>1. FileRefs \in SUBSET Clients /\ ListRefs \in SUBSET Clients /\ RunRefs \in SUBSET Clients
  BY DEF FileRefs, ListRefs, RunRefs
<1>2. FileRefs' \in SUBSET Clients /\ ListRefs' \in SUBSET Clients /\ RunRefs' \in SUBSET Clients
  BY DEF FileRefs, ListRefs, RunRefs
<1>3. FileRefs \ {c} = FileRefs' \ {c} /\ ListRefs \ {c} = ListRefs' \ {c} /\ RunRefs \ {c} = RunRefs' \ {c}
  BY DEF FileRefs, ListRefs, RunRefs, Others
<1>4. /\ c \in FileRefs <=> cl[c].fh # Nil
      /\ c \in FileRefs' <=> cl'[c].fh # Nil
      /\ c \in ListRefs <=> cl[c].lists
      /\ c \in ListRefs' <=> cl'[c].lists
      /\ c \in RunRefs <=> cl[c].pc \in Running
      /\ c \in RunRefs' <=> cl'[c].pc \in Running
  BY DEF FileRefs, ListRefs, RunRefs
<1>5. /\ Cardinality(FileRefs) \in Nat /\ Cardinality(FileRefs') \in Nat
      /\ Cardinality(FileRefs') = Cardinality(FileRefs) + (IF cl'[c].fh # Nil THEN 1 ELSE 0)
                                                        - (IF cl[c].fh # Nil THEN 1 ELSE 0)
  BY <1>1, <1>2, <1>3, <1>4, ReeFsAssumption, CountDelta
<1>6. /\ Cardinality(ListRefs) \in Nat /\ Cardinality(ListRefs') \in Nat
      /\ Cardinality(ListRefs') = Cardinality(ListRefs) + (IF cl'[c].lists THEN 1 ELSE 0)
                                                        - (IF cl[c].lists THEN 1 ELSE 0)
  BY <1>1, <1>2, <1>3, <1>4, ReeFsAssumption, CountDelta
<1>7. /\ Cardinality(RunRefs) \in Nat /\ Cardinality(RunRefs') \in Nat
      /\ Cardinality(RunRefs') = Cardinality(RunRefs) + (IF cl'[c].pc \in Running THEN 1 ELSE 0)
                                                      - (IF cl[c].pc \in Running THEN 1 ELSE 0)
  BY <1>1, <1>2, <1>3, <1>4, ReeFsAssumption, CountDelta
<1>8. refcount = Cardinality(FileRefs) + Cardinality(ListRefs) + Cardinality(RunRefs)
  BY DEF CountInv, RefsInv
<1>9. refcount' = Cardinality(FileRefs') + Cardinality(ListRefs') + Cardinality(RunRefs')
  BY <1>5, <1>6, <1>7, <1>8
<1>10. RefsInv'
  BY <1>9 DEF RefsInv
<1>11. ShapeInv'
  <2> SUFFICES ASSUME NEW d \in Clients, d # c PROVE Shape(d)'
    BY DEF ShapeInv
  <2>1. Shape(d) /\ cl'[d] = cl[d]
    BY DEF CountInv, ShapeInv, Others
  <2>2. owner' = d <=> owner = d
    BY ReeFsAssumption
  <2> QED BY <2>1, <2>2 DEF Shape
<1> QED BY <1>10, <1>11 DEF CountInv

(* put_dirh_primitive: what is left of the count and of the handle. *)
LEMMA PutType ==
  ASSUME NEW d \in Dirh \cup {Nil}, NEW n \in Nat, n > 0, NEW b \in BOOLEAN, PutDirh(d, n, b)
  PROVE  /\ refcount' \in Nat /\ refcount' = n - 1
         /\ dirh' \in Dirh \cup {Nil}
         /\ dirh' # Nil => refcount' > 0 /\ dirh' = d
BY DEF PutDirh

(* A step that leaves the directory handle alone. *)
LEMMA QuietCount ==
  ASSUME CountInv, NEW c \in Clients, Others(c), UNCHANGED <<dir, files, dirh, refcount, owner>>,
         Shape(c)', cl'[c].fh # Nil <=> cl[c].fh # Nil, cl'[c].lists = cl[c].lists,
         cl'[c].pc \notin Running, cl[c].pc \notin Running
  PROVE  CountInv'
<1>1. StoreType'
  BY DEF CountInv, StoreType, Others
<1>2. refcount \in Nat
  BY DEF CountInv, StoreType
<1> QED BY <1>1, <1>2, CountStep DEF CountInv, RefsInv

(* An operation that gets the directory handle and puts it back.            *)
LEMMA GetPut ==
  ASSUME StoreType, NEW b \in BOOLEAN, PutDirh(GetDirh, refcount + 1, b)
  PROVE  /\ refcount' = refcount /\ dirh' \in Dirh \cup {Nil}
         /\ b => dirh' = Nil
         /\ dirh' # Nil => refcount' > 0 /\ dirh' = GetDirh
<1>1. refcount \in Nat
  BY DEF StoreType
<1> QED BY <1>1, GetDirhType DEF PutDirh

(* A step that gives back the references to the directory that it took. *)
LEMMA PassCount ==
  ASSUME CountInv, NEW c \in Clients, Others(c), UNCHANGED <<dir, files, refcount, owner>>, owner = Nil,
         dirh' \in Dirh \cup {Nil}, dirh' # Nil => refcount' > 0,
         Shape(c)', cl'[c].fh # Nil <=> cl[c].fh # Nil, cl'[c].lists = cl[c].lists,
         cl'[c].pc \notin Running, cl[c].pc \notin Running
  PROVE  CountInv'
<1>1. StoreType'
  BY DEF CountInv, StoreType, Others
<1>2. refcount \in Nat
  BY DEF CountInv, StoreType
<1>3. owner' = owner /\ owner' = Nil /\ refcount' = refcount
  OBVIOUS
<1> QED BY <1>1, <1>2, <1>3, CountStep

(* An object is opened: the references still add up.                        *)
LEMMA OpenCount ==
  ASSUME CountInv, NEW c \in Clients, NEW m \in Names, NEW f \in SUBSET Flags, Open(c, m, f)
  PROVE  CountInv'
<1>1. StoreType /\ Shape(c)
  BY DEF CountInv, ShapeInv
<1>2. /\ Others(c) /\ cl'[c].pc = "opening" /\ cl'[c].name = m /\ cl'[c].fh = cl[c].fh
      /\ cl'[c].lists = cl[c].lists /\ cl'[c].to = cl[c].to
  BY <1>1, OpenEffect DEF Open
<1>3. cl[c].pc = "idle" /\ UNCHANGED <<dir, files, dirh, refcount, owner>>
  BY DEF Open
<1>4. Shape(c)'
  BY <1>1, <1>2, <1>3, ReeFsAssumption DEF Shape, HasFile, MayHaveFile, Locked, Listing, Unnamed
<1> QED BY <1>2, <1>3, <1>4, QuietCount DEF Running

(* A name is taken for a new object: the references still add up.           *)
LEMMA CreateCount ==
  ASSUME CountInv, NEW c \in Clients, NEW m \in Names, NEW f \in SUBSET Flags, NEW w \in BOOLEAN,
         Create(c, m, f, w)
  PROVE  CountInv'
<1>1. StoreType /\ Shape(c)
  BY DEF CountInv, ShapeInv
<1>2. /\ Others(c) /\ cl'[c].pc = "creating" /\ cl'[c].name = m /\ cl'[c].fh = cl[c].fh
      /\ cl'[c].lists = cl[c].lists /\ cl'[c].to = cl[c].to
  BY <1>1, CreateEffect
<1>3. cl[c].pc = "idle" /\ UNCHANGED <<dir, files, dirh, refcount, owner>>
  BY DEF Create
<1>4. Shape(c)'
  BY <1>1, <1>2, <1>3, ReeFsAssumption DEF Shape, HasFile, MayHaveFile, Locked, Listing, Unnamed
<1> QED BY <1>2, <1>3, <1>4, QuietCount DEF Running

(* The new name of an object is reserved: the references still add up.      *)
LEMMA RenameCount ==
  ASSUME CountInv, NEW c \in Clients, NEW m \in Names, Rename(c, m)
  PROVE  CountInv'
<1>1. StoreType /\ Shape(c)
  BY DEF CountInv, ShapeInv
<1>2. /\ Others(c) /\ cl'[c].pc = "renaming" /\ cl'[c].name = cl[c].name /\ cl'[c].fh = cl[c].fh
      /\ cl'[c].lists = cl[c].lists /\ cl'[c].to = m
  BY <1>1, RenameEffect DEF Rename
<1>3. cl[c].pc = "ready" /\ UNCHANGED <<dir, files, dirh, refcount, owner>>
  BY DEF Rename
<1>4. Shape(c)'
  BY <1>1, <1>2, <1>3, ReeFsAssumption DEF Shape, HasFile, MayHaveFile, Locked, Listing, Unnamed
<1> QED BY <1>2, <1>3, <1>4, QuietCount DEF Running

(* A reference to an object is given back: the references still add up.     *)
LEMMA ReleaseCount ==
  ASSUME CountInv, NEW c \in Clients, Release(c)
  PROVE  CountInv'
<1>1. StoreType /\ Shape(c)
  BY DEF CountInv, ShapeInv
<1>2. cl[c].pc = "releasing" /\ UNCHANGED <<dir, files, dirh, refcount, owner>>
  BY DEF Release
<1>3. /\ Others(c) /\ cl'[c].pc = (IF cl[c].lists THEN "listing" ELSE "idle")
      /\ cl'[c].name = Nil /\ cl'[c].fh = Nil /\ cl'[c].lists = cl[c].lists /\ cl'[c].to = Nil
  <2>1. CASE ~cl[c].lists
    <3>1. cl' = [cl EXCEPT ![c] = Idle]
      BY <2>1 DEF Release
    <3> QED BY <1>1, <2>1, <3>1, IdleEffect, ClientTypes
  <2>2. CASE cl[c].lists
    <3>1. cl' = [cl EXCEPT ![c] = [Idle EXCEPT !.pc = "listing", !.lists = TRUE]]
      BY <2>2 DEF Release
    <3> QED BY <1>1, <2>2, <3>1, NextNameEffect, ClientTypes
  <2> QED BY <2>1, <2>2
<1>4. Shape(c)'
  BY <1>1, <1>2, <1>3, ReeFsAssumption DEF Shape, HasFile, MayHaveFile, Locked, Listing, Unnamed
<1>5. cl'[c].fh # Nil <=> cl[c].fh # Nil
  BY <1>1, <1>2, <1>3 DEF Shape, HasFile, MayHaveFile, Locked
<1>6. cl'[c].pc \notin Running /\ cl[c].pc \notin Running
  BY <1>2, <1>3 DEF Running
<1> QED BY <1>2, <1>3, <1>4, <1>5, <1>6, QuietCount

(* The new object is offered to others: the references still add up.        *)
LEMMA CreateFinalCount ==
  ASSUME CountInv, NEW c \in Clients, CreateFinal(c)
  PROVE  CountInv'
<1>1. StoreType /\ Shape(c)
  BY DEF CountInv, ShapeInv
<1>2. /\ Others(c) /\ cl'[c].pc = "ready" /\ cl'[c].name = cl[c].name /\ cl'[c].fh = cl[c].fh
      /\ cl'[c].lists = cl[c].lists /\ cl'[c].to = cl[c].to
  BY <1>1, CreateFinalEffect DEF CreateFinal
<1>3. cl[c].pc = "created" /\ UNCHANGED <<dir, files, dirh, refcount, owner>>
  BY DEF CreateFinal
<1>4. Shape(c)'
  BY <1>1, <1>2, <1>3, ReeFsAssumption DEF Shape, HasFile, MayHaveFile, Locked, Listing, Unnamed
<1> QED BY <1>2, <1>3, <1>4, QuietCount DEF Running

(* An enumeration takes a reference: the references still add up.           *)
LEMMA EnumGetCount ==
  ASSUME CountInv, NEW c \in Clients, EnumGet(c)
  PROVE  CountInv'
<1>1. StoreType /\ Shape(c)
  BY DEF CountInv, ShapeInv
<1>2. /\ Others(c) /\ cl'[c].pc = "looking" /\ cl'[c].name = cl[c].name /\ cl'[c].fh = cl[c].fh
      /\ cl'[c].lists = cl[c].lists /\ cl'[c].to = cl[c].to
  <2>1. PICK b : b = (pobj[cl[c].name].reserved > 0) /\ cl' = [cl EXCEPT ![c].pc = "looking", ![c].spare = b]
    BY Zenon DEF EnumGet
  <2>2. b \in BOOLEAN
    BY <2>1
  <2> QED BY <1>1, <2>1, <2>2, EnumGetEffect
<1>3. cl[c].pc = "listed" /\ UNCHANGED <<dir, files, dirh, refcount, owner>>
  BY DEF EnumGet
<1>4. Shape(c)'
  BY <1>1, <1>2, <1>3, ReeFsAssumption DEF Shape, HasFile, MayHaveFile, Locked, Listing, Unnamed
<1> QED BY <1>2, <1>3, <1>4, QuietCount DEF Running

(* The table takes over the new name: the references still add up.          *)
LEMMA PobjRenameCount ==
  ASSUME CountInv, NEW c \in Clients, PobjRename(c)
  PROVE  CountInv'
<1>1. StoreType /\ Shape(c)
  BY DEF CountInv, ShapeInv
<1>2. /\ Others(c) /\ cl'[c].pc = "ready" /\ cl'[c].name # Nil /\ cl'[c].fh = cl[c].fh
      /\ cl'[c].lists = cl[c].lists /\ cl'[c].to = Nil
  <2>1. \/ cl' = [cl EXCEPT ![c].pc = "ready", ![c].name = cl[c].to, ![c].to = Nil]
        \/ cl' = [cl EXCEPT ![c].pc = "ready", ![c].to = Nil, ![c].failed = TRUE]
    BY DEF PobjRename
  <2>2. cl[c].name # Nil /\ cl[c].to # Nil
    BY <1>1 DEF PobjRename, Shape, Unnamed
  <2> QED BY <1>1, <2>1, <2>2, PobjRenameEffect, StaleNameEffect
<1>3. cl[c].pc = "moved" /\ UNCHANGED <<dir, files, dirh, refcount, owner>>
  BY DEF PobjRename
<1>4. Shape(c)'
  BY <1>1, <1>2, <1>3, ReeFsAssumption DEF Shape, HasFile, MayHaveFile, Locked, Listing, Unnamed
<1> QED BY <1>2, <1>3, <1>4, QuietCount DEF Running

(* The entries of a directory, and the directory with one entry changed. *)
LEMMA EntryTypes ==
  ASSUME NEW e \in Entries, NEW i \in Used(e)
  PROVE  /\ i \in Idx /\ i # -1 /\ e[i] \in Entry
         /\ e[i].name \in Names /\ e[i].file \in FileNumbers /\ e[i].hash \in Roots
BY ReeFsAssumption, FS_CardinalityType DEF Entries, Used, Entry, Idx

(* Replacing one entry of the directory in memory.                          *)
LEMMA DirhUpdate ==
  ASSUME NEW d \in Dirh, NEW i \in Idx, NEW r \in Entry \cup {Nil}
  PROVE  /\ [d EXCEPT !.ents[i] = r] \in Dirh
         /\ [d EXCEPT !.ents[i] = r].ents = [d.ents EXCEPT ![i] = r]
         /\ [d EXCEPT !.ents[i] = r].bits = d.bits
         /\ [d.ents EXCEPT ![i] = r] \in Entries
<1>1. d.ents \in Entries
  BY DEF Dirh
<1>2. [d.ents EXCEPT ![i] = r] \in Entries
  BY <1>1 DEF Entries
<1> QED BY <1>1, <1>2 DEF Dirh

(* A file is opened, or found missing and the directory closed: the references still add up. *)
LEMMA FsOpenCount ==
  ASSUME CountInv, NEW c \in Clients, FsOpen(c)
  PROVE  CountInv'
<1>1. StoreType /\ Shape(c) /\ cl[c].pc \in {"opening", "looking"} /\ owner = Nil /\ refcount \in Nat
  BY DEF CountInv, ShapeInv, FsOpen, StoreType
<1>2. cl[c].fh = Nil /\ cl[c].pc \notin Running /\ UNCHANGED <<dir, files, owner>>
  BY <1>1 DEF Shape, HasFile, MayHaveFile, Locked, Running, FsOpen
<1> DEFINE d == GetDirh
           i == Find(d.ents, cl[c].name)
           h == [file |-> d.ents[i].file, idx |-> i, base |-> d.ents[i].hash]
<1>3. d \in Dirh /\ d # Nil /\ d.ents \in Entries
  BY <1>1, GetDirhType
<1>4. CASE /\ i # -1
           /\ dirh' = d
           /\ refcount' = refcount + 1
           /\ cl' = [cl EXCEPT ![c].pc = IF @ = "opening" THEN "ready" ELSE "looked", ![c].fh = h]
  <2>1. i \in Used(d.ents)
    BY <1>3, <1>4, FindFinds
  <2>2. i \in Idx /\ i # -1 /\ d.ents[i].file \in FileNumbers /\ d.ents[i].hash \in Roots
    BY <1>3, <2>1, EntryTypes
  <2>3. h \in Handle
    BY <2>2 DEF Handle
  <2>4. PICK p \in Places : /\ p = (IF cl[c].pc = "opening" THEN "ready" ELSE "looked")
                            /\ cl' = [cl EXCEPT ![c].pc = p, ![c].fh = h]
    BY <1>1, <1>4, ClientTypes DEF Places, StoreType, Client
  <2>5. PICK g \in Handle : g = h
    BY <2>3
  <2>6. /\ Others(c) /\ cl'[c].pc = p /\ cl'[c].name = cl[c].name /\ cl'[c].fh = g
        /\ cl'[c].lists = cl[c].lists /\ cl'[c].to = cl[c].to
    BY <1>1, <2>4, <2>5, FileEffect
  <2>7. g.idx # -1 /\ g # Nil
    BY <2>2, <2>5, ReeFsAssumption
  <2>8. Shape(c)'
    BY <1>1, <1>2, <2>4, <2>6, <2>7 DEF Shape, HasFile, MayHaveFile, Locked, Listing, Unnamed
  <2>9. StoreType'
    BY <1>1, <1>2, <1>3, <1>4, <2>6 DEF StoreType, Others
  <2>10. cl'[c].fh # Nil /\ cl'[c].pc \notin Running
    BY <2>4, <2>6, <2>7 DEF Running
  <2>11. refcount' > 0 /\ dirh' # Nil /\ refcount' = refcount + 1 /\ owner' = owner
    BY <1>1, <1>2, <1>3, <1>4
  <2> QED BY <1>1, <1>2, <2>6, <2>8, <2>9, <2>10, <2>11, CountStep
<1>5. CASE /\ PutDirh(d, refcount + 1, TRUE)
           /\ \/ cl' = [cl EXCEPT ![c] = Done(c)]
              \/ cl[c].pc = "opening" /\ cl' = [cl EXCEPT ![c] = Corrupt(c, Nil)]
  <2>1. /\ Others(c) /\ cl'[c].pc \in {"releasing", "corrupt"} /\ cl'[c].name = cl[c].name
        /\ cl'[c].fh = Nil /\ cl'[c].to = Nil
        /\ cl'[c].lists = cl[c].lists
        /\ cl'[c].pc = "corrupt" => cl[c].pc = "opening"
    <3>1. CASE cl' = [cl EXCEPT ![c] = Done(c)]
      BY <1>1, <3>1, DoneEffect
    <3>2. CASE cl[c].pc = "opening" /\ cl' = [cl EXCEPT ![c] = Corrupt(c, Nil)]
      <4>1. ~cl[c].lists
        BY <1>1, <3>2 DEF Shape, Listing
      <4> QED BY <1>1, <3>2, <4>1, CorruptEffect, ClientTypes
    <3> QED BY <1>5, <3>1, <3>2
  <2>2. refcount' = refcount /\ dirh' = Nil
    BY <1>1, <1>5, GetPut
  <2>3. Shape(c)'
    BY <1>1, <1>2, <2>1, ReeFsAssumption DEF Shape, HasFile, MayHaveFile, Locked, Listing, Unnamed
  <2>4. cl'[c].pc \notin Running
    BY <2>1 DEF Running
  <2> QED BY <1>1, <1>2, <2>1, <2>2, <2>3, <2>4, PassCount
<1> QED BY <1>4, <1>5 DEF FsOpen

(* An open or a creation is given up: the references still add up.          *)
LEMMA GivesUpCount ==
  ASSUME CountInv, NEW c \in Clients, GivesUp(c)
  PROVE  CountInv'
<1>1. StoreType /\ Shape(c) /\ cl[c].pc \in {"opening", "creating"}
  BY DEF CountInv, ShapeInv, GivesUp
<1>2. cl[c].fh = Nil /\ cl[c].pc \notin Running /\ UNCHANGED <<dir, files, dirh, refcount, owner>>
  BY <1>1 DEF Shape, MayHaveFile, HasFile, Running, GivesUp
<1>3. /\ Others(c) /\ cl'[c].pc = "releasing" /\ cl'[c].name = cl[c].name /\ cl'[c].fh = Nil
      /\ cl'[c].lists = cl[c].lists /\ cl'[c].to = Nil
  BY <1>1, DoneEffect DEF GivesUp
<1>4. Shape(c)'
  BY <1>1, <1>2, <1>3 DEF Shape, HasFile, MayHaveFile, Locked, Listing, Unnamed
<1> QED BY <1>2, <1>3, <1>4, QuietCount DEF Running

(* A read fails: the references still add up.                               *)
LEMMA ReadFailsCount ==
  ASSUME CountInv, NEW c \in Clients, ReadFails(c)
  PROVE  CountInv'
<1>1. /\ StoreType /\ Shape(c) /\ cl[c].pc = "ready"
      /\ UNCHANGED <<dir, files, dirh, refcount, owner>>
  BY DEF CountInv, ShapeInv, ReadFails
<1>2. /\ Others(c) /\ cl'[c].pc = "ready" /\ cl'[c].name = cl[c].name /\ cl'[c].fh = cl[c].fh
      /\ cl'[c].lists = cl[c].lists /\ cl'[c].to = cl[c].to
  BY <1>1, CloseTreeEffect DEF ReadFails
<1>3. Shape(c)'
  BY <1>1, <1>2 DEF Shape
<1> QED BY <1>1, <1>2, <1>3, QuietCount DEF Running

(* A tree is found closed: the references still add up.                     *)
LEMMA FindsClosedCount ==
  ASSUME CountInv, NEW c \in Clients, FindsClosed(c)
  PROVE  CountInv'
<1>1. StoreType /\ Shape(c) /\ cl[c].pc = "ready" /\ owner = Nil /\ UNCHANGED <<dir, files, owner>>
  BY DEF CountInv, ShapeInv, FindsClosed
<1>2. /\ refcount' = refcount /\ dirh' \in Dirh \cup {Nil}
      /\ dirh' # Nil => refcount' > 0
  <2>1. CASE UNCHANGED <<dirh, refcount>>
    BY <2>1 DEF CountInv, StoreType, RefsInv
  <2>2. CASE PutDirh(GetDirh, refcount + 1, TRUE)
    BY <1>1, <2>2, GetPut
  <2> QED BY <2>1, <2>2 DEF FindsClosed
<1>3. cl[c].fh \in Handle \cup {Nil}
  BY <1>1, ClientTypes
<1>4. /\ Others(c) /\ cl'[c].pc = "corrupt" /\ cl'[c].name = cl[c].name /\ cl'[c].fh = cl[c].fh
      /\ cl'[c].lists = FALSE /\ cl'[c].to = Nil
  BY <1>1, <1>3, CorruptEffect DEF FindsClosed
<1>5. Shape(c)' /\ cl'[c].lists = cl[c].lists
  <2>1. ~cl[c].lists /\ cl[c].lists \in BOOLEAN
    BY <1>1, ClientTypes DEF Shape, Listing
  <2>2. cl'[c].lists = cl[c].lists
    BY <1>4, <2>1
  <2>3. Shape(c)'
    BY <1>1, <1>4, ReeFsAssumption DEF Shape, HasFile, MayHaveFile, Locked, Listing, Unnamed
  <2> QED BY <2>2, <2>3
<1>6. cl'[c].pc \notin Running /\ cl[c].pc \notin Running
  BY <1>1, <1>4 DEF Running
<1> QED BY <1>1, <1>2, <1>4, <1>5, <1>6, PassCount

(* A file is closed: the references still add up.                           *)
LEMMA FsCloseCount ==
  ASSUME CountInv, NEW c \in Clients, FsClose(c)
  PROVE  CountInv'
<1>1. /\ StoreType /\ Shape(c) /\ cl[c].pc \in {"ready", "created", "closing", "looked"}
      /\ owner = Nil /\ refcount \in Nat /\ UNCHANGED <<dir, files, owner>>
  BY DEF CountInv, ShapeInv, FsClose, StoreType
<1>2. cl[c].fh # Nil /\ cl[c].pc \notin Running
  BY <1>1 DEF Shape, HasFile, MayHaveFile, Locked, Running
<1>3. refcount > 0
  BY <1>2, Counted
<1>4. /\ Others(c) /\ cl'[c].pc = "releasing" /\ cl'[c].name = cl[c].name /\ cl'[c].fh = Nil
      /\ cl'[c].lists = cl[c].lists /\ cl'[c].to = Nil
  BY <1>1, DoneEffect DEF FsClose
<1>5. /\ refcount' \in Nat /\ refcount' = refcount - 1 /\ dirh' \in Dirh \cup {Nil}
      /\ dirh' # Nil => refcount' > 0
  BY <1>1, <1>3, PutType DEF FsClose, StoreType
<1>6. Shape(c)'
  BY <1>1, <1>2, <1>4 DEF Shape, HasFile, MayHaveFile, Locked, Listing, Unnamed
<1>7. StoreType'
  BY <1>1, <1>4, <1>5 DEF StoreType, Others
<1>8. cl'[c].pc \notin Running
  BY <1>4 DEF Running
<1> QED BY <1>1, <1>2, <1>4, <1>5, <1>6, <1>7, <1>8, CountStep

(* A temporary file is made under the mutex: the references still add up.   *)
LEMMA CreateTmpCount ==
  ASSUME CountInv, NEW c \in Clients, CreateTmp(c)
  PROVE  CountInv'
<1> DEFINE d == GetDirh
           f == GetTmp(d)
           h == [file |-> f, idx |-> -1, base |-> NewRoot(f)]
<1>1. /\ StoreType /\ Shape(c) /\ cl[c].pc = "creating" /\ owner = Nil /\ owner' = c /\ refcount \in Nat
      /\ refcount' = refcount + 1 /\ dir' = dir
      /\ dirh' = [d EXCEPT !.bits = @ \cup {f}] /\ files' = [files EXCEPT ![f] = {}]
      /\ FileNumbers \ d.bits # {} /\ FreshRoots(f) # {}
      /\ cl' = [cl EXCEPT ![c].pc = "tmp", ![c].fh = h]
  BY DEF CountInv, ShapeInv, CreateTmp, StoreType
<1>2. cl[c].fh = Nil /\ cl[c].pc \notin Running
  BY <1>1 DEF Shape, HasFile, MayHaveFile, Locked, Running
<1>3. d \in Dirh /\ d # Nil /\ d.ents \in Entries
  BY <1>1, GetDirhType
<1>4. f \in FileNumbers
  BY <1>1, <1>3, GetTmpFree
<1>5. NewRoot(f) \in Roots
  BY <1>1, <1>4, NewRootType
<1>6. h \in Handle
  BY <1>4, <1>5 DEF Handle
<1>7. PICK g \in Handle : g = h
  BY <1>6
<1>8. /\ Others(c) /\ cl'[c].pc = "tmp" /\ cl'[c].name = cl[c].name /\ cl'[c].fh = g
      /\ cl'[c].lists = cl[c].lists /\ cl'[c].to = cl[c].to
  <2>1. PICK p \in Places : p = "tmp" /\ cl' = [cl EXCEPT ![c].pc = p, ![c].fh = g]
    BY <1>1, <1>7 DEF Places
  <2>2. StoreType
    BY <1>1
  <2> QED BY <2>1, <2>2, FileEffect
<1>9. g # Nil
  BY <1>7, ReeFsAssumption
<1>10. dirh' \in Dirh
  BY <1>1, <1>3, <1>4 DEF Dirh
<1>11. dirh' # Nil
  BY <1>10, ReeFsAssumption
<1>12. Shape(c)'
  BY <1>1, <1>2, <1>8, <1>9 DEF Shape, HasFile, MayHaveFile, Locked, Listing, Unnamed
<1>13. StoreType'
  BY <1>1, <1>4, <1>8, <1>10 DEF StoreType, Others
<1>14. cl'[c].pc \notin Running
  BY <1>8 DEF Running
<1>15. owner = Nil /\ owner' = c /\ refcount \in Nat /\ refcount' = refcount + 1
  BY <1>1
<1> QED BY <1>15, <1>2, <1>8, <1>9, <1>11, <1>12, <1>13, <1>14, CountStep

(* The holder of the mutex has the directory open. *)
LEMMA LockedDirh ==
  ASSUME CountInv, NEW c \in Clients, cl[c].pc \in Locked
  PROVE  /\ owner = c /\ owner # Nil /\ dirh \in Dirh /\ dirh # Nil /\ dirh.ents \in Entries
         /\ cl[c].pc \notin {"removing", "removed"} => cl[c].fh \in Handle /\ cl[c].fh # Nil
BY ReeFsAssumption, ClientTypes DEF CountInv, ShapeInv, Shape, RefsInv, StoreType, Dirh, HasFile, Locked

(* SetName with what it found at i, putting the new file at j in the place of file f. *)
SetNameAt(c, i, j, f) ==
  /\ i = -1 \/ (cl[c].overwrite /\ i = Find(dirh.ents, cl[c].name) /\ i \in Used(dirh.ents))
  /\ i # -1 => j = i
  /\ i = -1 => IF Find(dirh.ents, cl[c].name) # -1 THEN j = Find(dirh.ents, cl[c].name)
               ELSE j \notin Used(dirh.ents)
  /\ i = -1 => f = Nil
  /\ i # -1 => f = dirh.ents[i].file
  /\ dirh' = [dirh EXCEPT !.ents[j] = EntryOf(c)]
  /\ cl' = [cl EXCEPT ![c].pc = "naming", ![c].fh.idx = j, ![c].old = f]

(* SetName puts the new file at one index, found or free.                   *)
LEMMA SetNameExpand ==
  ASSUME CountInv, NEW c \in Clients, SetName(c)
  PROVE  /\ dir' = dir /\ refcount' = refcount /\ owner' = owner /\ pobj' = pobj
         /\ files' = [files EXCEPT ![cl[c].fh.file] = @ \cup {cl[c].fh.base}]
         /\ \E i \in Lookup(dirh.ents, cl[c].name), j \in Idx, f \in FileNumbers \cup {Nil} :
              SetNameAt(c, i, j, f)
<1>1. cl[c].pc \in Locked /\ dirh.ents \in Entries
  BY LockedDirh DEF SetName, Locked
<1>2. PICK n : n = cl[c].name
  OBVIOUS
<1>3. PICK e \in Entries : e = dirh.ents
  BY <1>1
<1>4. PICK i, j :
        /\ i \in Lookup(e, n)
        /\ i = -1 \/ cl[c].overwrite
        /\ j = IF i # -1 THEN i ELSE IF Find(e, n) # -1 THEN Find(e, n) ELSE FindEmptyIdx(e)
        /\ Used(e) # Idx \/ Find(e, n) # -1
        /\ dirh' = [dirh EXCEPT !.ents[j] = EntryOf(c)]
        /\ cl' = [cl EXCEPT ![c].pc = "naming", ![c].fh.idx = j,
                            ![c].old = IF i = -1 THEN Nil ELSE e[i].file]
  BY <1>2, <1>3 DEF SetName, EntryOf
<1>5. PICK f : f = IF i = -1 THEN Nil ELSE e[i].file
  OBVIOUS
<1>6. i = -1 \/ i = Find(e, n)
  BY <1>4 DEF Lookup
<1>7. Find(e, n) # -1 => Find(e, n) \in Used(e) /\ Find(e, n) \in Idx
  BY FindFinds DEF Used
<1>8. i = -1 /\ Find(e, n) = -1 => j \in Idx /\ j \notin Used(e)
  BY <1>4, EmptyIdx
<1>9. f \in FileNumbers \cup {Nil}
  BY <1>5, <1>6, <1>7, EntryTypes
<1>10. j \in Idx
  BY <1>4, <1>6, <1>7, <1>8
<1>11. SetNameAt(c, i, j, f)
  <2>1. cl' = [cl EXCEPT ![c].pc = "naming", ![c].fh.idx = j, ![c].old = f]
    BY <1>4, <1>5
  <2>2. /\ i = -1 \/ (cl[c].overwrite /\ i = Find(e, n) /\ i \in Used(e))
        /\ i # -1 => j = i
        /\ i = -1 => IF Find(e, n) # -1 THEN j = Find(e, n) ELSE j \notin Used(e)
        /\ i = -1 => f = Nil
        /\ i # -1 => f = e[i].file
    <3>1. /\ i = -1 \/ cl[c].overwrite
          /\ j = IF i # -1 THEN i ELSE IF Find(e, n) # -1 THEN Find(e, n) ELSE FindEmptyIdx(e)
      BY <1>4
    <3>2. i = -1 => IF Find(e, n) # -1 THEN j = Find(e, n) ELSE j \notin Used(e)
      BY <3>1, <1>8
    <3>3. i = -1 \/ (cl[c].overwrite /\ i = Find(e, n) /\ i \in Used(e))
      BY <3>1, <1>6, <1>7
    <3>4. /\ i # -1 => j = i
          /\ i = -1 => f = Nil
          /\ i # -1 => f = e[i].file
      BY <3>1, <1>5
    <3> QED BY <3>2, <3>3, <3>4
  <2> QED BY <1>2, <1>3, <1>4, <2>1, <2>2 DEF SetNameAt
<1>12. /\ UNCHANGED <<dir, refcount, owner, pobj>>
       /\ files' = [files EXCEPT ![cl[c].fh.file] = @ \cup {cl[c].fh.base}]
  BY DEF SetName
<1> QED BY <1>2, <1>3, <1>4, <1>9, <1>10, <1>11, <1>12

(* SetName keeps the count. *)
LEMMA SetNameCount ==
  ASSUME CountInv, NEW c \in Clients, SetName(c)
  PROVE  CountInv'
<1>1. /\ StoreType /\ Shape(c) /\ cl[c].pc = "tmp" /\ cl[c].pc \in Locked /\ cl[c].pc \notin Running
      /\ refcount \in Nat
  BY DEF CountInv, ShapeInv, SetName, StoreType, Locked, Running
<1>2. /\ owner = c /\ owner # Nil /\ dirh \in Dirh /\ dirh # Nil
      /\ cl[c].fh # Nil /\ cl[c].fh.file \in FileNumbers /\ cl[c].fh.base \in Roots
      /\ cl[c].name \in Names
  BY <1>1, LockedDirh, ClientTypes DEF Shape, Unnamed
<1>3a. PICK i \in Lookup(dirh.ents, cl[c].name), j \in Idx, f \in FileNumbers \cup {Nil} :
         SetNameAt(c, i, j, f)
  BY SetNameExpand
<1>3. /\ dirh' = [dirh EXCEPT !.ents[j] = EntryOf(c)]
      /\ cl' = [cl EXCEPT ![c].pc = "naming", ![c].fh.idx = j, ![c].old = f]
  BY <1>3a DEF SetNameAt
<1>4. /\ dir' = dir /\ refcount' = refcount /\ owner' = owner
      /\ files' = [files EXCEPT ![cl[c].fh.file] = @ \cup {cl[c].fh.base}]
  BY SetNameExpand
<1>5. /\ Others(c) /\ cl'[c].pc = "naming" /\ cl'[c].name = cl[c].name
      /\ cl'[c].fh = [cl[c].fh EXCEPT !.idx = j]
      /\ cl'[c].lists = cl[c].lists /\ cl'[c].to = cl[c].to
  BY <1>1, <1>2, <1>3, SetNameEffect
<1>6. EntryOf(c) \in Entry
  BY <1>2 DEF EntryOf, Entry
<1>7a. dirh' \in Dirh
  BY <1>2, <1>3, <1>6, DirhUpdate
<1>7. dirh' \in Dirh /\ dirh' # Nil
  BY <1>7a, ReeFsAssumption
<1>8. [cl[c].fh EXCEPT !.idx = j] \in Handle /\ [cl[c].fh EXCEPT !.idx = j].idx = j /\ j # -1
  BY <1>1, <1>2, ClientTypes, ReeFsAssumption, FS_CardinalityType DEF Handle, Idx
<1>9. cl'[c].fh # Nil /\ cl'[c].fh.idx # -1
  BY <1>5, <1>8, ReeFsAssumption
<1>10. Shape(c)'
  BY <1>1, <1>2, <1>4, <1>5, <1>9 DEF Shape, HasFile, MayHaveFile, Locked, Listing, Unnamed
<1>11. files' \in [FileNumbers -> SUBSET Roots]
  BY <1>1, <1>2, <1>4 DEF StoreType
<1>12. StoreType'
  BY <1>1, <1>4, <1>5, <1>7, <1>11 DEF StoreType, Others
<1>13. cl'[c].pc \notin Running
  BY <1>5 DEF Running
<1>14. refcount > 0
  BY <1>2, Counted
<1> QED BY <1>1, <1>2, <1>4, <1>5, <1>7, <1>9, <1>10, <1>12, <1>13, <1>14, CountStep

(* A creation is undone: the references still add up.                       *)
LEMMA CreateFailsCount ==
  ASSUME CountInv, NEW c \in Clients, CreateFails(c)
  PROVE  CountInv'
<1>1. /\ StoreType /\ Shape(c) /\ cl[c].pc \in {"tmp", "naming"} /\ refcount \in Nat
      /\ dir' = dir /\ owner' = Nil /\ files' = [files EXCEPT ![cl[c].fh.file] = {}]
  BY DEF CountInv, ShapeInv, CreateFails, StoreType
<1>2. cl[c].pc \in Locked /\ cl[c].pc \notin Running
  BY <1>1 DEF Locked, Running
<1>3. owner = c /\ cl[c].fh # Nil /\ dirh \in Dirh
  BY <1>1, <1>2, LockedDirh
<1>4. refcount > 0
  BY <1>3, Counted
<1>5. /\ Others(c) /\ cl'[c].pc \in {"releasing", "corrupt"} /\ cl'[c].name = cl[c].name
      /\ cl'[c].fh = Nil /\ cl'[c].lists = cl[c].lists /\ ~cl'[c].lists /\ cl'[c].to = Nil
  <2>1. ~cl[c].lists
    BY <1>1 DEF Shape, Listing
  <2>2. CASE cl' = [cl EXCEPT ![c] = Done(c)]
    BY <1>1, <2>1, <2>2, DoneEffect
  <2>3. CASE cl' = [cl EXCEPT ![c] = Corrupt(c, Nil)]
    BY <1>1, <2>1, <2>3, CorruptEffect, ClientTypes
  <2> QED BY <2>2, <2>3 DEF CreateFails
<1>6. /\ refcount' \in Nat /\ refcount' = refcount - 1 /\ dirh' \in Dirh \cup {Nil}
      /\ dirh' # Nil => refcount' > 0
  BY <1>1, <1>3, <1>4, PutType DEF CreateFails
<1>7. Shape(c)'
  BY <1>1, <1>5, ReeFsAssumption DEF Shape, HasFile, MayHaveFile, Locked, Listing, Unnamed
<1>8. files' \in [FileNumbers -> SUBSET Roots]
  BY <1>1 DEF StoreType
<1>9. StoreType'
  BY <1>1, <1>5, <1>6, <1>8 DEF StoreType, Others
<1>10. cl'[c].pc \notin Running
  BY <1>5 DEF Running
<1> QED BY <1>1, <1>2, <1>3, <1>5, <1>6, <1>7, <1>9, <1>10, CountStep

(* A replaced file is removed: the references still add up.                 *)
LEMMA RemoveOldCount ==
  ASSUME CountInv, NEW c \in Clients, RemoveOld(c)
  PROVE  CountInv'
<1>1. /\ StoreType /\ Shape(c) /\ cl[c].pc = "named" /\ refcount \in Nat
      /\ dir' = dir /\ owner' = Nil /\ dirh' = dirh /\ refcount' = refcount
      /\ files' = IF cl[c].old = Nil THEN files ELSE [files EXCEPT ![cl[c].old] = {}]
  BY DEF CountInv, ShapeInv, RemoveOld, StoreType
<1>2. cl[c].pc \in Locked /\ cl[c].pc \notin Running
  BY <1>1 DEF Locked, Running
<1>3. owner = c /\ cl[c].fh # Nil /\ dirh \in Dirh
  BY <1>1, <1>2, LockedDirh
<1>4. refcount > 0
  BY <1>3, Counted
<1>5. /\ Others(c) /\ cl'[c].pc = "created" /\ cl'[c].name = cl[c].name /\ cl'[c].fh = cl[c].fh
      /\ cl'[c].lists = cl[c].lists /\ cl'[c].to = cl[c].to
  BY <1>1, GotoEffect DEF RemoveOld, Places
<1>6. Shape(c)'
  BY <1>1, <1>5, ReeFsAssumption DEF Shape, HasFile, MayHaveFile, Locked, Listing, Unnamed
<1>7. files' \in [FileNumbers -> SUBSET Roots]
  BY <1>1 DEF StoreType
<1>8. StoreType'
  BY <1>1, <1>5, <1>7 DEF StoreType, Others
<1>9. cl'[c].pc \notin Running
  BY <1>5 DEF Running
<1> QED BY <1>1, <1>2, <1>3, <1>4, <1>5, <1>6, <1>8, <1>9, CountStep

(* A write takes the mutex and overwrites free blocks: the references still add up. *)
LEMMA WriteBlocksCount ==
  ASSUME CountInv, NEW c \in Clients, WriteBlocks(c)
  PROVE  CountInv'
<1>1. /\ StoreType /\ Shape(c) /\ cl[c].pc = "ready" /\ refcount \in Nat
      /\ dir' = dir /\ owner = Nil /\ owner' = c /\ dirh' = GetDirh /\ refcount' = refcount + 1
      /\ files' = [files EXCEPT ![cl[c].fh.file] = @ \cap {cl[c].fh.base}]
  BY DEF CountInv, ShapeInv, WriteBlocks, StoreType
<1>2. cl[c].fh # Nil /\ cl[c].pc \notin Running
  BY <1>1 DEF Shape, HasFile, MayHaveFile, Running
<1>3. cl[c].fh.file \in FileNumbers /\ cl[c].fh.base \in Roots
  BY <1>1, <1>2, ClientTypes
<1>4. dirh' \in Dirh /\ dirh' # Nil
  BY <1>1, GetDirhType
<1>5. /\ Others(c) /\ cl'[c].pc = "writing" /\ cl'[c].name = cl[c].name /\ cl'[c].fh = cl[c].fh
      /\ cl'[c].lists = cl[c].lists /\ cl'[c].to = cl[c].to
  BY <1>1, GotoEffect DEF WriteBlocks, Places
<1>6. Shape(c)'
  BY <1>1, <1>2, <1>5, ReeFsAssumption DEF Shape, HasFile, MayHaveFile, Locked, Listing, Unnamed
<1>7. files' \in [FileNumbers -> SUBSET Roots]
  BY <1>1, <1>3 DEF StoreType
<1>8. StoreType'
  BY <1>1, <1>4, <1>5, <1>7 DEF StoreType, Others
<1>9. cl'[c].pc \in Running
  BY <1>5 DEF Running
<1> QED BY <1>1, <1>2, <1>4, <1>5, <1>6, <1>8, <1>9, CountStep

(* tee_fs_dirfile_update_hash changes one hash. *)
LEMMA UpdateHashType ==
  ASSUME NEW e \in Entries, NEW i \in Idx, NEW r \in Roots
  PROVE  UpdateHash(e, i, r) \in Entries
<1>1. e[i] # Nil => [e[i] EXCEPT !.hash = r] \in Entry
  BY DEF Entries, Entry
<1> QED BY <1>1 DEF UpdateHash, Entries

(* A write has a new root: the references still add up.                     *)
LEMMA WriteSyncCount ==
  ASSUME CountInv, NEW c \in Clients, WriteSync(c)
  PROVE  CountInv'
<1>1. PICK r : r = NewRoot(cl[c].fh.file)
  OBVIOUS
<1>2. /\ StoreType /\ Shape(c) /\ cl[c].pc = "writing" /\ refcount \in Nat
      /\ dir' = dir /\ owner' = owner /\ refcount' = refcount
      /\ FreshRoots(cl[c].fh.file) # {}
      /\ files' = [files EXCEPT ![cl[c].fh.file] = @ \cup {r}]
      /\ dirh' = [dirh EXCEPT !.ents = UpdateHash(@, cl[c].fh.idx, r)]
      /\ cl' = [cl EXCEPT ![c].pc = "updating", ![c].fh.base = r]
  BY <1>1 DEF CountInv, ShapeInv, WriteSync, StoreType
<1>3. cl[c].pc \in Locked /\ cl[c].pc \in Running
  BY <1>2 DEF Locked, Running
<1>4. owner = c /\ cl[c].fh # Nil /\ cl[c].fh \in Handle /\ dirh \in Dirh /\ dirh.ents \in Entries
  BY <1>2, <1>3, LockedDirh
<1>5. cl[c].fh.file \in FileNumbers /\ cl[c].fh.idx \in Idx
  BY <1>2, <1>4, ClientTypes DEF Shape, HasFile, MayHaveFile, Locked
<1>6. r \in Roots
  BY <1>1, <1>2, <1>5, NewRootType
<1>7. PICK e \in Entries : e = UpdateHash(dirh.ents, cl[c].fh.idx, r)
  BY <1>4, <1>5, <1>6, UpdateHashType
<1>8. dirh' \in Dirh
  BY <1>2, <1>4, <1>7 DEF Dirh
<1>9. dirh' # Nil
  BY <1>8, ReeFsAssumption
<1>10. /\ Others(c) /\ cl'[c].pc = "updating" /\ cl'[c].name = cl[c].name
       /\ cl'[c].fh = [cl[c].fh EXCEPT !.base = r]
       /\ cl'[c].lists = cl[c].lists /\ cl'[c].to = cl[c].to
  BY <1>2, <1>4, <1>6, WriteSyncEffect
<1>11. cl'[c].fh # Nil /\ cl'[c].fh.idx = cl[c].fh.idx
  BY <1>4, <1>6, <1>10, ReeFsAssumption DEF Handle
<1>12. Shape(c)'
  BY <1>2, <1>4, <1>10, <1>11, ReeFsAssumption DEF Shape, HasFile, MayHaveFile, Locked, Listing, Unnamed
<1>13. files' \in [FileNumbers -> SUBSET Roots]
  BY <1>2, <1>5, <1>6 DEF StoreType
<1>14. StoreType'
  BY <1>2, <1>8, <1>10, <1>13 DEF StoreType, Others
<1>15. cl'[c].pc \in Running
  BY <1>10 DEF Running
<1>16. refcount > 0
  BY <1>4, Counted
<1>17. Others(c) /\ cl'[c].lists = cl[c].lists /\ owner' = owner /\ refcount \in Nat /\ refcount' = refcount
  BY <1>2, <1>10
<1>18. cl[c].fh # Nil /\ cl'[c].fh # Nil
  BY <1>4, <1>11
<1> QED BY <1>3, <1>9, <1>12, <1>14, <1>15, <1>16, <1>17, <1>18, CountStep

(* What FsRename does when it succeeds. *)
LEMMA FsRenameExpand ==
  ASSUME StoreType, NEW c \in Clients, FsRename(c), cl[c].to \in Names
  PROVE  \E d \in Dirh :
           /\ d = GetDirh
           /\ \E i \in Used(d.ents) :
                /\ d.ents[i].name = cl[c].name
                /\ dirh' \in Dirh /\ dirh' # Nil
                /\ dirh'.ents = [d.ents EXCEPT ![i] = [d.ents[i] EXCEPT !.name = cl[c].to]]
                /\ dirh'.bits = d.bits
<1>1. PICK d \in Dirh : d = GetDirh
  BY GetDirhType
<1>2. PICK i : i = Find(d.ents, cl[c].name)
  OBVIOUS
<1>3. d.ents \in Entries
  BY DEF Dirh
<1>4. i # -1 /\ dirh' = [d EXCEPT !.ents[i].name = cl[c].to]
  BY <1>1, <1>2 DEF FsRename
<1>5. i \in Used(d.ents) /\ d.ents[i].name = cl[c].name
  BY <1>2, <1>3, <1>4, FindFinds
<1>6. i \in Idx /\ d.ents[i] \in Entry
  BY <1>3, <1>5, EntryTypes
<1>7. PICK r \in Entry : r = [d.ents[i] EXCEPT !.name = cl[c].to]
  BY <1>6 DEF Entry
<1>8. dirh' = [d EXCEPT !.ents[i] = r]
  BY <1>3, <1>4, <1>6, <1>7 DEF Dirh, Entries
<1>9. /\ dirh' \in Dirh
      /\ dirh'.ents = [d.ents EXCEPT ![i] = r]
      /\ dirh'.bits = d.bits
  BY <1>6, <1>8, DirhUpdate
<1>10. dirh' # Nil
  BY <1>9, ReeFsAssumption
<1> QED BY <1>1, <1>5, <1>7, <1>9, <1>10

(* An entry gets its new name in memory: the references still add up.       *)
LEMMA FsRenameCount ==
  ASSUME CountInv, NEW c \in Clients, FsRename(c)
  PROVE  CountInv'
<1>1. /\ StoreType /\ Shape(c) /\ cl[c].pc = "renaming" /\ refcount \in Nat
      /\ dir' = dir /\ files' = files /\ owner = Nil /\ owner' = c /\ refcount' = refcount + 1
  BY DEF CountInv, ShapeInv, FsRename, StoreType
<1>2. cl[c].fh # Nil /\ cl[c].pc \notin Running /\ cl[c].to # Nil
  BY <1>1 DEF Shape, HasFile, MayHaveFile, Running
<1>3. cl[c].to \in Names
  BY <1>1, <1>2, ClientTypes
<1>4. dirh' \in Dirh /\ dirh' # Nil
  BY <1>1, <1>3, FsRenameExpand
<1>5. /\ Others(c) /\ cl'[c].pc = "moving" /\ cl'[c].name = cl[c].name /\ cl'[c].fh = cl[c].fh
      /\ cl'[c].lists = cl[c].lists /\ cl'[c].to = cl[c].to
  BY <1>1, GotoEffect DEF FsRename, Places
<1>6. Shape(c)'
  BY <1>1, <1>2, <1>5, ReeFsAssumption DEF Shape, HasFile, MayHaveFile, Locked, Listing, Unnamed
<1>7. StoreType'
  BY <1>1, <1>4, <1>5 DEF StoreType, Others
<1>8. cl'[c].pc \in Running
  BY <1>5 DEF Running
<1> QED BY <1>1, <1>2, <1>4, <1>5, <1>6, <1>7, <1>8, CountStep

(* A rename is refused: the references still add up.                        *)
LEMMA FsRenameFailsCount ==
  ASSUME CountInv, NEW c \in Clients, FsRenameFails(c)
  PROVE  CountInv'
<1>1. /\ StoreType /\ Shape(c) /\ cl[c].pc = "renaming" /\ refcount \in Nat
      /\ dir' = dir /\ files' = files /\ owner = Nil /\ owner' = owner
  BY DEF CountInv, ShapeInv, FsRenameFails, StoreType
<1>2. cl[c].fh # Nil /\ cl[c].pc \notin Running
  BY <1>1 DEF Shape, HasFile, MayHaveFile, Running
<1>3. refcount' = refcount /\ dirh' = Nil
  BY <1>1 DEF FsRenameFails, PutDirh
<1>4. /\ Others(c) /\ cl'[c].pc = "ready" /\ cl'[c].name = cl[c].name /\ cl'[c].fh = cl[c].fh
      /\ cl'[c].lists = cl[c].lists /\ cl'[c].to = Nil
  BY <1>1, UnreserveEffect DEF FsRenameFails
<1>5. Shape(c)'
  BY <1>1, <1>2, <1>4, ReeFsAssumption DEF Shape, HasFile, MayHaveFile, Locked, Listing, Unnamed
<1>6. StoreType'
  BY <1>1, <1>3, <1>4 DEF StoreType, Others
<1>7. cl'[c].pc \notin Running
  BY <1>4 DEF Running
<1> QED BY <1>1, <1>2, <1>3, <1>4, <1>5, <1>6, <1>7, CountStep

(* What FsRemove does when it succeeds. *)
LEMMA FsRemoveExpand ==
  ASSUME StoreType, NEW c \in Clients, FsRemove(c)
  PROVE  \E d \in Dirh :
           /\ d = GetDirh
           /\ \E i \in Used(d.ents) :
                /\ d.ents[i].name = cl[c].name
                /\ dirh' \in Dirh /\ dirh' # Nil
                /\ dirh'.ents = [d.ents EXCEPT ![i] = Nil]
                /\ dirh'.bits = d.bits \ {d.ents[i].file}
                /\ d.ents[i].file \in FileNumbers
                /\ cl' = [cl EXCEPT ![c].pc = "removing", ![c].old = d.ents[i].file]
<1>1. PICK d \in Dirh : d = GetDirh
  BY GetDirhType
<1>2. PICK i : i = Find(d.ents, cl[c].name)
  OBVIOUS
<1>3. d.ents \in Entries
  BY DEF Dirh
<1>4. /\ i # -1
      /\ dirh' = [ents |-> [d.ents EXCEPT ![i] = Nil], bits |-> d.bits \ {d.ents[i].file}]
      /\ cl' = [cl EXCEPT ![c].pc = "removing", ![c].old = d.ents[i].file]
  BY <1>1, <1>2 DEF FsRemove
<1>5. i \in Used(d.ents) /\ d.ents[i].name = cl[c].name
  BY <1>2, <1>3, <1>4, FindFinds
<1>6. i \in Idx /\ d.ents[i] \in Entry /\ d.ents[i].file \in FileNumbers
  BY <1>3, <1>5, EntryTypes
<1>7. [d.ents EXCEPT ![i] = Nil] \in Entries
  BY <1>6, DirhUpdate
<1>8. dirh' \in Dirh
  BY <1>4, <1>7 DEF Dirh
<1>9. dirh' # Nil /\ dirh'.ents = [d.ents EXCEPT ![i] = Nil] /\ dirh'.bits = d.bits \ {d.ents[i].file}
  BY <1>4, <1>8, ReeFsAssumption
<1> QED BY <1>1, <1>4, <1>5, <1>6, <1>8, <1>9

(* An entry is freed in memory: the references still add up.                *)
LEMMA FsRemoveCount ==
  ASSUME CountInv, NEW c \in Clients, FsRemove(c)
  PROVE  CountInv'
<1>1. /\ StoreType /\ Shape(c) /\ cl[c].pc \in {"ready", "corrupt"} /\ refcount \in Nat
      /\ dir' = dir /\ files' = files /\ owner = Nil /\ owner' = c /\ refcount' = refcount + 1
  BY DEF CountInv, ShapeInv, FsRemove, Removes, StoreType
<1>2. cl[c].pc \notin Running
  BY <1>1 DEF Running
<1>3. PICK f \in FileNumbers :
        dirh' \in Dirh /\ dirh' # Nil /\ cl' = [cl EXCEPT ![c].pc = "removing", ![c].old = f]
  BY <1>1, FsRemoveExpand
<1>4. /\ Others(c) /\ cl'[c].pc = "removing" /\ cl'[c].name = cl[c].name /\ cl'[c].fh = cl[c].fh
      /\ cl'[c].lists = cl[c].lists /\ cl'[c].to = cl[c].to
  BY <1>1, <1>3, FsRemoveEffect
<1>5. Shape(c)'
  BY <1>1, <1>2, <1>4, ReeFsAssumption DEF Shape, HasFile, MayHaveFile, Locked, Listing, Unnamed
<1>6. StoreType'
  BY <1>1, <1>3, <1>4 DEF StoreType, Others
<1>7. cl'[c].pc \in Running
  BY <1>4 DEF Running
<1>8. dirh' # Nil
  BY <1>3
<1> QED BY <1>1, <1>2, <1>4, <1>5, <1>6, <1>7, <1>8, CountStep

(* There is nothing to remove: the references still add up.                 *)
LEMMA FsRemoveFailsCount ==
  ASSUME CountInv, NEW c \in Clients, FsRemoveFails(c)
  PROVE  CountInv'
<1>1. /\ StoreType /\ Shape(c) /\ cl[c].pc \in {"ready", "corrupt"} /\ owner = Nil
      /\ UNCHANGED <<dir, files, owner>>
  BY DEF CountInv, ShapeInv, FsRemoveFails, Removes
<1>2. /\ refcount' = refcount /\ dirh' \in Dirh \cup {Nil}
      /\ dirh' # Nil => refcount' > 0
  BY <1>1, GetPut DEF FsRemoveFails
<1>3. /\ Others(c)
      /\ cl[c].fh = Nil => cl'[c].pc = "releasing"
      /\ cl[c].fh # Nil => cl'[c].pc = "closing"
      /\ cl'[c].name = cl[c].name /\ cl'[c].fh = cl[c].fh /\ cl'[c].lists = FALSE /\ cl'[c].to = Nil
  BY <1>1, ClosingEffect DEF FsRemoveFails
<1>4. Shape(c)' /\ cl'[c].lists = cl[c].lists
  BY <1>1, <1>3, ClientTypes, ReeFsAssumption DEF Shape, HasFile, MayHaveFile, Locked, Listing, Unnamed
<1>5. cl'[c].pc \notin Running /\ cl[c].pc \notin Running
  BY <1>1, <1>3 DEF Running
<1> QED BY <1>1, <1>2, <1>3, <1>4, <1>5, PassCount

(* The file of a freed entry is removed: the references still add up.       *)
LEMMA RemoveFileCount ==
  ASSUME CountInv, NEW c \in Clients, RemoveFile(c)
  PROVE  CountInv'
<1>1. /\ StoreType /\ Shape(c) /\ cl[c].pc = "removed" /\ refcount \in Nat
      /\ dir' = dir /\ owner' = Nil /\ files' = [files EXCEPT ![cl[c].old] = {}]
  BY DEF CountInv, ShapeInv, RemoveFile, StoreType
<1>2. cl[c].pc \in Locked /\ cl[c].pc \in Running
  BY <1>1 DEF Locked, Running
<1>3. owner = c /\ dirh \in Dirh
  BY <1>2, LockedDirh
<1>4. refcount > 0
  BY <1>2, Counted
<1>5. /\ Others(c)
      /\ cl[c].fh = Nil => cl'[c].pc = "releasing"
      /\ cl[c].fh # Nil => cl'[c].pc = "closing"
      /\ cl'[c].name = cl[c].name /\ cl'[c].fh = cl[c].fh
      /\ cl'[c].lists = FALSE /\ cl'[c].to = Nil
  BY <1>1, ClosingEffect DEF RemoveFile
<1>6. /\ refcount' \in Nat /\ refcount' = refcount - 1 /\ dirh' \in Dirh \cup {Nil}
      /\ dirh' # Nil => refcount' > 0
  BY <1>1, <1>3, <1>4, PutType DEF RemoveFile
<1>7. Shape(c)' /\ ~cl[c].lists
  BY <1>1, <1>3, <1>5, ReeFsAssumption DEF Shape, HasFile, MayHaveFile, Locked, Listing, Unnamed
<1>8. files' \in [FileNumbers -> SUBSET Roots]
  BY <1>1 DEF StoreType
<1>9. StoreType'
  BY <1>1, <1>5, <1>6, <1>8 DEF StoreType, Others
<1>10. cl'[c].pc \notin Running
  BY <1>5 DEF Running
<1> QED BY <1>1, <1>2, <1>3, <1>5, <1>6, <1>7, <1>9, <1>10, CountStep

(* What Commit does to the directory and to its client. *)
LEMMA CommitExpand ==
  ASSUME StoreType, NEW c \in Clients, Commit(c)
  PROVE  /\ cl[c].pc \in {"naming", "removing", "updating", "moving"}
         /\ dir' = dirh.ents /\ pobj' = pobj
         /\ files' = [f \in FileNumbers |-> files[f] \cap (EntryRoots(dirh.ents) \cup HandleRoots)]
         /\ files' \in [FileNumbers -> SUBSET Roots]
         /\ Others(c)
         /\ cl'[c].pc = (CASE cl[c].pc = "naming"   -> "named"
                           [] cl[c].pc = "removing" -> "removed"
                           [] cl[c].pc = "updating" -> "ready"
                           [] OTHER                 -> "moved")
         /\ cl'[c].name = cl[c].name /\ cl'[c].to = cl[c].to
         /\ cl'[c].flags = cl[c].flags /\ cl'[c].overwrite = cl[c].overwrite /\ cl'[c].fh = cl[c].fh
         /\ cl'[c].old = cl[c].old /\ cl'[c].failed = cl[c].failed /\ cl'[c].lists = cl[c].lists
         /\ cl'[c].spare = cl[c].spare
         /\ cl[c].pc \in {"naming", "removing"} => UNCHANGED <<dirh, refcount, owner>>
         /\ cl[c].pc \in {"updating", "moving"} => PutDirh(dirh, refcount, FALSE) /\ owner' = Nil
<1>1. PICK p \in Places : /\ p = (CASE cl[c].pc = "naming"   -> "named"
                                    [] cl[c].pc = "removing" -> "removed"
                                    [] cl[c].pc = "updating" -> "ready"
                                    [] OTHER                 -> "moved")
                          /\ Goto(c, p)
  BY DEF Commit, Places
<1>2. files' = [f \in FileNumbers |-> files[f] \cap (EntryRoots(dirh.ents) \cup HandleRoots)]
  BY DEF Commit
<1>3. files' \in [FileNumbers -> SUBSET Roots]
  BY <1>2 DEF StoreType
<1>4. /\ cl[c].pc \in {"naming", "removing", "updating", "moving"}
      /\ dir' = dirh.ents /\ pobj' = pobj
      /\ cl[c].pc \in {"naming", "removing"} => UNCHANGED <<dirh, refcount, owner>>
      /\ cl[c].pc \in {"updating", "moving"} => PutDirh(dirh, refcount, FALSE) /\ owner' = Nil
  BY DEF Commit
<1>5. /\ Others(c)
      /\ cl'[c].pc = p /\ cl'[c].name = cl[c].name /\ cl'[c].to = cl[c].to
      /\ cl'[c].flags = cl[c].flags /\ cl'[c].overwrite = cl[c].overwrite /\ cl'[c].fh = cl[c].fh
      /\ cl'[c].old = cl[c].old /\ cl'[c].failed = cl[c].failed /\ cl'[c].lists = cl[c].lists
      /\ cl'[c].spare = cl[c].spare
  BY <1>1, GotoEffect
<1> QED BY <1>1, <1>2, <1>3, <1>4, <1>5

(* The directory is committed: the references still add up.                 *)
LEMMA CommitCount ==
  ASSUME CountInv, NEW c \in Clients, Commit(c)
  PROVE  CountInv'
<1>1. StoreType /\ Shape(c) /\ refcount \in Nat
  BY DEF CountInv, ShapeInv, StoreType
<1>2. /\ cl[c].pc \in {"naming", "removing", "updating", "moving"} /\ dir' = dirh.ents
      /\ files' \in [FileNumbers -> SUBSET Roots]
      /\ Others(c) /\ cl'[c].name = cl[c].name /\ cl'[c].to = cl[c].to
      /\ cl'[c].fh = cl[c].fh /\ cl'[c].lists = cl[c].lists
      /\ cl[c].pc = "naming" => cl'[c].pc = "named"
      /\ cl[c].pc = "removing" => cl'[c].pc = "removed"
      /\ cl[c].pc = "updating" => cl'[c].pc = "ready"
      /\ cl[c].pc = "moving" => cl'[c].pc = "moved"
  BY <1>1, CommitExpand
<1>3. cl[c].pc \in Locked
  BY <1>2 DEF Locked
<1>4. owner = c /\ owner # Nil /\ dirh \in Dirh /\ dirh # Nil /\ dirh.ents \in Entries
  BY <1>3, LockedDirh
<1>5. refcount > 0
  <2>1. cl[c].fh # Nil \/ cl[c].pc \in Running
    BY <1>2, <1>3, LockedDirh DEF Running
  <2> QED BY <2>1, Counted
<1>6. CASE cl[c].pc \in {"naming", "removing"}
  <2>1. UNCHANGED <<dirh, refcount, owner>>
    BY <1>1, <1>6, CommitExpand
  <2>2. Shape(c)'
    BY <1>1, <1>2, <1>4, <1>6, <2>1 DEF Shape, HasFile, MayHaveFile, Locked, Listing, Unnamed
  <2>3. StoreType'
    BY <1>1, <1>2, <1>4, <2>1 DEF StoreType, Others
  <2>4. cl'[c].pc \in Running <=> cl[c].pc \in Running
    BY <1>2, <1>6 DEF Running
  <2> QED BY <1>1, <1>2, <1>4, <1>5, <2>1, <2>2, <2>3, <2>4, CountStep
<1>7. CASE cl[c].pc \in {"updating", "moving"}
  <2>1. PutDirh(dirh, refcount, FALSE) /\ owner' = Nil
    BY <1>1, <1>7, CommitExpand
  <2>2. /\ refcount' \in Nat /\ refcount' = refcount - 1 /\ dirh' \in Dirh \cup {Nil}
        /\ dirh' # Nil => refcount' > 0
    BY <1>1, <1>4, <1>5, <2>1, PutType
  <2>3. Shape(c)'
    BY <1>1, <1>2, <1>4, <1>7, <2>1, ReeFsAssumption DEF Shape, HasFile, MayHaveFile, Locked, Listing, Unnamed
  <2>4. StoreType'
    BY <1>1, <1>2, <1>4, <2>1, <2>2 DEF StoreType, Others
  <2>5. cl'[c].pc \notin Running /\ cl[c].pc \in Running
    BY <1>2, <1>7 DEF Running
  <2> QED BY <1>1, <1>2, <1>4, <2>1, <2>2, <2>3, <2>4, <2>5, CountStep
<1> QED BY <1>2, <1>6, <1>7

(* An operation fails under the mutex: the references still add up.         *)
LEMMA FailsCount ==
  ASSUME CountInv, NEW c \in Clients, Fails(c)
  PROVE  CountInv'
<1>1. /\ StoreType /\ Shape(c) /\ refcount \in Nat /\ owner' = Nil /\ dir' = dir /\ files' = files
      /\ cl[c].pc \in {"writing", "updating", "moving", "removing"}
  BY DEF CountInv, ShapeInv, StoreType, Fails
<1>2. cl[c].pc \in Locked /\ cl[c].pc \in Running
  BY <1>1 DEF Locked, Running
<1>3. owner = c /\ dirh \in Dirh
  BY <1>2, LockedDirh
<1>4. refcount > 0
  BY <1>2, Counted
<1>5. ~cl[c].lists
  BY <1>1 DEF Shape, Listing
<1>6. /\ Others(c) /\ cl'[c].name = cl[c].name /\ cl'[c].fh = cl[c].fh /\ ~cl'[c].lists /\ cl'[c].to = Nil
      /\ cl'[c].pc \in {"ready", "closing", "releasing", "corrupt"}
      /\ cl'[c].pc \in {"ready", "closing"} => cl[c].fh # Nil
      /\ cl'[c].pc = "releasing" => cl[c].fh = Nil
  <2>1. CASE /\ cl[c].pc \in {"writing", "updating"}
             /\ \/ Goto(c, "ready")
                \/ cl' = [cl EXCEPT ![c].pc = "ready", ![c].failed = TRUE]
                \/ cl' = [cl EXCEPT ![c].pc = "ready", ![c].failed = TRUE, ![c].closed = TRUE]
    <3>1. cl[c].fh # Nil /\ cl[c].to = Nil
      BY <1>1, <2>1 DEF Shape, HasFile
    <3>2. "ready" \in Places
      BY DEF Places
    <3> QED BY <1>1, <1>5, <2>1, <3>1, <3>2, GotoEffect, WriteFailsEffect, CloseTreeEffect
  <2>2. CASE cl[c].pc = "moving" /\ cl' = [cl EXCEPT ![c].pc = "ready", ![c].to = Nil]
    <3>1. cl[c].fh # Nil
      BY <1>1, <2>2 DEF Shape, HasFile
    <3> QED BY <1>1, <1>5, <2>2, <3>1, UnreserveEffect
  <2>3. CASE cl' = [cl EXCEPT ![c] = Closing(c)]
    BY <1>1, <2>3, ClosingEffect
  <2>4. CASE cl' = [cl EXCEPT ![c] = Corrupt(c, cl[c].fh)]
    BY <1>1, <2>4, CorruptEffect, ClientTypes
  <2> QED BY <2>1, <2>2, <2>3, <2>4 DEF Fails
<1>7. /\ refcount' \in Nat /\ refcount' = refcount - 1 /\ dirh' \in Dirh \cup {Nil}
      /\ dirh' # Nil => refcount' > 0
  BY <1>1, <1>3, <1>4, PutType DEF Fails
<1>8. Shape(c)'
  BY <1>1, <1>3, <1>6, ReeFsAssumption DEF Shape, HasFile, MayHaveFile, Locked, Listing, Unnamed
<1>9. StoreType'
  BY <1>1, <1>6, <1>7 DEF StoreType, Others
<1>10. cl'[c].pc \notin Running
  BY <1>6 DEF Running
<1> QED BY <1>1, <1>2, <1>3, <1>5, <1>6, <1>7, <1>8, <1>9, <1>10, CountStep

(* An enumeration starts: the references still add up.                      *)
LEMMA StartEnumCount ==
  ASSUME CountInv, NEW c \in Clients, StartEnum(c)
  PROVE  CountInv'
<1>1. /\ StoreType /\ Shape(c) /\ cl[c].pc = "idle" /\ refcount \in Nat /\ owner = Nil
      /\ UNCHANGED <<dir, files, owner>>
  BY DEF CountInv, ShapeInv, StartEnum, StoreType
<1>2. cl[c].fh = Nil /\ ~cl[c].lists /\ cl[c].pc \notin Running
  BY <1>1 DEF Shape, HasFile, MayHaveFile, Locked, Listing, Running
<1>3. CASE /\ dirh' = GetDirh /\ refcount' = refcount + 1
           /\ cl' = [cl EXCEPT ![c].pc = "listing", ![c].lists = TRUE]
  <2>1. dirh' \in Dirh /\ dirh' # Nil
    BY <1>1, <1>3, GetDirhType
  <2>2. /\ Others(c) /\ cl'[c].pc = "listing" /\ cl'[c].name = cl[c].name /\ cl'[c].fh = cl[c].fh
        /\ cl'[c].lists /\ cl'[c].to = cl[c].to
    BY <1>1, <1>3, StartEnumEffect
  <2>3. Shape(c)'
    BY <1>1, <1>2, <2>2 DEF Shape, HasFile, MayHaveFile, Locked, Listing, Unnamed
  <2>4. StoreType'
    BY <1>1, <1>3, <2>1, <2>2 DEF StoreType, Others
  <2>5. cl'[c].pc \notin Running
    BY <2>2 DEF Running
  <2>6. refcount' = refcount + 1 /\ refcount' > 0
    BY <1>1, <1>3
  <2> QED BY <1>1, <1>2, <2>1, <2>2, <2>3, <2>4, <2>5, <2>6, CountStep
<1>4. CASE PutDirh(GetDirh, refcount + 1, FALSE) /\ UNCHANGED cl
  <2>1. /\ refcount' = refcount /\ dirh' \in Dirh \cup {Nil}
        /\ dirh' # Nil => refcount' > 0
    BY <1>1, <1>4, GetPut
  <2>2. Others(c) /\ Shape(c)'
    BY <1>1, <1>4 DEF Others, StoreType, Shape
  <2> QED BY <1>1, <1>2, <1>4, <2>1, <2>2, PassCount
<1> QED BY <1>3, <1>4 DEF StartEnum

(* An enumeration reads an entry: the references still add up.              *)
LEMMA ReadDirCount ==
  ASSUME CountInv, NEW c \in Clients, ReadDir(c)
  PROVE  CountInv'
<1>1. /\ StoreType /\ Shape(c) /\ cl[c].pc = "listing" /\ refcount \in Nat /\ owner = Nil
      /\ UNCHANGED <<dir, files, owner>>
  BY DEF CountInv, ShapeInv, ReadDir, StoreType
<1>2. cl[c].lists /\ cl[c].pc \notin Running
  BY <1>1 DEF Shape, Listing, Running
<1>3. refcount > 0
  BY <1>2, Counted
<1>4. GetDirh \in Dirh /\ GetDirh # Nil /\ GetDirh.ents \in Entries
  BY <1>1, GetDirhType
<1>5. /\ refcount' = refcount /\ dirh' \in Dirh \cup {Nil}
      /\ dirh' # Nil => refcount' > 0
  BY <1>1, GetPut DEF ReadDir
<1>6. /\ Others(c) /\ cl'[c].pc \in {"listing", "listed"} /\ cl'[c].fh = cl[c].fh
      /\ cl'[c].pc = "listing" => cl'[c].name = cl[c].name
      /\ cl'[c].pc = "listed" => cl'[c].name \in Names
      /\ cl'[c].lists = cl[c].lists /\ cl'[c].to = cl[c].to
  <2>1. CASE UNCHANGED cl
    BY <1>1, <2>1 DEF Others, StoreType
  <2>2. CASE \E i \in Used(GetDirh.ents) :
               cl' = [cl EXCEPT ![c].pc = "listed", ![c].name = GetDirh.ents[i].name]
    <3>1. PICK m \in Names : cl' = [cl EXCEPT ![c].pc = "listed", ![c].name = m]
      BY <1>4, <2>2, EntryTypes
    <3> QED BY <1>1, <3>1, ReadDirEffect
  <2> QED BY <2>1, <2>2 DEF ReadDir
<1>7. Shape(c)'
  BY <1>1, <1>2, <1>6, ReeFsAssumption DEF Shape, HasFile, MayHaveFile, Locked, Listing, Unnamed
<1>8. cl'[c].pc \notin Running
  BY <1>6 DEF Running
<1> QED BY <1>1, <1>2, <1>5, <1>6, <1>7, <1>8, PassCount

(* An enumeration ends: the references still add up.                        *)
LEMMA FreeEnumCount ==
  ASSUME CountInv, NEW c \in Clients, FreeEnum(c)
  PROVE  CountInv'
<1>1. /\ StoreType /\ Shape(c) /\ cl[c].pc = "listing" /\ refcount \in Nat /\ owner = Nil
      /\ UNCHANGED <<dir, files, owner>>
  BY DEF CountInv, ShapeInv, FreeEnum, StoreType
<1>2. cl[c].lists /\ cl[c].pc \notin Running /\ cl[c].fh = Nil
  BY <1>1 DEF Shape, HasFile, MayHaveFile, Locked, Listing, Running
<1>3. refcount > 0
  BY <1>2, Counted
<1>4. /\ Others(c) /\ cl'[c].pc = "idle" /\ cl'[c].name = Nil /\ cl'[c].fh = Nil
      /\ ~cl'[c].lists /\ cl'[c].to = Nil
  BY <1>1, IdleEffect DEF FreeEnum
<1>5. /\ refcount' \in Nat /\ refcount' = refcount - 1 /\ dirh' \in Dirh \cup {Nil}
      /\ dirh' # Nil => refcount' > 0
  BY <1>1, <1>3, PutType DEF FreeEnum, StoreType
<1>6. Shape(c)'
  BY <1>1, <1>4, ReeFsAssumption DEF Shape, HasFile, MayHaveFile, Locked, Listing, Unnamed
<1>7. StoreType'
  BY <1>1, <1>4, <1>5 DEF StoreType, Others
<1>8. cl'[c].pc \notin Running
  BY <1>4 DEF Running
<1> QED BY <1>1, <1>2, <1>4, <1>5, <1>6, <1>7, <1>8, CountStep

(* Nobody is counted where every client is idle. *)
LEMMA RestCount ==
  ASSUME dir \in Entries, files \in [FileNumbers -> SUBSET Roots], dirh = Nil, refcount = 0,
         owner = Nil, cl = [c \in Clients |-> Idle]
  PROVE  CountInv
<1>1. Idle \in Client
  BY DEF Idle, Client, Places
<1>2. StoreType
  BY <1>1 DEF StoreType
<1>3. ShapeInv
  BY ReeFsAssumption DEF ShapeInv, Shape, Idle, HasFile, MayHaveFile, Locked, Listing, Unnamed
<1>4. FileRefs = {} /\ ListRefs = {} /\ RunRefs = {}
  BY DEF FileRefs, ListRefs, RunRefs, Idle, Running
<1>5. Cardinality({}) = 0
  BY FS_EmptySet
<1>6. RefsInv
  BY <1>4, <1>5 DEF RefsInv
<1> QED BY <1>2, <1>3, <1>6 DEF CountInv

(* Nobody refers to the directory at the start.                             *)
LEMMA InitCount ==
  Init => CountInv
<1> SUFFICES ASSUME Init PROVE CountInv
  OBVIOUS
<1>1. dir \in Entries /\ files \in [FileNumbers -> SUBSET Roots]
  BY DEF Init, Entries
<1> QED BY <1>1, RestCount DEF Init

(* Power loss takes all references with it.                                 *)
LEMMA PowerLossCount ==
  ASSUME CountInv, PowerLoss
  PROVE  CountInv'
<1>1. dir' \in Entries /\ files' \in [FileNumbers -> SUBSET Roots]
  BY DEF PowerLoss, CountInv, StoreType
<1>2. dirh' = Nil /\ refcount' = 0 /\ owner' = Nil /\ cl' = [c \in Clients |-> Idle]
  BY DEF PowerLoss
<1>3. Idle \in Client
  BY DEF Idle, Client, Places
<1>4. StoreType'
  BY <1>1, <1>2, <1>3 DEF StoreType
<1>5. ShapeInv'
  BY <1>2, ReeFsAssumption DEF ShapeInv, Shape, Idle, HasFile, MayHaveFile, Locked, Listing, Unnamed
<1>6. FileRefs' = {} /\ ListRefs' = {} /\ RunRefs' = {}
  BY <1>2 DEF FileRefs, ListRefs, RunRefs, Idle, Running
<1>7. Cardinality({}) = 0
  BY FS_EmptySet
<1>8. RefsInv'
  BY <1>2, <1>6, <1>7 DEF RefsInv
<1> QED BY <1>4, <1>5, <1>8 DEF CountInv

(* Every step keeps the count.                                              *)
LEMMA NextCount ==
  CountInv /\ [Next]_vars => CountInv'
<1> SUFFICES ASSUME CountInv, [Next]_vars PROVE CountInv'
  OBVIOUS
<1>1. ASSUME NEW c \in Clients, NEW n \in Names, NEW flags \in OpenFlags[c], Open(c, n, flags)
      PROVE  CountInv'
  BY <1>1, OpenCount, ReeFsAssumption
<1>2. ASSUME NEW c \in Clients, NEW n \in Names, NEW flags \in CreateFlags, NEW overwrite \in BOOLEAN,
             Create(c, n, flags, overwrite)
      PROVE  CountInv'
  BY <1>2, CreateCount, ReeFsAssumption
<1>3. ASSUME NEW c \in Clients, NEW n \in Names, Rename(c, n)
      PROVE  CountInv'
  BY <1>3, RenameCount
<1>4. ASSUME NEW c \in Clients, FsOpen(c) \/ GivesUp(c) \/ FsClose(c) \/ Release(c) \/ CreateTmp(c) \/ SetName(c)
      PROVE  CountInv'
  BY <1>4, FsOpenCount, GivesUpCount, FsCloseCount, ReleaseCount, CreateTmpCount, SetNameCount
<1>5. ASSUME NEW c \in Clients,
             \/ CreateFails(c) \/ RemoveOld(c) \/ CreateFinal(c) \/ ReadFails(c) \/ FindsClosed(c)
             \/ WriteBlocks(c) \/ WriteSync(c)
      PROVE  CountInv'
  BY <1>5, CreateFailsCount, RemoveOldCount, CreateFinalCount, ReadFailsCount, FindsClosedCount,
     WriteBlocksCount, WriteSyncCount
<1>6. ASSUME NEW c \in Clients,
             \/ FsRename(c) \/ FsRenameFails(c) \/ PobjRename(c)
             \/ FsRemove(c) \/ FsRemoveFails(c) \/ RemoveFile(c)
      PROVE  CountInv'
  BY <1>6, FsRenameCount, FsRenameFailsCount, PobjRenameCount, FsRemoveCount,
     FsRemoveFailsCount, RemoveFileCount
<1>7. ASSUME NEW c \in Clients,
             \/ Commit(c) \/ Fails(c) \/ StartEnum(c) \/ ReadDir(c) \/ EnumGet(c) \/ FreeEnum(c)
      PROVE  CountInv'
  BY <1>7, CommitCount, FailsCount, StartEnumCount, ReadDirCount, EnumGetCount, FreeEnumCount
<1>8. CASE PowerLoss
  BY <1>8, PowerLossCount
<1>9. CASE UNCHANGED vars
  BY <1>9 DEF vars, CountInv, StoreType, ShapeInv, Shape, RefsInv, FileRefs, ListRefs, RunRefs
<1> QED BY <1>1, <1>2, <1>3, <1>4, <1>5, <1>6, <1>7, <1>8, <1>9 DEF Next

(* ree_fs_dirh_refcount is exact whatever fails and however the operations  *)
(* interleave, for every choice of the constants: a failing operation that  *)
(* closes the directory under its other users does not lose their           *)
(* references.                                                              *)
THEOREM DirhRefsCorrect == Spec => []DirhRefsExact
<1>1. CountInv => DirhRefsExact
  BY DEF CountInv, RefsInv, DirhRefsExact, FileRefs, ListRefs, RunRefs, Running
<1> QED BY InitCount, NextCount, <1>1, PTL DEF Spec
----------------------------------------------------------------------------
(* The table of persistent objects. *)

(* tee_pobj_check_access refuses a second user where either is exclusive. *)
LEMMA AccessShared ==
  ASSUME NEW o, NEW n, CheckAccess(o, n)
  PROVE  ~Exclusive(o) /\ ~Exclusive(n)
BY DEF CheckAccess, Exclusive

(* The references of the other clients do not change. *)
LEMMA RefsOthers ==
  ASSUME NEW c \in Clients, Others(c), NEW n \in Names
  PROVE  /\ ByName(n) \in SUBSET Clients /\ ByTo(n) \in SUBSET Clients /\ Spares(n) \in SUBSET Clients
         /\ ByName(n)' \in SUBSET Clients /\ ByTo(n)' \in SUBSET Clients /\ Spares(n)' \in SUBSET Clients
         /\ ByName(n) \ {c} = ByName(n)' \ {c}
         /\ ByTo(n) \ {c} = ByTo(n)' \ {c}
         /\ Spares(n) \ {c} = Spares(n)' \ {c}
         /\ c \in ByName(n) <=> cl[c].name = n /\ cl[c].pc \notin Unheld /\ ~cl[c].spare
         /\ c \in ByName(n)' <=> cl'[c].name = n /\ cl'[c].pc \notin Unheld /\ ~cl'[c].spare
         /\ c \in Spares(n) <=> cl[c].name = n /\ cl[c].pc \notin Unheld /\ cl[c].spare
         /\ c \in Spares(n)' <=> cl'[c].name = n /\ cl'[c].pc \notin Unheld /\ cl'[c].spare
         /\ c \in ByTo(n) <=> cl[c].to = n
         /\ c \in ByTo(n)' <=> cl'[c].to = n
BY DEF Others, ByName, ByTo, Spares, Refers

(* How many references there are after a step of client c. *)
LEMMA RefsCount ==
  ASSUME NEW c \in Clients, Others(c), NEW n \in Names
  PROVE  /\ Cardinality(ByName(n)) \in Nat /\ Cardinality(ByTo(n)) \in Nat /\ Cardinality(Spares(n)) \in Nat
         /\ Cardinality(ByName(n)') = Cardinality(ByName(n)) + (IF c \in ByName(n)' THEN 1 ELSE 0)
                                                              - (IF c \in ByName(n) THEN 1 ELSE 0)
         /\ Cardinality(ByTo(n)') = Cardinality(ByTo(n)) + (IF c \in ByTo(n)' THEN 1 ELSE 0)
                                                          - (IF c \in ByTo(n) THEN 1 ELSE 0)
         /\ Cardinality(Spares(n)') = Cardinality(Spares(n)) + (IF c \in Spares(n)' THEN 1 ELSE 0)
                                                              - (IF c \in Spares(n) THEN 1 ELSE 0)
<1>1. IsFiniteSet(Clients)
  BY ReeFsAssumption
<1>2. /\ Cardinality(ByName(n)) \in Nat
      /\ Cardinality(ByName(n)') = Cardinality(ByName(n)) + (IF c \in ByName(n)' THEN 1 ELSE 0)
                                                           - (IF c \in ByName(n) THEN 1 ELSE 0)
  BY <1>1, RefsOthers, CountDelta
<1>3. /\ Cardinality(ByTo(n)) \in Nat
      /\ Cardinality(ByTo(n)') = Cardinality(ByTo(n)) + (IF c \in ByTo(n)' THEN 1 ELSE 0)
                                                       - (IF c \in ByTo(n) THEN 1 ELSE 0)
  BY <1>1, RefsOthers, CountDelta
<1>4. /\ Cardinality(Spares(n)) \in Nat
      /\ Cardinality(Spares(n)') = Cardinality(Spares(n)) + (IF c \in Spares(n)' THEN 1 ELSE 0)
                                                           - (IF c \in Spares(n) THEN 1 ELSE 0)
  BY <1>1, RefsOthers, CountDelta
<1> QED BY <1>2, <1>3, <1>4

(* The table counts the references client c gains and loses. *)
LEMMA RefcntStep ==
  ASSUME PobjInv, NEW c \in Clients, Others(c), NEW n \in Names,
         pobj'[n].refcnt = pobj[n].refcnt + (IF c \in ByName(n)' THEN 1 ELSE 0)
                                          - (IF c \in ByName(n) THEN 1 ELSE 0),
         pobj'[n].reserved = pobj[n].reserved
           + (IF c \in ByTo(n)' THEN 1 ELSE 0) - (IF c \in ByTo(n) THEN 1 ELSE 0)
           + (IF c \in Spares(n)' THEN 1 ELSE 0) - (IF c \in Spares(n) THEN 1 ELSE 0)
  PROVE  RefcntOK(n)'
<1>1. RefcntOK(n)
  BY DEF PobjInv
<1>2. pobj'[n].refcnt = Cardinality(ByName(n)')
  BY <1>1, RefsCount DEF RefcntOK
<1>3. pobj'[n].reserved = Cardinality(ByTo(n)') + Cardinality(Spares(n)')
  BY <1>1, RefsCount DEF RefcntOK
<1> QED BY <1>2, <1>3 DEF RefcntOK

(* Who has object n to itself after a step of client c. *)
LEMMA OwnedStep ==
  ASSUME PobjInv, NEW c \in Clients, Others(c), NEW n \in Names,
         c \in ByName(n)' /\ ~cl'[c].lists /\ Exclusive(cl'[c].flags) =>
           Exclusive(pobj'[n].flags) /\ \A d \in ByName(n) : d # c => cl[d].lists,
         \A d \in ByName(n) : d # c /\ ~cl[d].lists /\ Exclusive(cl[d].flags) =>
           /\ c \in ByName(n)' => cl'[c].lists
           /\ pobj'[n].flags = pobj[n].flags
  PROVE  OwnedOK(n)'
<1>1. OwnedOK(n)
  BY DEF PobjInv
<1>2. \A d \in ByName(n)' : d # c => d \in ByName(n) /\ cl'[d] = cl[d]
  BY RefsOthers DEF Others
<1> SUFFICES ASSUME NEW d \in ByName(n)', ~cl'[d].lists, Exclusive(cl'[d].flags)
             PROVE  /\ Exclusive(pobj'[n].flags)
                    /\ \A e \in ByName(n)' : e # d => cl'[e].lists
  BY DEF OwnedOK
<1>3. CASE d = c
  BY <1>2, <1>3
<1>4. CASE d # c
  <2>1. d \in ByName(n) /\ ~cl[d].lists /\ Exclusive(cl[d].flags)
    BY <1>2, <1>4
  <2>2. Exclusive(pobj[n].flags) /\ \A e \in ByName(n) : e # d => cl[e].lists
    BY <1>1, <2>1 DEF OwnedOK
  <2>3. pobj'[n].flags = pobj[n].flags /\ (c \in ByName(n)' => cl'[c].lists)
    BY <1>4, <2>1
  <2> QED BY <1>2, <2>2, <2>3
<1> QED BY <1>3, <1>4

(* Who reserves name n after a step of client c. *)
LEMMA ReservedStep ==
  ASSUME PobjInv, NEW c \in Clients, Others(c), NEW n \in Names,
         c \in ByTo(n)' => /\ c \notin ByName(n)'
                           /\ \A d \in ByName(n) : d = c
                           /\ \A d \in ByTo(n) : d = c,
         c \in ByName(n)' => \A d \in ByTo(n) : d = c
  PROVE  ReservedOK(n)'
<1>1. ReservedOK(n)
  BY DEF PobjInv
<1>2. /\ \A d \in ByName(n)' : d # c => d \in ByName(n)
      /\ \A d \in ByTo(n)' : d # c => d \in ByTo(n)
  BY RefsOthers
<1> QED BY <1>1, <1>2 DEF ReservedOK

(* Only enumerations refer to an object that reserves a name. *)
LEMMA SpareStep ==
  ASSUME PobjInv, NEW c \in Clients, Others(c), cl'[c].spare => cl'[c].lists
  PROVE  SpareInv'
BY DEF PobjInv, SpareInv, Others

(* A name that client c has nothing to do with. *)
LEMMA PobjElsewhere ==
  ASSUME PobjInv, NEW c \in Clients, Others(c), NEW n \in Names, pobj'[n] = pobj[n],
         c \notin ByName(n), c \notin ByName(n)', c \notin Spares(n), c \notin Spares(n)',
         c \notin ByTo(n), c \notin ByTo(n)'
  PROVE  RefcntOK(n)' /\ OwnedOK(n)' /\ ReservedOK(n)'
<1>1. pobj[n].refcnt \in Nat /\ pobj[n].reserved \in Nat
  BY DEF PobjInv, Pobj
<1>2. RefcntOK(n)'
  BY <1>1, RefcntStep
<1>3. OwnedOK(n)'
  BY OwnedStep
<1>4. ReservedOK(n)'
  BY ReservedStep
<1> QED BY <1>2, <1>3, <1>4

(* A step that gives up no exclusive use and takes no reference. *)
LEMMA PobjSame ==
  ASSUME PobjInv, NEW c \in Clients, Others(c), pobj' \in [Names -> Pobj],
         \A n \in Names : /\ pobj'[n].refcnt = pobj[n].refcnt /\ pobj'[n].flags = pobj[n].flags
                          /\ pobj'[n].reserved = pobj[n].reserved,
         cl'[c].to = cl[c].to, cl'[c].spare => cl'[c].lists,
         \A n \in Names : c \in ByName(n)' <=> c \in ByName(n),
         \A n \in Names : c \in Spares(n)' <=> c \in Spares(n),
         cl'[c].pc \notin Unheld /\ ~cl'[c].lists /\ Exclusive(cl'[c].flags) =>
           ~cl[c].lists /\ Exclusive(cl[c].flags),
         cl'[c].pc \notin Unheld /\ cl[c].lists => cl'[c].lists
  PROVE  PobjInv'
<1>1. ASSUME NEW n \in Names PROVE RefcntOK(n)' /\ OwnedOK(n)' /\ ReservedOK(n)'
  <2>1. /\ pobj[n].refcnt \in Nat /\ pobj[n].reserved \in Nat
        /\ pobj'[n].refcnt = pobj[n].refcnt /\ pobj'[n].flags = pobj[n].flags
        /\ pobj'[n].reserved = pobj[n].reserved
    BY <1>1 DEF PobjInv, Pobj
  <2>2. /\ c \in ByName(n)' <=> c \in ByName(n)
        /\ c \in Spares(n)' <=> c \in Spares(n)
        /\ c \in ByTo(n)' <=> c \in ByTo(n)
        /\ c \in ByName(n)' => cl'[c].pc \notin Unheld
    BY <1>1, RefsOthers
  <2>3. OwnedOK(n) /\ ReservedOK(n)
    BY <1>1 DEF PobjInv
  <2>4. RefcntOK(n)'
    BY <1>1, <2>1, <2>2, RefcntStep
  <2>5. OwnedOK(n)'
    BY <1>1, <2>1, <2>2, <2>3, OwnedStep DEF OwnedOK
  <2>6. ReservedOK(n)'
    BY <1>1, <2>2, <2>3, ReservedStep DEF ReservedOK
  <2> QED BY <2>4, <2>5, <2>6
<1>2. SpareInv'
  BY SpareStep
<1> QED BY <1>1, <1>2 DEF PobjInv

(* An object without references is used and reserved by nobody. *)
LEMMA NoRefs ==
  ASSUME PobjInv, NEW n \in Names
  PROVE  /\ pobj[n] \in Pobj /\ pobj[n].refcnt \in Nat /\ pobj[n].reserved \in Nat
         /\ pobj[n].refcnt = 0 => ByName(n) = {}
         /\ pobj[n].refcnt = 1 => \A d, e \in ByName(n) : d = e
         /\ pobj[n].reserved = 0 => ByTo(n) = {} /\ Spares(n) = {}
<1>1. /\ ByName(n) \in SUBSET Clients /\ ByTo(n) \in SUBSET Clients /\ Spares(n) \in SUBSET Clients
      /\ IsFiniteSet(Clients)
  BY ReeFsAssumption DEF ByName, ByTo, Spares
<1>2. Cardinality(ByName(n)) \in Nat /\ Cardinality(ByTo(n)) \in Nat /\ Cardinality(Spares(n)) \in Nat
  BY <1>1, FS_Subset, FS_CardinalityType
<1>3. RefcntOK(n)
  BY DEF PobjInv
<1>4. ByName(n) # {} => Cardinality(ByName(n)) > 0
  BY <1>1, CountPositive
<1>5. ByTo(n) # {} => Cardinality(ByTo(n)) > 0
  BY <1>1, CountPositive
<1>6. Spares(n) # {} => Cardinality(Spares(n)) > 0
  BY <1>1, CountPositive
<1>7. Cardinality(ByName(n)) = 1 => \A d, e \in ByName(n) : d = e
  BY <1>1, CountOne
<1>8. pobj[n] \in Pobj /\ pobj[n].refcnt \in Nat /\ pobj[n].reserved \in Nat
  BY DEF PobjInv, Pobj
<1>9. pobj[n].refcnt = 0 => ByName(n) = {}
  BY <1>2, <1>3, <1>4 DEF RefcntOK
<1>10. pobj[n].reserved = 0 => ByTo(n) = {} /\ Spares(n) = {}
  BY <1>2, <1>3, <1>5, <1>6 DEF RefcntOK
<1>11. pobj[n].refcnt = 1 => \A d, e \in ByName(n) : d = e
  BY <1>3, <1>7 DEF RefcntOK
<1> QED BY <1>8, <1>9, <1>10, <1>11

(* What the table has of the other names. *)
OtherNames(n) == /\ pobj' \in [Names -> Pobj]
                 /\ \A m \in Names : m # n => pobj'[m] = pobj[m]

(* tee_pobj_get, when it succeeds. *)
LEMMA GetExpand ==
  ASSUME PobjInv, NEW n \in Names, NEW f \in SUBSET Flags, NEW u, NEW w, PobjGet(n, f, u, w)
  PROVE  /\ OtherNames(n) /\ pobj[n].reserved = 0
         /\ pobj'[n].refcnt = pobj[n].refcnt + 1 /\ pobj'[n].reserved = pobj[n].reserved
         /\ pobj[n].refcnt = 0 => pobj'[n].flags = f
         /\ pobj[n].refcnt # 0 => pobj'[n].flags = pobj[n].flags /\ CheckAccess(pobj[n].flags, f)
<1>1. /\ pobj \in [Names -> Pobj] /\ pobj[n] \in Pobj /\ pobj[n].refcnt \in Nat
      /\ pobj[n].reserved = 0
  BY NoRefs DEF PobjInv, PobjGet
<1>2. CASE pobj[n].refcnt = 0
  <2>1. PICK r : r = [pobj[n] EXCEPT !.refcnt = 1, !.flags = f, !.creating = (u = "create")]
    OBVIOUS
  <2>2. r \in Pobj /\ r.refcnt = 1 /\ r.flags = f /\ r.reserved = pobj[n].reserved
    BY <1>1, <2>1 DEF Pobj
  <2>3. pobj' = [pobj EXCEPT ![n] = r]
    BY <1>1, <1>2, <2>1 DEF PobjGet, Pobj
  <2> QED BY <1>1, <1>2, <2>2, <2>3 DEF OtherNames
<1>3. CASE pobj[n].refcnt # 0
  <2>1. PICK r : r = [pobj[n] EXCEPT !.refcnt = @ + 1]
    OBVIOUS
  <2>2. r \in Pobj /\ r.refcnt = pobj[n].refcnt + 1 /\ r.flags = pobj[n].flags /\ r.reserved = pobj[n].reserved
    BY <1>1, <2>1 DEF Pobj
  <2>3. pobj' = [pobj EXCEPT ![n] = r] /\ CheckAccess(pobj[n].flags, f)
    BY <1>1, <1>3, <2>1 DEF PobjGet, Pobj
  <2> QED BY <1>1, <1>3, <2>2, <2>3 DEF OtherNames
<1> QED BY <1>2, <1>3

(* One more or one less reference to an object that reserves a name. *)
LEMMA ReservedExpand ==
  ASSUME PobjInv, NEW n \in Names, NEW k \in Nat, pobj' = [pobj EXCEPT ![n].reserved = k]
  PROVE  /\ OtherNames(n) /\ pobj'[n].reserved = k
         /\ pobj'[n].refcnt = pobj[n].refcnt /\ pobj'[n].flags = pobj[n].flags
<1>1. pobj \in [Names -> Pobj] /\ pobj[n] \in Pobj
  BY NoRefs DEF PobjInv
<1>2. PICK r : r = [pobj[n] EXCEPT !.reserved = k]
  OBVIOUS
<1>3. r \in Pobj /\ r.reserved = k /\ r.refcnt = pobj[n].refcnt /\ r.flags = pobj[n].flags
  BY <1>1, <1>2 DEF Pobj
<1>4. pobj' = [pobj EXCEPT ![n] = r]
  BY <1>1, <1>2 DEF Pobj
<1> QED BY <1>1, <1>3, <1>4 DEF OtherNames

(* tee_pobj_release. *)
LEMMA ReleaseExpand ==
  ASSUME PobjInv, NEW n \in Names, pobj[n].refcnt > 0, PobjRelease(n)
  PROVE  /\ OtherNames(n) /\ pobj'[n].reserved = pobj[n].reserved
         /\ pobj'[n].refcnt = pobj[n].refcnt - 1
         /\ pobj[n].refcnt # 1 => pobj'[n].flags = pobj[n].flags
<1>1. pobj \in [Names -> Pobj] /\ pobj[n] \in Pobj /\ pobj[n].refcnt \in Nat /\ pobj[n].reserved \in Nat
  BY NoRefs DEF PobjInv
<1>2. CASE pobj[n].refcnt = 1
  <2>1. PICK r : r = [NoPobj EXCEPT !.reserved = pobj[n].reserved]
    OBVIOUS
  <2>2. r \in Pobj /\ r.refcnt = 0 /\ r.reserved = pobj[n].reserved
    BY <1>1, <2>1 DEF NoPobj, Pobj
  <2>3. pobj' = [pobj EXCEPT ![n] = r]
    BY <1>2, <2>1 DEF PobjRelease
  <2> QED BY <1>1, <1>2, <2>2, <2>3 DEF OtherNames
<1>3. CASE pobj[n].refcnt # 1
  <2>1. PICK r : r = [pobj[n] EXCEPT !.refcnt = @ - 1]
    OBVIOUS
  <2>2. pobj[n].refcnt - 1 \in Nat
    BY <1>1
  <2>3. r \in Pobj /\ r.refcnt = pobj[n].refcnt - 1 /\ r.flags = pobj[n].flags /\ r.reserved = pobj[n].reserved
    BY <1>1, <2>1, <2>2 DEF Pobj
  <2>4. pobj' = [pobj EXCEPT ![n] = r]
    BY <1>1, <1>3, <2>1 DEF PobjRelease, Pobj
  <2> QED BY <1>1, <1>3, <2>3, <2>4 DEF OtherNames
<1> QED BY <1>2, <1>3

(* A client without a reference gets one. *)
LEMMA GetName ==
  ASSUME PobjInv, NEW c \in Clients, Others(c), NEW n \in Names,
         cl[c].pc \in Unheld, cl'[c].pc \notin Unheld, cl'[c].name = n, ~cl'[c].spare,
         cl[c].to = Nil, cl'[c].to = Nil, OtherNames(n), pobj[n].reserved = 0,
         pobj'[n].refcnt = pobj[n].refcnt + 1, pobj'[n].reserved = pobj[n].reserved,
         pobj[n].refcnt # 0 => pobj'[n].flags = pobj[n].flags,
         ~cl'[c].lists =>
           \/ pobj[n].refcnt = 0 /\ pobj'[n].flags = cl'[c].flags
           \/ ~Exclusive(pobj[n].flags) /\ ~Exclusive(cl'[c].flags)
  PROVE  PobjInv'
<1>1. \A m \in Names : /\ c \notin ByName(m) /\ c \notin Spares(m) /\ c \notin Spares(m)'
                       /\ c \notin ByTo(m) /\ c \notin ByTo(m)'
                       /\ c \in ByName(m)' <=> m = n
  BY RefsOthers, ReeFsAssumption
<1>2. pobj[n].refcnt \in Nat /\ ByTo(n) = {} /\ (pobj[n].refcnt = 0 => ByName(n) = {})
  BY NoRefs
<1>3. ASSUME NEW m \in Names PROVE RefcntOK(m)' /\ OwnedOK(m)' /\ ReservedOK(m)'
  <2>1. CASE m # n
    BY <1>1, <1>3, <2>1, PobjElsewhere DEF OtherNames
  <2>2. CASE m = n
    <3>1. RefcntOK(n)'
      BY <1>1, <1>2, RefcntStep
    <3>2. OwnedOK(n)
      BY DEF PobjInv
    <3>3. OwnedOK(n)'
      BY <1>1, <1>2, <3>2, OwnedStep DEF OwnedOK
    <3>4. ReservedOK(n)'
      BY <1>1, <1>2, ReservedStep
    <3> QED BY <2>2, <3>1, <3>3, <3>4
  <2> QED BY <2>1, <2>2
<1>4. SpareInv'
  BY SpareStep
<1> QED BY <1>3, <1>4 DEF PobjInv, OtherNames

(* An enumeration gets a reference to the object that reserves the name. *)
LEMMA GetSpare ==
  ASSUME PobjInv, NEW c \in Clients, Others(c), NEW n \in Names,
         cl[c].pc \in Unheld, cl'[c].pc \notin Unheld, cl'[c].name = n, cl'[c].spare, cl'[c].lists,
         cl[c].to = Nil, cl'[c].to = Nil, OtherNames(n),
         pobj'[n].refcnt = pobj[n].refcnt, pobj'[n].reserved = pobj[n].reserved + 1,
         pobj'[n].flags = pobj[n].flags
  PROVE  PobjInv'
<1>1. \A m \in Names : /\ c \notin ByName(m) /\ c \notin Spares(m) /\ c \notin ByName(m)'
                       /\ c \notin ByTo(m) /\ c \notin ByTo(m)'
                       /\ c \in Spares(m)' <=> m = n
  BY RefsOthers, ReeFsAssumption
<1>2. pobj[n].refcnt \in Nat /\ pobj[n].reserved \in Nat
  BY NoRefs
<1>3. ASSUME NEW m \in Names PROVE RefcntOK(m)' /\ OwnedOK(m)' /\ ReservedOK(m)'
  <2>1. CASE m # n
    BY <1>1, <1>3, <2>1, PobjElsewhere DEF OtherNames
  <2>2. CASE m = n
    <3>1. RefcntOK(n)'
      BY <1>1, <1>2, RefcntStep
    <3>2. OwnedOK(n)'
      BY <1>1, OwnedStep
    <3>3. ReservedOK(n)'
      BY <1>1, ReservedStep
    <3> QED BY <2>2, <3>1, <3>2, <3>3
  <2> QED BY <2>1, <2>2
<1>4. SpareInv'
  BY SpareStep
<1> QED BY <1>3, <1>4 DEF PobjInv, OtherNames

(* A client gives up its reference. *)
LEMMA DropName ==
  ASSUME PobjInv, NEW c \in Clients, Others(c), NEW n \in Names,
         c \in ByName(n), cl'[c].pc \in Unheld, cl[c].to = Nil, cl'[c].to = Nil, ~cl'[c].spare,
         PobjRelease(n)
  PROVE  PobjInv'
<1>1. \A m \in Names : /\ c \notin ByName(m)' /\ c \notin Spares(m) /\ c \notin Spares(m)'
                       /\ c \notin ByTo(m) /\ c \notin ByTo(m)'
                       /\ c \in ByName(m) <=> m = n
  BY RefsOthers, ReeFsAssumption
<1>2. pobj[n].refcnt \in Nat /\ pobj[n].refcnt > 0 /\ pobj[n].reserved \in Nat
  BY NoRefs
<1>3. /\ OtherNames(n) /\ pobj'[n].reserved = pobj[n].reserved
      /\ pobj'[n].refcnt = pobj[n].refcnt - 1
      /\ pobj[n].refcnt # 1 => pobj'[n].flags = pobj[n].flags
  BY <1>2, ReleaseExpand
<1>4. \A d \in ByName(n) : d # c => pobj[n].refcnt # 1
  BY NoRefs
<1>5. ASSUME NEW m \in Names PROVE RefcntOK(m)' /\ OwnedOK(m)' /\ ReservedOK(m)'
  <2>1. CASE m # n
    BY <1>1, <1>3, <1>5, <2>1, PobjElsewhere DEF OtherNames
  <2>2. CASE m = n
    <3>1. RefcntOK(n)'
      BY <1>1, <1>2, <1>3, RefcntStep
    <3>2. OwnedOK(n)'
      BY <1>1, <1>3, <1>4, OwnedStep
    <3>3. ReservedOK(n)'
      BY <1>1, ReservedStep
    <3> QED BY <2>2, <3>1, <3>2, <3>3
  <2> QED BY <2>1, <2>2
<1>6. SpareInv'
  BY SpareStep
<1> QED BY <1>3, <1>5, <1>6 DEF PobjInv, OtherNames

(* A client that counts for a reserved name gives that back. *)
LEMMA Unreserved ==
  ASSUME PobjInv, NEW n \in Names, NEW c, c \in ByTo(n) \/ c \in Spares(n), PobjUnreserve(n)
  PROVE  /\ OtherNames(n) /\ pobj'[n].reserved = pobj[n].reserved - 1
         /\ pobj[n].reserved \in Nat /\ pobj[n].refcnt \in Nat
         /\ pobj'[n].refcnt = pobj[n].refcnt /\ pobj'[n].flags = pobj[n].flags
<1>1. pobj[n].reserved \in Nat /\ pobj[n].refcnt \in Nat /\ pobj[n].reserved # 0
  BY NoRefs
<1>2. PICK k \in Nat : k = pobj[n].reserved - 1
  BY <1>1
<1>3. pobj' = [pobj EXCEPT ![n].reserved = k]
  BY <1>2 DEF PobjUnreserve
<1> QED BY <1>1, <1>2, <1>3, ReservedExpand

(* An enumeration gives up its reference to the object that reserves the name. *)
LEMMA DropSpare ==
  ASSUME PobjInv, NEW c \in Clients, Others(c), NEW n \in Names,
         c \in Spares(n), cl'[c].pc \in Unheld, cl[c].to = Nil, cl'[c].to = Nil, ~cl'[c].spare,
         PobjUnreserve(n)
  PROVE  PobjInv'
<1>1. \A m \in Names : /\ c \notin ByName(m)' /\ c \notin ByName(m) /\ c \notin Spares(m)'
                       /\ c \notin ByTo(m) /\ c \notin ByTo(m)'
                       /\ c \in Spares(m) <=> m = n
  BY RefsOthers, ReeFsAssumption
<1>2. /\ OtherNames(n) /\ pobj'[n].reserved = pobj[n].reserved - 1
      /\ pobj[n].reserved \in Nat /\ pobj[n].refcnt \in Nat
      /\ pobj'[n].refcnt = pobj[n].refcnt /\ pobj'[n].flags = pobj[n].flags
  BY Unreserved
<1>3. ASSUME NEW m \in Names PROVE RefcntOK(m)' /\ OwnedOK(m)' /\ ReservedOK(m)'
  <2>1. CASE m # n
    BY <1>1, <1>2, <1>3, <2>1, PobjElsewhere DEF OtherNames
  <2>2. CASE m = n
    <3>1. RefcntOK(n)'
      BY <1>1, <1>2, RefcntStep
    <3>2. OwnedOK(n)'
      BY <1>1, <1>2, OwnedStep
    <3>3. ReservedOK(n)'
      BY <1>1, ReservedStep
    <3> QED BY <2>2, <3>1, <3>2, <3>3
  <2> QED BY <2>1, <2>2
<1>4. SpareInv'
  BY SpareStep
<1> QED BY <1>2, <1>3, <1>4 DEF PobjInv, OtherNames

(* The client keeps what it has, but for the name it reserves. *)
Keeps(c) == /\ cl'[c].name = cl[c].name /\ cl'[c].flags = cl[c].flags
            /\ cl'[c].lists = cl[c].lists /\ cl'[c].spare = cl[c].spare
            /\ cl'[c].pc \in Unheld <=> cl[c].pc \in Unheld

(* It is then the user of its object it was before. *)
LEMMA KeepsOwn ==
  ASSUME PobjInv, NEW c \in Clients, Others(c), NEW n \in Names, Keeps(c),
         pobj'[n].flags = pobj[n].flags
  PROVE  /\ c \in ByName(n)' <=> c \in ByName(n)
         /\ c \in Spares(n)' <=> c \in Spares(n)
         /\ OwnedOK(n)'
<1>1. (c \in ByName(n)' <=> c \in ByName(n)) /\ (c \in Spares(n)' <=> c \in Spares(n))
  BY RefsOthers DEF Keeps
<1>2. OwnedOK(n)
  BY DEF PobjInv
<1>3. OwnedOK(n)'
  BY <1>1, <1>2, OwnedStep DEF OwnedOK, Keeps
<1> QED BY <1>1, <1>3

(* A client reserves a name that nobody uses. *)
LEMMA ReserveName ==
  ASSUME PobjInv, NEW c \in Clients, Others(c), NEW n \in Names,
         cl[c].to = Nil, cl'[c].to = n, Keeps(c), PobjReserve(n)
  PROVE  PobjInv'
<1>1. pobj[n].refcnt = 0 /\ pobj[n].reserved = 0 /\ pobj' = [pobj EXCEPT ![n].reserved = 1]
  BY DEF PobjReserve
<1>2. PICK k \in Nat : k = 1
  OBVIOUS
<1>3. /\ OtherNames(n) /\ pobj'[n].reserved = 1
      /\ pobj'[n].refcnt = pobj[n].refcnt /\ pobj'[n].flags = pobj[n].flags
  BY <1>1, <1>2, ReservedExpand
<1>4. ByName(n) = {} /\ ByTo(n) = {} /\ Spares(n) = {}
  BY <1>1, NoRefs
<1>5. \A m \in Names : c \notin ByTo(m) /\ (c \in ByTo(m)' <=> m = n)
  BY RefsOthers, ReeFsAssumption
<1>6. \A m \in Names : /\ pobj'[m].refcnt = pobj[m].refcnt /\ pobj'[m].flags = pobj[m].flags
                       /\ pobj[m].refcnt \in Nat /\ pobj[m].reserved \in Nat
                       /\ m # n => pobj'[m].reserved = pobj[m].reserved
  BY <1>3, NoRefs DEF OtherNames
<1>7. ASSUME NEW m \in Names PROVE RefcntOK(m)' /\ OwnedOK(m)' /\ ReservedOK(m)'
  <2>1. /\ c \in ByName(m)' <=> c \in ByName(m)
        /\ c \in Spares(m)' <=> c \in Spares(m)
        /\ OwnedOK(m)'
    BY <1>6, <1>7, KeepsOwn
  <2>2. RefcntOK(m)'
    BY <1>1, <1>3, <1>5, <1>6, <1>7, <2>1, RefcntStep
  <2>3. ReservedOK(m)
    BY <1>7 DEF PobjInv
  <2>4. ReservedOK(m)'
    BY <1>4, <1>5, <1>7, <2>1, <2>3, ReservedStep DEF ReservedOK
  <2> QED BY <2>1, <2>2, <2>4
<1>8. SpareInv'
  BY SpareStep DEF Keeps, PobjInv, SpareInv
<1> QED BY <1>3, <1>7, <1>8 DEF PobjInv, OtherNames

(* A client gives a reserved name back. *)
LEMMA UnreserveName ==
  ASSUME PobjInv, NEW c \in Clients, Others(c), NEW n \in Names,
         cl[c].to = n, cl'[c].to = Nil, Keeps(c), PobjUnreserve(n)
  PROVE  PobjInv'
<1>1. \A m \in Names : c \notin ByTo(m)' /\ (c \in ByTo(m) <=> m = n)
  BY RefsOthers, ReeFsAssumption
<1>2. /\ OtherNames(n) /\ pobj'[n].reserved = pobj[n].reserved - 1
      /\ pobj[n].reserved \in Nat /\ pobj[n].refcnt \in Nat
      /\ pobj'[n].refcnt = pobj[n].refcnt /\ pobj'[n].flags = pobj[n].flags
  BY <1>1, Unreserved
<1>3. \A m \in Names : /\ pobj'[m].refcnt = pobj[m].refcnt /\ pobj'[m].flags = pobj[m].flags
                       /\ pobj[m].refcnt \in Nat /\ pobj[m].reserved \in Nat
                       /\ m # n => pobj'[m].reserved = pobj[m].reserved
  BY <1>2, NoRefs DEF OtherNames
<1>4. ASSUME NEW m \in Names PROVE RefcntOK(m)' /\ OwnedOK(m)' /\ ReservedOK(m)'
  <2>1. /\ c \in ByName(m)' <=> c \in ByName(m)
        /\ c \in Spares(m)' <=> c \in Spares(m)
        /\ OwnedOK(m)'
    BY <1>3, <1>4, KeepsOwn
  <2>2. RefcntOK(m)'
    BY <1>1, <1>2, <1>3, <1>4, <2>1, RefcntStep
  <2>3. ReservedOK(m)
    BY <1>4 DEF PobjInv
  <2>4. ReservedOK(m)'
    BY <1>1, <1>4, <2>1, <2>3, ReservedStep DEF ReservedOK
  <2> QED BY <2>1, <2>2, <2>4
<1>5. SpareInv'
  BY SpareStep DEF Keeps, PobjInv, SpareInv
<1> QED BY <1>2, <1>4, <1>5 DEF PobjInv, OtherNames

(* A client takes the name it reserved for the one it had to itself. *)
LEMMA TakeReserved ==
  ASSUME PobjInv, NEW c \in Clients, Others(c), NEW n \in Names, NEW m \in Names,
         c \in ByName(n), ~cl[c].lists, Exclusive(cl[c].flags), pobj[n].refcnt = 1,
         cl[c].to = m, cl'[c].to = Nil, cl'[c].name = m, cl'[c].flags = cl[c].flags,
         cl'[c].pc \notin Unheld, ~cl'[c].spare,
         pobj' = [pobj EXCEPT ![m] = [pobj[n] EXCEPT !.reserved = pobj[m].reserved - 1],
                              ![n] = [NoPobj EXCEPT !.reserved = pobj[n].reserved]]
  PROVE  PobjInv'
<1>1. \A k \in Names : /\ c \notin Spares(k) /\ c \notin Spares(k)' /\ c \notin ByTo(k)'
                       /\ c \in ByName(k) <=> k = n
                       /\ c \in ByName(k)' <=> k = m
                       /\ c \in ByTo(k) <=> k = m
  BY RefsOthers, ReeFsAssumption
<1>2. ByName(m) = {} /\ \A d \in ByTo(m) : d = c
  BY <1>1 DEF ReservedOK, PobjInv
<1>3. n # m
  BY <1>1, <1>2
<1>4. Exclusive(pobj[n].flags) /\ \A d \in ByName(n) : d = c
  <2>1. OwnedOK(n)
    BY DEF PobjInv
  <2> QED BY <2>1, NoRefs DEF OwnedOK
<1>5. /\ pobj[n] \in Pobj /\ pobj[m] \in Pobj /\ pobj[n].reserved \in Nat /\ pobj[m].reserved \in Nat
      /\ pobj[m].reserved # 0 /\ pobj \in [Names -> Pobj]
  BY <1>1, NoRefs DEF PobjInv
<1>6. PICK k \in Nat : k = pobj[m].reserved - 1
  BY <1>5
<1>7. PICK r, s : /\ r = [pobj[n] EXCEPT !.reserved = k]
                  /\ s = [NoPobj EXCEPT !.reserved = pobj[n].reserved]
  OBVIOUS
<1>8. /\ r \in Pobj /\ r.refcnt = 1 /\ r.reserved = k /\ r.flags = pobj[n].flags
      /\ s \in Pobj /\ s.refcnt = 0 /\ s.reserved = pobj[n].reserved
  BY <1>5, <1>7 DEF Pobj, NoPobj
<1>9. pobj' = [pobj EXCEPT ![m] = r, ![n] = s]
  BY <1>6, <1>7
<1>10. /\ pobj' \in [Names -> Pobj] /\ pobj'[n] = s /\ pobj'[m] = r
       /\ \A j \in Names : j # n /\ j # m => pobj'[j] = pobj[j]
  BY <1>3, <1>5, <1>8, <1>9
<1>11. pobj[m].refcnt = 0
  <2>1. RefcntOK(m)
    BY DEF PobjInv
  <2> QED BY <1>2, <2>1, FS_EmptySet DEF RefcntOK
<1>12. ASSUME NEW j \in Names PROVE RefcntOK(j)' /\ OwnedOK(j)' /\ ReservedOK(j)'
  <2>1. CASE j # n /\ j # m
    BY <1>1, <1>10, <1>12, <2>1, PobjElsewhere
  <2>2. CASE j = n
    <3>1. RefcntOK(n)'
      <4>1. pobj'[n].refcnt = 0 /\ pobj'[n].reserved = pobj[n].reserved /\ pobj[n].refcnt = 1
        BY <1>8, <1>10
      <4>2. c \in ByName(n) /\ c \notin ByName(n)' /\ c \notin ByTo(n) /\ c \notin ByTo(n)'
        BY <1>1, <1>3
      <4>3. c \notin Spares(n) /\ c \notin Spares(n)' /\ pobj[n].reserved \in Nat
        BY <1>1, <1>5
      <4>4. pobj'[n].refcnt = pobj[n].refcnt + (IF c \in ByName(n)' THEN 1 ELSE 0)
                                             - (IF c \in ByName(n) THEN 1 ELSE 0)
        BY <4>1, <4>2
      <4>5. pobj'[n].reserved = pobj[n].reserved
              + (IF c \in ByTo(n)' THEN 1 ELSE 0) - (IF c \in ByTo(n) THEN 1 ELSE 0)
              + (IF c \in Spares(n)' THEN 1 ELSE 0) - (IF c \in Spares(n) THEN 1 ELSE 0)
        BY <4>1, <4>2, <4>3
      <4> QED BY <4>4, <4>5, RefcntStep
    <3>2. OwnedOK(n)'
      BY <1>1, <1>3, <1>4, OwnedStep
    <3>3. ReservedOK(n)'
      BY <1>1, <1>3, ReservedStep
    <3> QED BY <2>2, <3>1, <3>2, <3>3
  <2>3. CASE j = m
    <3>1. RefcntOK(m)'
      BY <1>1, <1>3, <1>5, <1>6, <1>8, <1>10, <1>11, RefcntStep
    <3>2. OwnedOK(m)'
      BY <1>2, <1>4, <1>8, <1>10, OwnedStep
    <3>3. ReservedOK(m)'
      BY <1>1, <1>2, ReservedStep
    <3> QED BY <2>3, <3>1, <3>2, <3>3
  <2> QED BY <2>1, <2>2, <2>3
<1>13. SpareInv'
  BY SpareStep
<1> QED BY <1>10, <1>12, <1>13 DEF PobjInv
----------------------------------------------------------------------------
(* The objects on disk. *)

(* Where nothing is said of the directory in memory. *)
LEMMA NothingPending ==
  ASSUME NEW c \in Clients, cl[c].pc \notin Locked, cl[c].pc # "moved"
  PROVE  PendingOK(c)
BY DEF PendingOK, TmpOK, NamingOK, UpdatingOK, MovingOK, MovedOK, RemovingOK, CommittedOK, Locked

(* The same after a step. *)
LEMMA NothingPendingNext ==
  ASSUME NEW c \in Clients, cl'[c].pc \notin Locked, cl'[c].pc # "moved"
  PROVE  PendingOK(c)'
BY DEF PendingOK, TmpOK, NamingOK, UpdatingOK, MovingOK, MovedOK, RemovingOK, CommittedOK, Locked

(* A step that leaves the disk, the directory and the mutex alone. *)
LEMMA QuietStore ==
  ASSUME StoreInv, NEW c \in Clients, Others(c), UNCHANGED <<dir, files, dirh, owner>>,
         CountInv', PobjInv', FlagsOK(c)', HandleOK(c)', PendingOK(c)'
  PROVE  StoreInv'
<1>1. \A d \in Clients : d # c => cl'[d] = cl[d]
  BY DEF Others
<1>2. FlagsInv'
  BY <1>1 DEF StoreInv, FlagsInv, FlagsOK
<1>3. ASSUME NEW d \in Clients, d # c
      PROVE  HandleOK(d)' /\ PendingOK(d)'
  <2>1. cl'[d] = cl[d] /\ HandleOK(d) /\ PendingOK(d) /\ EntryOf(d)' = EntryOf(d) /\ FilesOf(dir)' = FilesOf(dir)
    BY <1>1, <1>3 DEF StoreInv, ClientInv, EntryOf, FilesOf, Used
  <2>2. HandleOK(d)' /\ TmpOK(d)' /\ MovedOK(d)' /\ CommittedOK(d)'
    BY <2>1 DEF HandleOK, Gone, Used, PendingOK, TmpOK, MovedOK, CommittedOK
  <2>3. NamingOK(d)' /\ UpdatingOK(d)'
    BY <2>1 DEF PendingOK, NamingOK, UpdatingOK, Used
  <2>4. MovingOK(d)'
    <3>1. MovingOK(d) /\ dir' = dir /\ dirh' = dirh /\ cl'[d] = cl[d]
      BY <2>1 DEF PendingOK
    <3> QED BY <3>1, Zenon DEF MovingOK, Used
  <2>5. RemovingOK(d)'
    <3>1. RemovingOK(d) /\ dir' = dir /\ dirh' = dirh /\ cl'[d] = cl[d]
      BY <2>1 DEF PendingOK
    <3> QED BY <3>1, Zenon DEF RemovingOK, Used
  <2> QED BY <2>2, <2>3, <2>4, <2>5 DEF PendingOK
<1>4. StoreIntact' /\ DirhInv'
  BY DEF StoreInv, StoreIntact, DirhInv, FilesOf, Used
<1> QED BY <1>2, <1>3, <1>4 DEF StoreInv, ClientInv

(* A step under the mutex that leaves the directory on disk alone. *)
LEMMA LockStore ==
  ASSUME StoreInv, NEW c \in Clients, Others(c), dir' = dir, owner \in {Nil, c},
         CountInv', PobjInv', StoreIntact', DirhInv', FlagsOK(c)', HandleOK(c)', PendingOK(c)'
  PROVE  StoreInv'
<1>1. \A d \in Clients : d # c => cl'[d] = cl[d]
  BY DEF Others
<1>2. FlagsInv'
  BY <1>1 DEF StoreInv, FlagsInv, FlagsOK
<1>3. ASSUME NEW d \in Clients, d # c
      PROVE  HandleOK(d)' /\ PendingOK(d)'
  <2>1. cl'[d] = cl[d] /\ HandleOK(d) /\ MovedOK(d)
    BY <1>1, <1>3 DEF StoreInv, ClientInv, PendingOK
  <2>2. cl[d].pc \notin Locked
    BY <1>3, ReeFsAssumption DEF StoreInv, CountInv, ShapeInv, Shape
  <2>3. HandleOK(d)' /\ MovedOK(d)'
    BY <2>1 DEF HandleOK, Gone, Used, MovedOK, EntryOf
  <2> QED BY <2>1, <2>2, <2>3 DEF PendingOK, TmpOK, NamingOK, UpdatingOK, MovingOK, RemovingOK, CommittedOK, Locked
<1> QED BY <1>2, <1>3 DEF StoreInv, ClientInv

(* What an operation that takes the mutex sees: the directory on disk. *)
LEMMA GetDirhIs ==
  ASSUME StoreInv, owner = Nil
  PROVE  GetDirh \in Dirh /\ GetDirh # Nil /\ GetDirh.ents = dir /\ FilesOf(dir) \subseteq GetDirh.bits
<1>1. GetDirh \in Dirh /\ GetDirh # Nil /\ dir \in Entries
  BY GetDirhType DEF StoreInv, CountInv, StoreType
<1>2. CASE dirh # Nil
  BY <1>1, <1>2 DEF GetDirh, StoreInv, DirhInv
<1>3. CASE dirh = Nil
  <2>1. \A i \in Used(dir) : ~\E j \in Used(dir) : j < i /\ dir[j].file = dir[i].file
    <3>1. \A i \in Used(dir) : i \in Nat
      BY ReeFsAssumption, FS_CardinalityType DEF Used, Idx
    <3> QED BY <3>1 DEF StoreInv, StoreIntact
  <2>2. DirfileOpen.ents = [i \in Idx |-> dir[i]]
    BY <2>1 DEF DirfileOpen, Used
  <2>3. DirfileOpen.ents = dir
    BY <1>1, <2>2 DEF Entries
  <2>4. DirfileOpen.bits = FilesOf(dir)
    BY DEF DirfileOpen, FilesOf
  <2> QED BY <1>1, <1>3, <2>3, <2>4 DEF GetDirh
<1> QED BY <1>2, <1>3

(* The parts of the invariant about one client. *)
LEMMA Parts ==
  ASSUME StoreInv, NEW c \in Clients
  PROVE  /\ CountInv /\ StoreType /\ PobjInv /\ Shape(c) /\ FlagsOK(c) /\ HandleOK(c) /\ PendingOK(c)
         /\ StoreIntact /\ DirhInv /\ dir \in Entries
         /\ cl[c].spare => cl[c].lists
BY DEF StoreInv, CountInv, StoreType, ShapeInv, FlagsInv, ClientInv, PobjInv, SpareInv

(* An object is opened: objects and handles stay as they were.              *)
LEMMA OpenStore ==
  ASSUME ExclusiveUse, StoreInv, NEW c \in Clients, NEW n \in Names, NEW f \in OpenFlags[c],
         Open(c, n, f)
  PROVE  StoreInv'
<1>1. /\ CountInv /\ StoreType /\ PobjInv /\ Shape(c) /\ FlagsOK(c) /\ f \in SUBSET Flags
      /\ "W" \in f => Exclusive(f)
  BY Parts, ReeFsAssumption DEF ExclusiveUse
<1>2. /\ Others(c) /\ cl'[c].pc = "opening" /\ cl'[c].name = n /\ cl'[c].to = cl[c].to
      /\ cl'[c].flags = f /\ cl'[c].lists = cl[c].lists /\ cl'[c].spare = cl[c].spare
  BY <1>1, OpenEffect DEF Open
<1>3. cl[c].pc = "idle" /\ UNCHANGED <<dir, files, dirh, owner>> /\ ~cl[c].lists /\ ~cl[c].spare /\ cl[c].to = Nil
  BY <1>1, Parts DEF Open, Shape, Listing
<1>4. /\ OtherNames(n) /\ pobj[n].reserved = 0
      /\ pobj'[n].refcnt = pobj[n].refcnt + 1 /\ pobj'[n].reserved = pobj[n].reserved
      /\ pobj[n].refcnt = 0 => pobj'[n].flags = f
      /\ pobj[n].refcnt # 0 => pobj'[n].flags = pobj[n].flags /\ CheckAccess(pobj[n].flags, f)
  <2>1. PobjGet(n, f, "open", FALSE)
    BY DEF Open
  <2> QED BY <1>1, <2>1, GetExpand, Zenon
<1>5. PobjInv'
  <2>1. (pobj[n].refcnt = 0 /\ pobj'[n].flags = f) \/ (~Exclusive(pobj[n].flags) /\ ~Exclusive(f))
    BY <1>4, AccessShared
  <2> QED BY <1>1, <1>2, <1>3, <1>4, <2>1, GetName DEF Unheld, Unnamed
<1>6. CountInv'
  BY <1>1, OpenCount
<1>7. FlagsOK(c)' /\ HandleOK(c)' /\ PendingOK(c)'
  BY <1>1, <1>2, NothingPendingNext DEF FlagsOK, HandleOK, Locked
<1> QED BY <1>2, <1>3, <1>5, <1>6, <1>7, QuietStore

(* A name is taken for a new object: objects and handles stay as they were. *)
LEMMA CreateStore ==
  ASSUME ExclusiveUse, StoreInv, NEW c \in Clients, NEW n \in Names, NEW f \in CreateFlags,
         NEW w \in BOOLEAN, Create(c, n, f, w)
  PROVE  StoreInv'
<1>1. /\ CountInv /\ StoreType /\ PobjInv /\ Shape(c) /\ FlagsOK(c) /\ f \in SUBSET Flags /\ Exclusive(f)
  BY Parts, ReeFsAssumption DEF ExclusiveUse
<1>2. /\ Others(c) /\ cl'[c].pc = "creating" /\ cl'[c].name = n /\ cl'[c].to = cl[c].to
      /\ cl'[c].flags = f /\ cl'[c].lists = cl[c].lists /\ cl'[c].spare = cl[c].spare /\ cl'[c].failed = cl[c].failed
  BY <1>1, CreateEffect
<1>3. cl[c].pc = "idle" /\ UNCHANGED <<dir, files, dirh, owner>> /\ ~cl[c].lists /\ ~cl[c].spare /\ cl[c].to = Nil
  BY <1>1, Parts DEF Create, Shape, Listing
<1>4. /\ OtherNames(n) /\ pobj[n].reserved = 0
      /\ pobj'[n].refcnt = pobj[n].refcnt + 1 /\ pobj'[n].reserved = pobj[n].reserved
      /\ pobj[n].refcnt = 0 => pobj'[n].flags = f
      /\ pobj[n].refcnt # 0 => pobj'[n].flags = pobj[n].flags /\ CheckAccess(pobj[n].flags, f)
  <2>1. PobjGet(n, f, "create", w)
    BY DEF Create
  <2> QED BY <1>1, <2>1, GetExpand, Zenon
<1>5. PobjInv'
  <2>1. pobj[n].refcnt = 0 /\ pobj'[n].flags = f
    BY <1>1, <1>4, AccessShared
  <2> QED BY <1>1, <1>2, <1>3, <1>4, <2>1, GetName DEF Unheld, Unnamed
<1>6. CountInv'
  BY <1>1, CreateCount
<1>7. FlagsOK(c)' /\ HandleOK(c)' /\ PendingOK(c)'
  BY <1>1, <1>2, <1>3, NothingPendingNext DEF FlagsOK, HandleOK, Locked
<1> QED BY <1>2, <1>3, <1>5, <1>6, <1>7, QuietStore

(* An enumeration takes a reference: objects and handles stay as they were. *)
LEMMA EnumGetStore ==
  ASSUME StoreInv, NEW c \in Clients, EnumGet(c)
  PROVE  StoreInv'
<1>1. CountInv /\ StoreType /\ PobjInv /\ Shape(c) /\ FlagsOK(c)
  BY Parts
<1>2. PICK b : b = (pobj[cl[c].name].reserved > 0) /\ cl' = [cl EXCEPT ![c].pc = "looking", ![c].spare = b]
  BY Zenon DEF EnumGet
<1>3. b \in BOOLEAN
  BY <1>2
<1>4. /\ Others(c) /\ cl'[c].pc = "looking" /\ cl'[c].name = cl[c].name /\ cl'[c].to = cl[c].to
      /\ cl'[c].flags = cl[c].flags /\ cl'[c].lists = cl[c].lists /\ cl'[c].spare = b
  BY <1>1, <1>2, <1>3, EnumGetEffect
<1>5. cl[c].pc = "listed" /\ UNCHANGED <<dir, files, dirh, owner>> /\ cl[c].lists /\ cl[c].to = Nil
  BY <1>1 DEF EnumGet, Shape, Listing
<1>6. PICK n \in Names : n = cl[c].name
  BY <1>1, <1>5, ClientTypes DEF Shape, Unnamed
<1>7. PobjEnum(n) /\ pobj[n] \in Pobj /\ pobj[n].refcnt \in Nat /\ pobj[n].reserved \in Nat
  BY <1>1, <1>6, NoRefs DEF EnumGet
<1>8. cl[c].pc \in Unheld /\ cl'[c].pc \notin Unheld
  BY <1>4, <1>5 DEF Unheld, Unnamed
<1>9. ASSUME pobj[n].reserved > 0 PROVE PobjInv'
  <2>1. PICK k \in Nat : k = pobj[n].reserved + 1
    BY <1>7
  <2>2. pobj' = [pobj EXCEPT ![n].reserved = k]
    BY <1>7, <1>9, <2>1 DEF PobjEnum
  <2>3. /\ OtherNames(n) /\ pobj'[n].reserved = k
        /\ pobj'[n].refcnt = pobj[n].refcnt /\ pobj'[n].flags = pobj[n].flags
    BY <1>1, <2>2, ReservedExpand
  <2>4. cl'[c].spare /\ cl'[c].lists /\ cl'[c].to = Nil /\ cl'[c].name = n
    BY <1>2, <1>4, <1>5, <1>6, <1>9
  <2> QED BY <1>1, <1>4, <1>5, <1>8, <2>1, <2>3, <2>4, GetSpare
<1>10. ASSUME ~(pobj[n].reserved > 0) PROVE PobjInv'
  <2>1. PICK r : r = [pobj[n] EXCEPT !.refcnt = @ + 1]
    OBVIOUS
  <2>2. r \in Pobj /\ r.refcnt = pobj[n].refcnt + 1 /\ r.flags = pobj[n].flags /\ r.reserved = pobj[n].reserved
    BY <1>7, <2>1 DEF Pobj
  <2>3. pobj' = [pobj EXCEPT ![n] = r] /\ pobj \in [Names -> Pobj]
    BY <1>1, <1>7, <1>10, <2>1 DEF PobjEnum, PobjInv, Pobj
  <2>4. /\ OtherNames(n) /\ pobj'[n].refcnt = pobj[n].refcnt + 1 /\ pobj'[n].flags = pobj[n].flags
        /\ pobj'[n].reserved = pobj[n].reserved /\ pobj[n].reserved = 0
    BY <1>7, <1>10, <2>2, <2>3 DEF OtherNames
  <2>5. ~cl'[c].spare /\ cl'[c].lists /\ cl'[c].to = Nil /\ cl'[c].name = n
    BY <1>2, <1>4, <1>5, <1>6, <1>10
  <2> QED BY <1>1, <1>4, <1>5, <1>8, <2>4, <2>5, GetName
<1>11. CountInv'
  BY <1>1, EnumGetCount
<1>12. FlagsOK(c)' /\ HandleOK(c)' /\ PendingOK(c)'
  BY <1>1, <1>4, NothingPendingNext DEF FlagsOK, HandleOK, Locked
<1> QED BY <1>4, <1>5, <1>9, <1>10, <1>11, <1>12, QuietStore

(* A reference to an object is given back: objects and handles stay as they were. *)
LEMMA ReleaseStore ==
  ASSUME StoreInv, NEW c \in Clients, Release(c)
  PROVE  StoreInv'
<1>1. CountInv /\ StoreType /\ PobjInv /\ Shape(c) /\ FlagsOK(c)
  BY Parts
<1>2. /\ cl[c].pc = "releasing" /\ UNCHANGED <<dir, files, dirh, owner>> /\ cl[c].to = Nil
  BY <1>1 DEF Release, Shape
<1>3. /\ Others(c) /\ cl'[c].pc \in {"idle", "listing"} /\ cl'[c].to = Nil /\ cl'[c].flags = {}
      /\ cl'[c].failed = FALSE /\ ~cl'[c].spare
  <2>1. CASE ~cl[c].lists
    <3>1. cl' = [cl EXCEPT ![c] = Idle]
      BY <2>1 DEF Release
    <3> QED BY <1>1, <3>1, IdleEffect
  <2>2. CASE cl[c].lists
    <3>1. cl' = [cl EXCEPT ![c] = [Idle EXCEPT !.pc = "listing", !.lists = TRUE]]
      BY <2>2 DEF Release
    <3> QED BY <1>1, <3>1, NextNameEffect
  <2> QED BY <2>1, <2>2
<1>4. PICK n \in Names : n = cl[c].name
  BY <1>1, <1>2, ClientTypes DEF Shape, Unnamed
<1>5. PobjInv'
  <2>1. cl'[c].pc \in Unheld /\ cl[c].pc \notin Unheld
    BY <1>2, <1>3 DEF Unheld, Unnamed
  <2>2. CASE cl[c].spare
    <3>1. PobjUnreserve(n) /\ c \in Spares(n)
      BY <1>4, <2>1, <2>2 DEF Release, Spares, Refers
    <3> QED BY <1>1, <1>2, <1>3, <2>1, <3>1, DropSpare
  <2>3. CASE ~cl[c].spare
    <3>1. PobjRelease(n) /\ c \in ByName(n)
      BY <1>4, <2>1, <2>3 DEF Release, ByName, Refers
    <3> QED BY <1>1, <1>2, <1>3, <2>1, <3>1, DropName
  <2> QED BY <2>2, <2>3
<1>6. CountInv'
  BY <1>1, ReleaseCount
<1>7. FlagsOK(c)' /\ HandleOK(c)' /\ PendingOK(c)'
  BY <1>3, NothingPendingNext DEF FlagsOK, HandleOK, Locked
<1> QED BY <1>2, <1>3, <1>5, <1>6, <1>7, QuietStore

(* The new name of an object is reserved: objects and handles stay as they were. *)
LEMMA RenameStore ==
  ASSUME StoreInv, NEW c \in Clients, NEW n \in Names, Rename(c, n)
  PROVE  StoreInv'
<1>1. CountInv /\ StoreType /\ PobjInv /\ Shape(c) /\ FlagsOK(c) /\ HandleOK(c)
  BY Parts
<1>2. /\ Others(c) /\ cl'[c].pc = "renaming" /\ cl'[c].name = cl[c].name /\ cl'[c].to = n
      /\ cl'[c].flags = cl[c].flags /\ cl'[c].lists = cl[c].lists /\ cl'[c].spare = cl[c].spare /\ cl'[c].failed = cl[c].failed
      /\ cl'[c].fh = cl[c].fh
  BY <1>1, RenameEffect DEF Rename
<1>3. /\ cl[c].pc = "ready" /\ "M" \in cl[c].flags /\ UNCHANGED <<dir, files, dirh, owner>>
      /\ cl[c].to = Nil /\ PobjReserve(n)
  BY <1>1 DEF Rename, Shape
<1>4. Keeps(c)
  BY <1>2, <1>3 DEF Keeps, Unheld, Unnamed
<1>5. PobjInv'
  BY <1>1, <1>2, <1>3, <1>4, ReserveName
<1>6. CountInv'
  BY <1>1, RenameCount
<1>7. FlagsOK(c)' /\ PendingOK(c)'
  BY <1>1, <1>2, <1>3, NothingPendingNext DEF FlagsOK, Locked
<1>8. HandleOK(c)'
  BY <1>1, <1>2, <1>3 DEF HandleOK, EntryOf, Gone, Used
<1> QED BY <1>2, <1>3, <1>5, <1>6, <1>7, <1>8, QuietStore

(* The new object is offered to others: objects and handles stay as they were. *)
LEMMA CreateFinalStore ==
  ASSUME StoreInv, NEW c \in Clients, CreateFinal(c)
  PROVE  StoreInv'
<1>1. CountInv /\ StoreType /\ PobjInv /\ Shape(c) /\ FlagsOK(c) /\ HandleOK(c)
  BY Parts
<1>2. /\ Others(c) /\ cl'[c].pc = "ready" /\ cl'[c].name = cl[c].name /\ cl'[c].to = cl[c].to
      /\ cl'[c].flags = cl[c].flags /\ cl'[c].lists = cl[c].lists /\ cl'[c].spare = cl[c].spare /\ cl'[c].failed = cl[c].failed
      /\ cl'[c].fh = cl[c].fh
  BY <1>1, CreateFinalEffect DEF CreateFinal
<1>3. cl[c].pc = "created" /\ UNCHANGED <<dir, files, dirh, owner>>
  BY DEF CreateFinal
<1>4. /\ pobj' \in [Names -> Pobj]
      /\ \A n \in Names : /\ pobj'[n].refcnt = pobj[n].refcnt /\ pobj'[n].flags = pobj[n].flags
                          /\ pobj'[n].reserved = pobj[n].reserved
  <2>1. pobj \in [Names -> Pobj]
    BY <1>1 DEF PobjInv
  <2>2. CASE pobj' = pobj
    BY <2>1, <2>2
  <2>3. CASE pobj' = [pobj EXCEPT ![cl[c].name].creating = FALSE]
    BY <2>1, <2>3 DEF Pobj
  <2> QED BY <2>2, <2>3 DEF CreateFinal
<1>5. \A n \in Names : (c \in ByName(n)' <=> c \in ByName(n)) /\ (c \in Spares(n)' <=> c \in Spares(n))
  BY <1>2, <1>3 DEF ByName, Spares, Refers, Unheld, Unnamed
<1>6. PobjInv'
  <2>1. cl'[c].spare => cl'[c].lists
    BY <1>2, Parts
  <2> QED BY <1>1, <1>2, <1>4, <1>5, <2>1, PobjSame
<1>7. CountInv'
  BY <1>1, CreateFinalCount
<1>8. FlagsOK(c)' /\ PendingOK(c)'
  BY <1>1, <1>2, <1>3, NothingPendingNext DEF FlagsOK, Locked
<1>9. HandleOK(c)'
  BY <1>1, <1>2, <1>3 DEF HandleOK, EntryOf, Gone, Used
<1> QED BY <1>2, <1>3, <1>6, <1>7, <1>8, <1>9, QuietStore

(* A client that renames its object shares it with enumerations only. *)
LEMMA MovesAlone ==
  ASSUME StoreInv, NEW c \in Clients, cl[c].pc \in {"renaming", "moving", "moved"}
  PROVE  /\ cl[c].name \in Names /\ cl[c].to \in Names /\ ~cl[c].lists /\ ~cl[c].spare
         /\ "M" \in cl[c].flags /\ Exclusive(cl[c].flags) /\ c \in ByName(cl[c].name)
<1>1. CountInv /\ StoreType /\ PobjInv /\ Shape(c) /\ FlagsOK(c) /\ (cl[c].spare => cl[c].lists)
  BY Parts
<1>2. /\ cl[c].name # Nil /\ cl[c].to # Nil /\ ~cl[c].lists /\ "M" \in cl[c].flags
      /\ cl[c].pc \notin Unheld
  BY <1>1 DEF Shape, Unnamed, Unheld, Listing, FlagsOK
<1>3. cl[c].name \in Names /\ cl[c].to \in Names /\ ~cl[c].spare
  BY <1>1, <1>2, ClientTypes
<1>4. c \in ByName(cl[c].name) /\ Exclusive(cl[c].flags)
  BY <1>2, <1>3 DEF ByName, Refers, Exclusive
<1> QED BY <1>2, <1>3, <1>4

(* The table takes over the new name, or does not: objects and handles stay as they were. *)
LEMMA PobjRenameStore ==
  ASSUME StoreInv, NEW c \in Clients, PobjRename(c)
  PROVE  StoreInv'
<1>1. CountInv /\ StoreType /\ PobjInv /\ Shape(c) /\ FlagsOK(c) /\ PendingOK(c)
  BY Parts
<1>2. cl[c].pc = "moved" /\ UNCHANGED <<dir, files, dirh, owner>>
  BY DEF PobjRename
<1>3. /\ cl[c].name \in Names /\ cl[c].to \in Names /\ ~cl[c].lists /\ ~cl[c].spare
      /\ Exclusive(cl[c].flags) /\ c \in ByName(cl[c].name)
  BY <1>2, MovesAlone
<1>4. CountInv'
  BY <1>1, PobjRenameCount
<1>5. CASE /\ pobj[cl[c].name].refcnt = 1
           /\ pobj' = [pobj EXCEPT
                ![cl[c].to] = [pobj[cl[c].name] EXCEPT !.reserved = pobj[cl[c].to].reserved - 1],
                ![cl[c].name] = [NoPobj EXCEPT !.reserved = pobj[cl[c].name].reserved]]
           /\ cl' = [cl EXCEPT ![c].pc = "ready", ![c].name = cl[c].to, ![c].to = Nil]
  <2>1. /\ Others(c) /\ cl'[c].pc = "ready" /\ cl'[c].name = cl[c].to /\ cl'[c].to = Nil
        /\ cl'[c].flags = cl[c].flags /\ cl'[c].lists = cl[c].lists /\ cl'[c].failed = cl[c].failed
        /\ cl'[c].fh = cl[c].fh /\ cl'[c].spare = cl[c].spare
    BY <1>1, <1>5, PobjRenameEffect
  <2>2. PobjInv'
    <3>1. cl'[c].pc \notin Unheld /\ ~cl'[c].spare
      BY <1>3, <2>1 DEF Unheld, Unnamed
    <3> QED BY <1>1, <1>3, <1>5, <2>1, <3>1, TakeReserved
  <2>3. FlagsOK(c)' /\ PendingOK(c)'
    BY <1>1, <2>1, NothingPendingNext DEF FlagsOK, Locked
  <2>4. HandleOK(c)'
    BY <1>1, <1>2, <2>1 DEF HandleOK, EntryOf, PendingOK, MovedOK
  <2> QED BY <1>2, <1>4, <2>1, <2>2, <2>3, <2>4, QuietStore
<1>6. CASE /\ PobjUnreserve(cl[c].to)
           /\ cl' = [cl EXCEPT ![c].pc = "ready", ![c].to = Nil, ![c].failed = TRUE]
  <2>1. /\ Others(c) /\ cl'[c].pc = "ready" /\ cl'[c].name = cl[c].name /\ cl'[c].to = Nil
        /\ cl'[c].flags = cl[c].flags /\ cl'[c].lists = cl[c].lists /\ cl'[c].failed = TRUE
        /\ cl'[c].fh = cl[c].fh /\ cl'[c].spare = cl[c].spare
    BY <1>1, <1>6, StaleNameEffect
  <2>2. PobjInv'
    <3>1. Keeps(c)
      BY <1>2, <2>1 DEF Keeps, Unheld, Unnamed
    <3> QED BY <1>1, <1>3, <1>6, <2>1, <3>1, UnreserveName
  <2>3. FlagsOK(c)' /\ HandleOK(c)' /\ PendingOK(c)'
    BY <1>1, <2>1, NothingPendingNext DEF FlagsOK, HandleOK, Locked
  <2> QED BY <1>2, <1>4, <2>1, <2>2, <2>3, QuietStore
<1> QED BY <1>5, <1>6 DEF PobjRename

(* A step that does not touch the table of objects. *)
LEMMA PobjKept ==
  ASSUME PobjInv, NEW c \in Clients, Others(c), pobj' = pobj, cl'[c].to = cl[c].to,
         cl'[c].pc \in Unheld <=> cl[c].pc \in Unheld,
         cl'[c].spare = cl[c].spare \/ ~cl'[c].spare, cl'[c].lists \/ ~cl[c].lists \/ ~cl'[c].spare,
         cl'[c].pc \notin Unheld => /\ cl'[c].name = cl[c].name /\ cl'[c].lists = cl[c].lists
                                    /\ cl'[c].flags = cl[c].flags \/ cl'[c].flags = {}
                                    /\ cl'[c].spare = cl[c].spare \/ ~cl[c].lists
  PROVE  PobjInv'
<1>1. pobj' \in [Names -> Pobj] /\ (cl[c].spare => cl[c].lists)
  BY DEF PobjInv, SpareInv
<1>2. cl'[c].spare => cl'[c].lists
  BY <1>1
<1>3. \A n \in Names : (c \in ByName(n)' <=> c \in ByName(n)) /\ (c \in Spares(n)' <=> c \in Spares(n))
  BY <1>1 DEF ByName, Spares, Refers
<1>4. ~Exclusive({})
  BY DEF Exclusive
<1> QED BY <1>1, <1>2, <1>3, <1>4, PobjSame

(* Files grow, or lose what no entry refers to. *)
LEMMA IntactKept ==
  ASSUME StoreIntact, dir' = dir,
         \A i \in Used(dir) : dir[i].hash \in files[dir[i].file] => dir[i].hash \in files'[dir[i].file]
  PROVE  StoreIntact'
BY DEF StoreIntact, Used

(* A client keeps nothing but its reference to the object, and maybe a handle to close. *)
LEMMA LeavesStore ==
  ASSUME StoreInv, NEW c \in Clients, Others(c), dir' = dir, pobj' = pobj, owner \in {Nil, c},
         CountInv', StoreIntact', DirhInv',
         cl[c].pc \notin Unheld, cl[c].pc \notin {"renaming", "moving", "moved"},
         cl'[c].pc \in {"releasing", "closing", "corrupt"}, cl'[c].name = cl[c].name,
         cl'[c].to = Nil, cl'[c].flags = {}, cl'[c].lists = cl[c].lists,
         cl'[c].spare = cl[c].spare \/ (~cl'[c].spare /\ ~cl[c].lists)
  PROVE  StoreInv'
<1>1. PobjInv /\ Shape(c)
  BY Parts
<1>2. FlagsOK(c)' /\ HandleOK(c)' /\ PendingOK(c)'
  BY NothingPendingNext DEF FlagsOK, HandleOK, Locked
<1>3. cl[c].to = Nil /\ cl'[c].pc \notin Unheld
  BY <1>1 DEF Shape, Unheld, Unnamed
<1>4. PobjInv'
  BY <1>1, <1>3, PobjKept
<1> QED BY <1>2, <1>4, LockStore

(* The directory in memory is the one on disk, or is closed. *)
LEMMA PassDirh ==
  ASSUME StoreInv, owner = Nil, dir' = dir, dirh' = GetDirh \/ dirh' = Nil
  PROVE  DirhInv'
<1>1. PICK d \in Dirh : d = GetDirh /\ d # Nil /\ d.ents = dir /\ FilesOf(dir) \subseteq d.bits
  BY GetDirhIs
<1> QED BY <1>1 DEF DirhInv, FilesOf, Used

(* A file is opened, or found missing and the directory closed: objects and handles stay as they were. *)
LEMMA FsOpenStore ==
  ASSUME StoreInv, NEW c \in Clients, FsOpen(c)
  PROVE  StoreInv'
<1>1. CountInv /\ StoreType /\ PobjInv /\ Shape(c) /\ FlagsOK(c) /\ StoreIntact /\ dir \in Entries
  BY Parts
<1>2. /\ cl[c].pc \in {"opening", "looking"} /\ owner = Nil
      /\ dir' = dir /\ files' = files /\ owner' = owner /\ pobj' = pobj
  BY DEF FsOpen
<1>3. PICK d \in Dirh : d = GetDirh /\ d # Nil /\ d.ents = dir /\ FilesOf(dir) \subseteq d.bits
  BY <1>2, GetDirhIs
<1>4. CountInv'
  BY <1>1, FsOpenCount
<1>5. StoreIntact'
  BY <1>1, <1>2, IntactKept
<1>6. PICK i : i = Find(dir, cl[c].name)
  OBVIOUS
<1>7. CASE /\ i # -1
           /\ dirh' = d
           /\ cl' = [cl EXCEPT ![c].pc = IF @ = "opening" THEN "ready" ELSE "looked",
                               ![c].fh = [file |-> dir[i].file, idx |-> i, base |-> dir[i].hash]]
  <2>1. i \in Used(dir) /\ dir[i].name = cl[c].name
    BY <1>1, <1>6, <1>7, FindFinds
  <2>2. i \in Idx /\ i # -1 /\ dir[i] \in Entry /\ dir[i].file \in FileNumbers /\ dir[i].hash \in Roots
    BY <1>1, <2>1, EntryTypes
  <2>3a. PICK h : h = [file |-> dir[i].file, idx |-> i, base |-> dir[i].hash]
    OBVIOUS
  <2>3. /\ h \in Handle /\ h = [file |-> dir[i].file, idx |-> i, base |-> dir[i].hash]
        /\ h.file = dir[i].file /\ h.idx = i /\ h.base = dir[i].hash
    BY <2>2, <2>3a DEF Handle
  <2>4. PICK p \in Places : /\ p = (IF cl[c].pc = "opening" THEN "ready" ELSE "looked")
                            /\ cl' = [cl EXCEPT ![c].pc = p, ![c].fh = h]
    BY <1>1, <1>7, <2>3, ClientTypes DEF Places, StoreType, Client
  <2>5. /\ Others(c) /\ cl'[c].pc = p /\ cl'[c].name = cl[c].name /\ cl'[c].fh = h
        /\ cl'[c].lists = cl[c].lists /\ cl'[c].spare = cl[c].spare /\ cl'[c].to = cl[c].to /\ cl'[c].flags = cl[c].flags
        /\ cl'[c].failed = cl[c].failed
    BY <1>1, <2>3, <2>4, FileEffect
  <2>6. HandleOK(c)'
    <3>1. dir[i] = [name |-> dir[i].name, file |-> dir[i].file, hash |-> dir[i].hash]
      BY <2>2 DEF Entry
    <3> QED BY <1>2, <2>1, <2>3, <2>5, <3>1 DEF HandleOK, EntryOf
  <2>7. cl'[c].pc \in {"ready", "looked"} /\ (cl'[c].pc = "looked" => cl[c].pc = "looking")
    BY <1>2, <2>4, <2>5
  <2>8. FlagsOK(c)' /\ PendingOK(c)'
    BY <1>1, <2>5, <2>7, NothingPendingNext DEF FlagsOK, Locked
  <2>9. PobjInv'
    BY <1>1, <1>2, <2>5, <2>7, PobjKept DEF Unheld, Unnamed
  <2>10. DirhInv'
    BY <1>2, <1>3, <1>7 DEF DirhInv, FilesOf, Used
  <2> QED BY <1>2, <1>4, <1>5, <2>5, <2>6, <2>8, <2>9, <2>10, LockStore
<1>8. CASE PutDirh(d, refcount + 1, TRUE) /\ cl' = [cl EXCEPT ![c] = Done(c)]
  <2>1. /\ Others(c) /\ cl'[c].pc = "releasing" /\ cl'[c].name = cl[c].name /\ cl'[c].to = Nil
        /\ cl'[c].lists = cl[c].lists /\ cl'[c].spare = cl[c].spare /\ cl'[c].flags = {}
    BY <1>1, <1>8, DoneEffect
  <2>2. DirhInv'
    BY <1>8 DEF DirhInv, PutDirh
  <2> QED BY <1>2, <1>4, <1>5, <2>1, <2>2, LeavesStore DEF Unheld, Unnamed
<1>9. CASE PutDirh(d, refcount + 1, TRUE) /\ cl[c].pc = "opening" /\ cl' = [cl EXCEPT ![c] = Corrupt(c, Nil)]
  <2>1. PICK h \in Handle \cup {Nil} : cl' = [cl EXCEPT ![c] = Corrupt(c, h)]
    BY <1>9
  <2>2. /\ Others(c) /\ cl'[c].pc = "corrupt" /\ cl'[c].name = cl[c].name /\ cl'[c].to = Nil
        /\ cl'[c].lists = FALSE /\ cl'[c].spare = FALSE /\ cl'[c].flags = {}
    BY <1>1, <2>1, CorruptEffect
  <2>3. DirhInv'
    BY <1>9 DEF DirhInv, PutDirh
  <2>4. cl[c].lists = FALSE
    BY <1>1, <1>9, ClientTypes DEF Shape, Listing
  <2> QED BY <1>2, <1>4, <1>5, <2>2, <2>3, <2>4, LeavesStore DEF Unheld, Unnamed
<1> QED BY <1>3, <1>6, <1>7, <1>8, <1>9 DEF FsOpen

(* A file is closed: objects and handles stay as they were.                 *)
LEMMA FsCloseStore ==
  ASSUME StoreInv, NEW c \in Clients, FsClose(c)
  PROVE  StoreInv'
<1>1. CountInv /\ StoreType /\ PobjInv /\ Shape(c) /\ FlagsOK(c) /\ StoreIntact /\ DirhInv
  BY Parts
<1>2. /\ cl[c].pc \in {"ready", "created", "closing", "looked"} /\ owner = Nil
      /\ dir' = dir /\ files' = files /\ owner' = owner /\ pobj' = pobj
      /\ dirh' = dirh \/ dirh' = Nil
  BY DEF FsClose, PutDirh
<1>3. /\ Others(c) /\ cl'[c].pc = "releasing" /\ cl'[c].name = cl[c].name /\ cl'[c].to = Nil
      /\ cl'[c].lists = cl[c].lists /\ cl'[c].spare = cl[c].spare /\ cl'[c].flags = {}
  BY <1>1, DoneEffect DEF FsClose
<1>4. CountInv'
  BY <1>1, FsCloseCount
<1>5. StoreIntact'
  BY <1>1, <1>2, IntactKept
<1>6. DirhInv'
  BY <1>1, <1>2 DEF DirhInv, FilesOf, Used
<1> QED BY <1>2, <1>3, <1>4, <1>5, <1>6, LeavesStore DEF Unheld, Unnamed

(* A request gives up before it comes to the file system: objects and handles stay as they were. *)
LEMMA GivesUpStore ==
  ASSUME StoreInv, NEW c \in Clients, GivesUp(c)
  PROVE  StoreInv'
<1>1. CountInv /\ StoreType /\ PobjInv /\ Shape(c) /\ StoreIntact /\ DirhInv
  BY Parts
<1>2. /\ cl[c].pc \in {"opening", "creating"}
      /\ dir' = dir /\ files' = files /\ dirh' = dirh /\ owner' = owner /\ pobj' = pobj
  BY DEF GivesUp
<1>3. /\ Others(c) /\ cl'[c].pc = "releasing" /\ cl'[c].name = cl[c].name /\ cl'[c].to = Nil
      /\ cl'[c].lists = cl[c].lists /\ cl'[c].spare = cl[c].spare /\ cl'[c].flags = {}
  BY <1>1, DoneEffect DEF GivesUp
<1>4. CountInv'
  BY <1>1, GivesUpCount
<1>5. FlagsOK(c)' /\ HandleOK(c)' /\ PendingOK(c)'
  BY <1>3, NothingPendingNext DEF FlagsOK, HandleOK, Locked
<1>6. PobjInv'
  <2>1. cl[c].to = Nil
    BY <1>1, <1>2 DEF Shape
  <2> QED BY <1>1, <1>2, <1>3, <2>1, PobjKept DEF Unheld, Unnamed
<1> QED BY <1>2, <1>3, <1>4, <1>5, <1>6, QuietStore

(* A temporary file is made under the mutex: objects and handles stay as they were. *)
LEMMA CreateTmpStore ==
  ASSUME StoreInv, NEW c \in Clients, CreateTmp(c)
  PROVE  StoreInv'
<1>1. CountInv /\ StoreType /\ PobjInv /\ Shape(c) /\ FlagsOK(c) /\ StoreIntact /\ dir \in Entries
  BY Parts
<1>2. owner = Nil
  BY DEF CreateTmp
<1>3. PICK d \in Dirh : d = GetDirh /\ d # Nil /\ d.ents = dir /\ FilesOf(dir) \subseteq d.bits
  BY <1>2, GetDirhIs
<1>4. PICK f : f = GetTmp(d)
  OBVIOUS
<1>5. PICK h : h = [file |-> f, idx |-> -1, base |-> NewRoot(f)]
  OBVIOUS
<1>6. /\ cl[c].pc = "creating" /\ owner' = c /\ dir' = dir /\ pobj' = pobj
      /\ dirh' = [d EXCEPT !.bits = @ \cup {f}] /\ files' = [files EXCEPT ![f] = {}]
      /\ FileNumbers \ d.bits # {} /\ FreshRoots(f) # {}
      /\ cl' = [cl EXCEPT ![c].pc = "tmp", ![c].fh = h]
  BY <1>3, <1>4, <1>5 DEF CreateTmp
<1>7. f \in FileNumbers /\ f \notin d.bits /\ f \notin FilesOf(dir)
  BY <1>3, <1>4, <1>6, GetTmpFree
<1>8. NewRoot(f) \in Roots
  BY <1>6, <1>7, NewRootType
<1>9. h \in Handle /\ h.file = f
  BY <1>5, <1>7, <1>8 DEF Handle
<1>10. /\ Others(c) /\ cl'[c].pc = "tmp" /\ cl'[c].name = cl[c].name /\ cl'[c].fh = h
       /\ cl'[c].lists = cl[c].lists /\ cl'[c].spare = cl[c].spare /\ cl'[c].to = cl[c].to /\ cl'[c].flags = cl[c].flags
       /\ cl'[c].failed = cl[c].failed
  <2>1. PICK p \in Places : p = "tmp" /\ cl' = [cl EXCEPT ![c].pc = p, ![c].fh = h]
    BY <1>6 DEF Places
  <2> QED BY <1>1, <1>9, <2>1, FileEffect
<1>11. dirh'.ents = dir /\ dirh'.bits = d.bits \cup {f}
  BY <1>3, <1>6 DEF Dirh
<1>12. CountInv'
  BY <1>1, CreateTmpCount
<1>13. StoreIntact'
  <2>1. \A i \in Used(dir) : files'[dir[i].file] = files[dir[i].file]
    <3>1. \A i \in Used(dir) : dir[i].file # f /\ dir[i].file \in FileNumbers
      BY <1>1, <1>7, EntryTypes DEF FilesOf
    <3> QED BY <1>1, <1>6, <3>1 DEF StoreType
  <2> QED BY <1>1, <1>6, <2>1, IntactKept
<1>14. FlagsOK(c)' /\ HandleOK(c)'
  BY <1>1, <1>6, <1>10 DEF FlagsOK, HandleOK
<1>15. PendingOK(c)'
  <2>1. TmpOK(c)'
    BY <1>6, <1>7, <1>9, <1>10, <1>11 DEF TmpOK, FilesOf, Used
  <2> QED BY <1>6, <1>10, <1>11, <2>1 DEF PendingOK, NamingOK, UpdatingOK, MovingOK, MovedOK, RemovingOK, CommittedOK
<1>16. PobjInv'
  BY <1>1, <1>6, <1>10, PobjKept DEF Unheld, Unnamed
<1>17. DirhInv'
  <2>1. FilesOf(dirh.ents)' = FilesOf(dir)
    BY <1>11 DEF FilesOf, Used
  <2>2. owner' # Nil
    BY <1>6, ReeFsAssumption
  <2> QED BY <1>3, <1>11, <2>1, <2>2 DEF DirhInv
<1> QED BY <1>2, <1>6, <1>10, <1>12, <1>13, <1>14, <1>15, <1>16, <1>17, LockStore

(* The new file is named in memory: objects and handles stay as they were.  *)
LEMMA SetNameStore ==
  ASSUME ExclusiveUse, StoreInv, NEW c \in Clients, SetName(c)
  PROVE  StoreInv'
<1>1. /\ CountInv /\ StoreType /\ PobjInv /\ Shape(c) /\ FlagsOK(c) /\ PendingOK(c)
      /\ StoreIntact /\ DirhInv /\ dir \in Entries
  BY Parts
<1>2. cl[c].pc = "tmp" /\ cl[c].pc \in Locked
  BY DEF SetName, Locked
<1>3. /\ owner = c /\ owner # Nil /\ dirh \in Dirh /\ dirh # Nil /\ cl[c].fh # Nil
      /\ cl[c].fh.file \in FileNumbers /\ cl[c].fh.base \in Roots /\ cl[c].name \in Names
      /\ cl[c].fh \in Handle
  BY <1>1, <1>2, LockedDirh, ClientTypes DEF Shape, Unnamed
<1>4. dirh.ents = dir /\ cl[c].fh.file \notin FilesOf(dir) /\ cl[c].fh.file \in dirh.bits
  BY <1>1, <1>2 DEF PendingOK, TmpOK, CommittedOK
<1>5. PICK i \in Lookup(dir, cl[c].name), j \in Idx, f \in FileNumbers \cup {Nil} :
        SetNameAt(c, i, j, f)
  BY <1>1, <1>4, SetNameExpand
<1>6. /\ dir' = dir /\ owner' = owner /\ pobj' = pobj
      /\ files' = [files EXCEPT ![cl[c].fh.file] = @ \cup {cl[c].fh.base}]
  BY <1>1, SetNameExpand
<1>7. /\ Others(c) /\ cl'[c].pc = "naming" /\ cl'[c].name = cl[c].name
      /\ cl'[c].fh = [cl[c].fh EXCEPT !.idx = j] /\ cl'[c].old = f
      /\ cl'[c].lists = cl[c].lists /\ cl'[c].spare = cl[c].spare /\ cl'[c].to = cl[c].to /\ cl'[c].flags = cl[c].flags
      /\ cl'[c].failed = cl[c].failed
  <2>1. cl' = [cl EXCEPT ![c].pc = "naming", ![c].fh.idx = j, ![c].old = f]
    BY <1>5 DEF SetNameAt
  <2> QED BY <1>1, <1>3, <2>1, SetNameEffect
<1>8. cl'[c].fh.file = cl[c].fh.file /\ cl'[c].fh.base = cl[c].fh.base /\ cl'[c].fh.idx = j
  BY <1>3, <1>7 DEF Handle
<1>9. EntryOf(c) \in Entry /\ EntryOf(c)' = EntryOf(c) /\ EntryOf(c).file = cl[c].fh.file
  BY <1>3, <1>7, <1>8 DEF EntryOf, Entry
<1>10. dirh' \in Dirh /\ dirh'.ents = [dir EXCEPT ![j] = EntryOf(c)] /\ dirh'.bits = dirh.bits
  <2>1. PICK r \in Entry, d \in Dirh : r = EntryOf(c) /\ d = dirh /\ dirh' = [d EXCEPT !.ents[j] = r]
    BY <1>3, <1>5, <1>9 DEF SetNameAt
  <2>2. dirh' = [d EXCEPT !.ents[j] = r]
    BY <2>1
  <2>3. dirh' \in Dirh /\ dirh'.ents = [d.ents EXCEPT ![j] = r] /\ dirh'.bits = d.bits
    <3>1. j \in Idx /\ d \in Dirh /\ r \in Entry \cup {Nil}
      OBVIOUS
    <3>2. /\ [d EXCEPT !.ents[j] = r] \in Dirh
          /\ [d EXCEPT !.ents[j] = r].ents = [d.ents EXCEPT ![j] = r]
          /\ [d EXCEPT !.ents[j] = r].bits = d.bits
      BY <3>1, DirhUpdate, Zenon
    <3> QED BY <2>2, <3>2, Zenon
  <2> QED BY <1>4, <2>1, <2>3
<1>11. i = Find(dir, cl[c].name)
  BY <1>5 DEF Lookup, ExclusiveUse
<1>12. /\ \A k \in Used(dir) : dir[k].name = cl[c].name <=> k = j
       /\ f = IF dir[j] = Nil THEN Nil ELSE dir[j].file
  <2>1. CASE i = -1
    <3>1. \A k \in Used(dir) : dir[k].name # cl[c].name
      BY <1>1, <1>11, <2>1, FindFinds, EntryTypes
    <3>2. j \notin Used(dir) /\ f = Nil
      BY <1>4, <1>5, <1>11, <2>1 DEF SetNameAt
    <3> QED BY <3>1, <3>2 DEF Used
  <2>2. CASE i # -1
    <3>1. i \in Used(dir) /\ dir[i].name = cl[c].name
      BY <1>1, <1>11, <2>2, FindFinds
    <3>2. j = i /\ f = dir[i].file
      BY <1>4, <1>5, <2>2 DEF SetNameAt
    <3> QED BY <1>1, <3>1, <3>2 DEF StoreIntact, Used
  <2> QED BY <2>1, <2>2
<1>13. CountInv'
  BY <1>1, SetNameCount
<1>14. \A k \in FileNumbers : files[k] \subseteq files'[k]
  BY <1>1, <1>3, <1>6 DEF StoreType
<1>15. StoreIntact'
  <2>1. \A k \in Used(dir) : dir[k].file \in FileNumbers
    BY <1>1, EntryTypes
  <2> QED BY <1>1, <1>6, <1>14, <2>1, IntactKept
<1>16. FlagsOK(c)' /\ HandleOK(c)'
  BY <1>1, <1>2, <1>7 DEF FlagsOK, HandleOK
<1>17. PendingOK(c)'
  <2>1. TmpOK(c)'
    BY <1>4, <1>6, <1>7, <1>8, <1>10 DEF TmpOK, FilesOf, Used
  <2>2. cl[c].fh.base \in files'[cl[c].fh.file]
    BY <1>1, <1>3, <1>6 DEF StoreType
  <2>3. NamingOK(c)'
    BY <1>6, <1>7, <1>8, <1>9, <1>10, <1>12, <2>2 DEF NamingOK, Used
  <2> QED BY <1>7, <2>1, <2>3 DEF PendingOK, UpdatingOK, MovingOK, MovedOK, RemovingOK, CommittedOK
<1>18. PobjInv'
  BY <1>1, <1>2, <1>6, <1>7, PobjKept DEF Unheld, Unnamed
<1>19. DirhInv'
  <2>1. FilesOf(dir) \subseteq dirh.bits
    BY <1>1, <1>3, <1>4 DEF DirhInv
  <2>2. \A k \in Used([dir EXCEPT ![j] = EntryOf(c)]) :
          [dir EXCEPT ![j] = EntryOf(c)][k].file \in dirh.bits
    BY <1>1, <1>4, <1>9, <2>1 DEF Entries, Used, FilesOf
  <2>3. FilesOf([dir EXCEPT ![j] = EntryOf(c)]) \subseteq dirh.bits
    BY <2>2 DEF FilesOf
  <2>4. FilesOf(dirh.ents)' = FilesOf([dir EXCEPT ![j] = EntryOf(c)])
    BY <1>10 DEF FilesOf, Used
  <2> QED BY <1>3, <1>6, <1>10, <2>3, <2>4 DEF DirhInv
<1> QED BY <1>3, <1>6, <1>7, <1>13, <1>15, <1>16, <1>17, <1>18, <1>19, LockStore

(* A file that no entry refers to is emptied. *)
LEMMA IntactEmptied ==
  ASSUME StoreIntact, dir \in Entries, dir' = dir, files \in [FileNumbers -> SUBSET Roots],
         NEW f, f \notin FilesOf(dir), files' = [files EXCEPT ![f] = {}]
  PROVE  StoreIntact'
<1>1. \A i \in Used(dir) : dir[i].file # f /\ dir[i].file \in FileNumbers
  BY EntryTypes DEF FilesOf
<1>2. \A i \in Used(dir) : files'[dir[i].file] = files[dir[i].file]
  BY <1>1
<1> QED BY <1>2, IntactKept

(* A creation is undone: objects and handles stay as they were.             *)
LEMMA CreateFailsStore ==
  ASSUME StoreInv, NEW c \in Clients, CreateFails(c)
  PROVE  StoreInv'
<1>1. /\ CountInv /\ StoreType /\ PobjInv /\ Shape(c) /\ PendingOK(c) /\ StoreIntact /\ dir \in Entries
  BY Parts
<1>2. /\ cl[c].pc \in {"tmp", "naming"} /\ cl[c].pc \in Locked /\ dir' = dir /\ pobj' = pobj /\ dirh' = Nil
      /\ files' = [files EXCEPT ![cl[c].fh.file] = {}]
  BY DEF CreateFails, PutDirh, Locked
<1>3. owner = c
  BY <1>1, <1>2, LockedDirh
<1>4. CountInv'
  BY <1>1, CreateFailsCount
<1>5. StoreIntact'
  <2>1. cl[c].fh.file \notin FilesOf(dir)
    BY <1>1, <1>2 DEF PendingOK, TmpOK
  <2> QED BY <1>1, <1>2, <2>1, IntactEmptied DEF StoreType
<1>6. DirhInv'
  BY <1>2 DEF DirhInv
<1>7. CASE cl' = [cl EXCEPT ![c] = Done(c)]
  <2>1. /\ Others(c) /\ cl'[c].pc = "releasing" /\ cl'[c].name = cl[c].name /\ cl'[c].to = Nil
        /\ cl'[c].lists = cl[c].lists /\ cl'[c].spare = cl[c].spare /\ cl'[c].flags = {}
    BY <1>1, <1>7, DoneEffect
  <2> QED BY <1>2, <1>3, <1>4, <1>5, <1>6, <2>1, LeavesStore DEF Unheld, Unnamed
<1>8. CASE cl' = [cl EXCEPT ![c] = Corrupt(c, Nil)]
  <2>1. PICK h \in Handle \cup {Nil} : cl' = [cl EXCEPT ![c] = Corrupt(c, h)]
    BY <1>8
  <2>2. /\ Others(c) /\ cl'[c].pc = "corrupt" /\ cl'[c].name = cl[c].name /\ cl'[c].to = Nil
        /\ cl'[c].lists = FALSE /\ cl'[c].spare = FALSE /\ cl'[c].flags = {}
    BY <1>1, <2>1, CorruptEffect
  <2>3. cl[c].lists = FALSE
    BY <1>1, <1>2, ClientTypes DEF Shape, Listing
  <2> QED BY <1>2, <1>3, <1>4, <1>5, <1>6, <2>2, <2>3, LeavesStore DEF Unheld, Unnamed
<1> QED BY <1>7, <1>8 DEF CreateFails

(* A replaced file is removed: objects and handles stay as they were.       *)
LEMMA RemoveOldStore ==
  ASSUME StoreInv, NEW c \in Clients, RemoveOld(c)
  PROVE  StoreInv'
<1>1. /\ CountInv /\ StoreType /\ PobjInv /\ Shape(c) /\ FlagsOK(c) /\ HandleOK(c) /\ PendingOK(c)
      /\ StoreIntact /\ DirhInv /\ dir \in Entries
  BY Parts
<1>2. /\ cl[c].pc = "named" /\ cl[c].pc \in Locked /\ dir' = dir /\ pobj' = pobj /\ dirh' = dirh
      /\ files' = IF cl[c].old = Nil THEN files ELSE [files EXCEPT ![cl[c].old] = {}]
  BY DEF RemoveOld, Locked
<1>3. owner = c
  BY <1>1, <1>2, LockedDirh
<1>4. /\ Others(c) /\ cl'[c].pc = "created" /\ cl'[c].name = cl[c].name /\ cl'[c].to = cl[c].to
      /\ cl'[c].lists = cl[c].lists /\ cl'[c].spare = cl[c].spare /\ cl'[c].flags = cl[c].flags /\ cl'[c].failed = cl[c].failed
      /\ cl'[c].fh = cl[c].fh
  BY <1>1, GotoEffect DEF RemoveOld, Places
<1>5. CountInv'
  BY <1>1, RemoveOldCount
<1>6. dirh.ents = dir /\ cl[c].old \notin FilesOf(dir)
  BY <1>1, <1>2 DEF PendingOK, CommittedOK
<1>7. StoreIntact'
  <2>1. CASE cl[c].old = Nil
    BY <1>1, <1>2, <2>1, IntactKept
  <2>2. CASE cl[c].old # Nil
    BY <1>1, <1>2, <1>6, <2>2, IntactEmptied DEF StoreType
  <2> QED BY <2>1, <2>2
<1>8. FlagsOK(c)' /\ PendingOK(c)'
  BY <1>1, <1>2, <1>4, NothingPendingNext DEF FlagsOK, Locked
<1>9. HandleOK(c)'
  BY <1>1, <1>2, <1>4 DEF HandleOK, EntryOf, Gone, Used
<1>10. PobjInv'
  BY <1>1, <1>2, <1>4, PobjKept DEF Unheld, Unnamed
<1>11. DirhInv'
  BY <1>1, <1>2, <1>6 DEF DirhInv, FilesOf, Used
<1> QED BY <1>2, <1>3, <1>4, <1>5, <1>7, <1>8, <1>9, <1>10, <1>11, LockStore

(* A read fails and closes the tree of its handle: objects and handles stay as they were. *)
LEMMA ReadFailsStore ==
  ASSUME StoreInv, NEW c \in Clients, ReadFails(c)
  PROVE  StoreInv'
<1>1. CountInv /\ StoreType /\ PobjInv /\ FlagsOK(c)
  BY Parts
<1>2. /\ cl[c].pc = "ready" /\ dir' = dir /\ files' = files /\ dirh' = dirh /\ owner' = owner /\ pobj' = pobj
  BY DEF ReadFails
<1>3. /\ Others(c) /\ cl'[c].pc = "ready" /\ cl'[c].name = cl[c].name /\ cl'[c].to = cl[c].to
      /\ cl'[c].lists = cl[c].lists /\ cl'[c].spare = cl[c].spare /\ cl'[c].flags = cl[c].flags
      /\ cl'[c].failed = TRUE
  BY <1>1, <1>2, CloseTreeEffect DEF ReadFails
<1>4. CountInv'
  BY <1>1, ReadFailsCount
<1>5. FlagsOK(c)' /\ HandleOK(c)' /\ PendingOK(c)'
  BY <1>1, <1>3, NothingPendingNext DEF FlagsOK, HandleOK, Locked
<1>6. PobjInv'
  BY <1>1, <1>2, <1>3, PobjKept DEF Unheld, Unnamed
<1> QED BY <1>2, <1>3, <1>4, <1>5, <1>6, QuietStore

(* A tree is found closed, and its object taken for corrupt: objects and handles stay as they were. *)
LEMMA FindsClosedStore ==
  ASSUME StoreInv, NEW c \in Clients, FindsClosed(c)
  PROVE  StoreInv'
<1>1. CountInv /\ StoreType /\ PobjInv /\ Shape(c) /\ StoreIntact /\ DirhInv
  BY Parts
<1>2. /\ cl[c].pc = "ready" /\ owner = Nil /\ dir' = dir /\ files' = files /\ owner' = owner /\ pobj' = pobj
      /\ dirh' = dirh \/ dirh' = Nil
  BY DEF FindsClosed, PutDirh
<1>3. PICK h \in Handle \cup {Nil} : cl' = [cl EXCEPT ![c] = Corrupt(c, h)]
  BY <1>1, ClientTypes DEF FindsClosed
<1>4. /\ Others(c) /\ cl'[c].pc = "corrupt" /\ cl'[c].name = cl[c].name /\ cl'[c].to = Nil
      /\ cl'[c].lists = FALSE /\ cl'[c].spare = FALSE /\ cl'[c].flags = {}
  BY <1>1, <1>3, CorruptEffect
<1>5. CountInv'
  BY <1>1, FindsClosedCount
<1>6. StoreIntact'
  BY <1>1, <1>2, IntactKept
<1>7. DirhInv'
  BY <1>1, <1>2 DEF DirhInv, FilesOf, Used
<1>8. cl[c].lists = FALSE
  BY <1>1, <1>2, ClientTypes DEF Shape, Listing
<1> QED BY <1>2, <1>4, <1>5, <1>6, <1>7, <1>8, LeavesStore DEF Unheld, Unnamed

(* A write takes the mutex and overwrites free blocks: objects and handles stay as they were. *)
LEMMA WriteBlocksStore ==
  ASSUME ExclusiveUse, StoreInv, NEW c \in Clients, WriteBlocks(c)
  PROVE  StoreInv'
<1>1. /\ CountInv /\ StoreType /\ PobjInv /\ Shape(c) /\ FlagsOK(c) /\ HandleOK(c)
      /\ StoreIntact /\ dir \in Entries
  BY Parts
<1>2. /\ cl[c].pc = "ready" /\ "W" \in cl[c].flags /\ ~cl[c].failed /\ owner = Nil /\ owner' = c
      /\ dir' = dir /\ pobj' = pobj /\ dirh' = GetDirh
      /\ files' = [files EXCEPT ![cl[c].fh.file] = @ \cap {cl[c].fh.base}]
  BY DEF WriteBlocks, ExclusiveUse
<1>3. PICK d \in Dirh : d = GetDirh /\ d # Nil /\ d.ents = dir /\ FilesOf(dir) \subseteq d.bits
  BY <1>2, GetDirhIs
<1>4. /\ Others(c) /\ cl'[c].pc = "writing" /\ cl'[c].name = cl[c].name /\ cl'[c].to = cl[c].to
      /\ cl'[c].lists = cl[c].lists /\ cl'[c].spare = cl[c].spare /\ cl'[c].flags = cl[c].flags /\ cl'[c].failed = cl[c].failed
      /\ cl'[c].fh = cl[c].fh
  BY <1>1, GotoEffect DEF WriteBlocks, Places
<1>5. CountInv'
  BY <1>1, WriteBlocksCount
<1>6. dir[cl[c].fh.idx] = EntryOf(c) /\ cl[c].fh # Nil /\ cl[c].fh.idx \in Idx /\ cl[c].fh.file \in FileNumbers
      /\ cl[c].name \in Names /\ cl[c].fh.base \in Roots
  BY <1>1, <1>2, ClientTypes DEF HandleOK, Gone, FlagsOK, Shape, HasFile, MayHaveFile, Unnamed
<1>7. EntryOf(c) # Nil /\ EntryOf(c).file = cl[c].fh.file /\ EntryOf(c).hash = cl[c].fh.base
  BY <1>6, ReeFsAssumption DEF EntryOf, Entry
<1>8. StoreIntact'
  <2>1. ASSUME NEW i \in Used(dir), dir[i].hash \in files[dir[i].file]
        PROVE  dir[i].hash \in files'[dir[i].file]
    <3>1. dir[i].file \in FileNumbers
      BY <1>1, EntryTypes
    <3>2. CASE dir[i].file # cl[c].fh.file
      BY <1>1, <1>2, <2>1, <3>1, <3>2 DEF StoreType
    <3>3. CASE dir[i].file = cl[c].fh.file
      <4>1. i = cl[c].fh.idx
        BY <1>1, <1>6, <1>7, <3>3 DEF StoreIntact, Used
      <4> QED BY <1>1, <1>2, <1>6, <1>7, <2>1, <3>3, <4>1 DEF StoreType
    <3> QED BY <3>2, <3>3
  <2> QED BY <1>1, <1>2, <2>1, IntactKept
<1>9. FlagsOK(c)'
  BY <1>1, <1>2, <1>4 DEF FlagsOK
<1>10. HandleOK(c)'
  BY <1>2, <1>4, <1>6 DEF HandleOK, EntryOf
<1>11. PendingOK(c)'
  BY <1>2, <1>3, <1>4 DEF PendingOK, TmpOK, NamingOK, UpdatingOK, MovingOK, MovedOK, RemovingOK, CommittedOK
<1>12. PobjInv'
  BY <1>1, <1>2, <1>4, PobjKept DEF Unheld, Unnamed
<1>13. DirhInv'
  <2>1. FilesOf(dirh.ents)' = FilesOf(dir)
    BY <1>2, <1>3 DEF FilesOf, Used
  <2>2. owner' # Nil
    BY <1>2, ReeFsAssumption
  <2> QED BY <1>2, <1>3, <2>1, <2>2 DEF DirhInv
<1> QED BY <1>2, <1>4, <1>5, <1>8, <1>9, <1>10, <1>11, <1>12, <1>13, LockStore

(* A write has a new root: objects and handles stay as they were.           *)
LEMMA WriteSyncStore ==
  ASSUME StoreInv, NEW c \in Clients, WriteSync(c)
  PROVE  StoreInv'
<1>1. /\ CountInv /\ StoreType /\ PobjInv /\ Shape(c) /\ FlagsOK(c) /\ HandleOK(c) /\ PendingOK(c)
      /\ StoreIntact /\ DirhInv /\ dir \in Entries
  BY Parts
<1>2. PICK r : r = NewRoot(cl[c].fh.file)
  OBVIOUS
<1>3. /\ cl[c].pc = "writing" /\ cl[c].pc \in Locked /\ ~cl[c].failed
      /\ dir' = dir /\ owner' = owner /\ pobj' = pobj
      /\ FreshRoots(cl[c].fh.file) # {}
      /\ files' = [files EXCEPT ![cl[c].fh.file] = @ \cup {r}]
      /\ dirh' = [dirh EXCEPT !.ents = UpdateHash(@, cl[c].fh.idx, r)]
      /\ cl' = [cl EXCEPT ![c].pc = "updating", ![c].fh.base = r]
  BY <1>1, <1>2 DEF WriteSync, Locked, FlagsOK
<1>4. /\ owner = c /\ owner # Nil /\ cl[c].fh # Nil /\ cl[c].fh \in Handle /\ dirh \in Dirh /\ dirh # Nil
  BY <1>1, <1>3, LockedDirh
<1>5. cl[c].fh.file \in FileNumbers /\ cl[c].fh.idx \in Idx /\ cl[c].name \in Names /\ cl[c].fh.base \in Roots
  BY <1>1, <1>3, <1>4, ClientTypes DEF Shape, HasFile, MayHaveFile, Unnamed
<1>6. r \in Roots
  BY <1>2, <1>3, <1>5, NewRootType
<1>7. dirh.ents = dir /\ dir[cl[c].fh.idx] = EntryOf(c)
  BY <1>1, <1>3 DEF PendingOK, CommittedOK, HandleOK, Gone, FlagsOK
<1>8. /\ Others(c) /\ cl'[c].pc = "updating" /\ cl'[c].name = cl[c].name
      /\ cl'[c].fh = [cl[c].fh EXCEPT !.base = r]
      /\ cl'[c].lists = cl[c].lists /\ cl'[c].spare = cl[c].spare /\ cl'[c].to = cl[c].to /\ cl'[c].flags = cl[c].flags
      /\ cl'[c].failed = cl[c].failed
  BY <1>1, <1>3, <1>4, <1>6, WriteSyncEffect
<1>9. cl'[c].fh.file = cl[c].fh.file /\ cl'[c].fh.idx = cl[c].fh.idx /\ cl'[c].fh.base = r
  BY <1>4, <1>8 DEF Handle
<1>10. /\ EntryOf(c) # Nil /\ EntryOf(c) \in Entry
       /\ EntryOf(c).name = cl[c].name /\ EntryOf(c).file = cl[c].fh.file
  <2>1. EntryOf(c) \in Entry
    BY <1>5 DEF EntryOf, Entry
  <2> QED BY <2>1, ReeFsAssumption DEF EntryOf
<1>11. EntryOf(c)' = [EntryOf(c) EXCEPT !.hash = r] /\ EntryOf(c)'.file = cl[c].fh.file
  BY <1>8, <1>9 DEF EntryOf
<1>12. dirh'.ents = [dir EXCEPT ![cl[c].fh.idx] = EntryOf(c)'] /\ dirh'.bits = dirh.bits
  <2>1. dirh'.ents = UpdateHash(dir, cl[c].fh.idx, r) /\ dirh'.bits = dirh.bits
    BY <1>3, <1>4, <1>7 DEF Dirh
  <2>2. UpdateHash(dir, cl[c].fh.idx, r) = [dir EXCEPT ![cl[c].fh.idx] = EntryOf(c)']
    BY <1>7, <1>10, <1>11 DEF UpdateHash
  <2> QED BY <2>1, <2>2
<1>13. CountInv'
  BY <1>1, WriteSyncCount
<1>14. StoreIntact'
  <2>1. \A k \in FileNumbers : files[k] \subseteq files'[k]
    BY <1>1, <1>3, <1>5 DEF StoreType
  <2>2. \A k \in Used(dir) : dir[k].file \in FileNumbers
    BY <1>1, EntryTypes
  <2> QED BY <1>1, <1>3, <2>1, <2>2, IntactKept
<1>15. FlagsOK(c)' /\ HandleOK(c)'
  BY <1>1, <1>3, <1>8 DEF FlagsOK, HandleOK
<1>16. PendingOK(c)'
  <2>1. r \in files'[cl[c].fh.file]
    BY <1>1, <1>3, <1>5 DEF StoreType
  <2>2. UpdatingOK(c)'
    <3>1. /\ dir'[cl'[c].fh.idx] # Nil /\ dir'[cl'[c].fh.idx].name = cl'[c].name
          /\ dir'[cl'[c].fh.idx].file = cl'[c].fh.file
      BY <1>3, <1>7, <1>8, <1>9, <1>10
    <3>2. dirh'.ents = [dir' EXCEPT ![cl'[c].fh.idx] = EntryOf(c)']
      BY <1>3, <1>9, <1>12
    <3>3. cl'[c].fh.base \in files'[cl'[c].fh.file]
      BY <1>9, <2>1
    <3> QED BY <3>1, <3>2, <3>3 DEF UpdatingOK
  <2> QED BY <1>8, <2>2 DEF PendingOK, TmpOK, NamingOK, MovingOK, MovedOK, RemovingOK, CommittedOK
<1>17. PobjInv'
  BY <1>1, <1>3, <1>8, PobjKept DEF Unheld, Unnamed
<1>18. DirhInv'
  <2>1. FilesOf(dir) \subseteq dirh.bits /\ cl[c].fh.file \in FilesOf(dir)
    BY <1>1, <1>4, <1>5, <1>7, <1>10 DEF DirhInv, FilesOf, Used
  <2>2. PICK q : q = EntryOf(c)' /\ q.file = cl[c].fh.file
    BY <1>11
  <2>3. \A k \in Used([dir EXCEPT ![cl[c].fh.idx] = q]) :
          [dir EXCEPT ![cl[c].fh.idx] = q][k].file \in dirh.bits
    BY <1>1, <1>5, <2>1, <2>2 DEF Entries, Used, FilesOf
  <2>4. FilesOf([dir EXCEPT ![cl[c].fh.idx] = q]) \subseteq dirh.bits
    BY <2>3 DEF FilesOf
  <2>5. FilesOf(dirh.ents)' = FilesOf([dir EXCEPT ![cl[c].fh.idx] = q])
    BY <1>12, <2>2 DEF FilesOf, Used
  <2> QED BY <1>3, <1>4, <1>12, <2>4, <2>5 DEF DirhInv
<1>19. Others(c) /\ dir' = dir /\ owner = c
  BY <1>3, <1>4, <1>8
<1> QED BY <1>13, <1>14, <1>15, <1>16, <1>17, <1>18, <1>19, LockStore

(* An entry gets its new name in memory: objects and handles stay as they were. *)
LEMMA FsRenameStore ==
  ASSUME ExclusiveUse, StoreInv, NEW c \in Clients, FsRename(c)
  PROVE  StoreInv'
<1>1. /\ CountInv /\ StoreType /\ PobjInv /\ Shape(c) /\ FlagsOK(c) /\ HandleOK(c)
      /\ StoreIntact /\ dir \in Entries
  BY Parts
<1>2. /\ cl[c].pc = "renaming" /\ owner = Nil /\ owner' = c /\ dir' = dir /\ files' = files /\ pobj' = pobj
  BY DEF FsRename
<1>3. cl[c].to \in Names /\ cl[c].name \in Names
  BY <1>2, MovesAlone
<1>4. GetDirh.ents = dir /\ FilesOf(dir) \subseteq GetDirh.bits
  BY <1>2, GetDirhIs
<1>5. PICK i \in Used(dir) :
        /\ dir[i].name = cl[c].name
        /\ dirh'.ents = [dir EXCEPT ![i] = [dir[i] EXCEPT !.name = cl[c].to]]
        /\ dirh'.bits = GetDirh.bits
  BY <1>1, <1>3, <1>4, FsRenameExpand
<1>6. \A k \in Used(dir) : dir[k].name # cl[c].to
  <2>1. -1 \in Lookup(dir, cl[c].to)
    BY <1>4 DEF FsRename
  <2>2. Find(dir, cl[c].to) = -1
    BY <2>1 DEF Lookup, ExclusiveUse
  <2> QED BY <1>1, <2>2, FindFinds, EntryTypes
<1>7. /\ Others(c) /\ cl'[c].pc = "moving" /\ cl'[c].name = cl[c].name /\ cl'[c].to = cl[c].to
      /\ cl'[c].lists = cl[c].lists /\ cl'[c].spare = cl[c].spare /\ cl'[c].flags = cl[c].flags /\ cl'[c].failed = cl[c].failed
      /\ cl'[c].fh = cl[c].fh
  BY <1>1, GotoEffect DEF FsRename, Places
<1>8. CountInv'
  BY <1>1, FsRenameCount
<1>9. StoreIntact'
  BY <1>1, <1>2, IntactKept
<1>10. FlagsOK(c)'
  BY <1>1, <1>2, <1>7 DEF FlagsOK
<1>11. HandleOK(c)'
  BY <1>1, <1>2, <1>7 DEF HandleOK, EntryOf, Gone, Used
<1>12. PendingOK(c)'
  <2>1. MovingOK(c)'
    <3>1. Used(dir)' = Used(dir)
      BY <1>2 DEF Used
    <3> QED BY <1>2, <1>5, <1>6, <1>7, <3>1 DEF MovingOK
  <2> QED BY <1>7, <2>1 DEF PendingOK, TmpOK, NamingOK, UpdatingOK, MovedOK, RemovingOK, CommittedOK
<1>13. PobjInv'
  BY <1>1, <1>2, <1>7, PobjKept DEF Unheld, Unnamed
<1>14. DirhInv'
  <2>1. PICK q : q = [dir[i] EXCEPT !.name = cl[c].to]
    OBVIOUS
  <2>2. i \in Idx /\ dir[i] \in Entry
    BY <1>1, EntryTypes
  <2>3. q.file = dir[i].file
    BY <2>1, <2>2 DEF Entry
  <2>4. \A k \in Used([dir EXCEPT ![i] = q]) : [dir EXCEPT ![i] = q][k].file \in GetDirh.bits
    BY <1>1, <1>4, <2>2, <2>3 DEF Entries, Used, FilesOf
  <2>5. FilesOf([dir EXCEPT ![i] = q]) \subseteq GetDirh.bits
    BY <2>4 DEF FilesOf
  <2>6. FilesOf(dirh.ents)' = FilesOf([dir EXCEPT ![i] = q])
    BY <1>5, <2>1 DEF FilesOf, Used
  <2>7. owner' # Nil
    BY <1>2, ReeFsAssumption
  <2> QED BY <1>5, <2>5, <2>6, <2>7 DEF DirhInv
<1> QED BY <1>2, <1>7, <1>8, <1>9, <1>10, <1>11, <1>12, <1>13, <1>14, LockStore

(* A rename is refused: objects and handles stay as they were.              *)
LEMMA FsRenameFailsStore ==
  ASSUME StoreInv, NEW c \in Clients, FsRenameFails(c)
  PROVE  StoreInv'
<1>1. /\ CountInv /\ StoreType /\ PobjInv /\ Shape(c) /\ FlagsOK(c) /\ HandleOK(c) /\ StoreIntact
  BY Parts
<1>2. /\ cl[c].pc = "renaming" /\ owner = Nil /\ dir' = dir /\ files' = files /\ dirh' = Nil
      /\ PobjUnreserve(cl[c].to)
  BY DEF FsRenameFails, PutDirh
<1>3. cl[c].to \in Names
  BY <1>2, MovesAlone
<1>4. /\ Others(c) /\ cl'[c].pc = "ready" /\ cl'[c].name = cl[c].name /\ cl'[c].to = Nil
      /\ cl'[c].lists = cl[c].lists /\ cl'[c].spare = cl[c].spare /\ cl'[c].flags = cl[c].flags /\ cl'[c].failed = cl[c].failed
      /\ cl'[c].fh = cl[c].fh
  BY <1>1, UnreserveEffect DEF FsRenameFails
<1>5. CountInv'
  BY <1>1, FsRenameFailsCount
<1>6. StoreIntact' /\ DirhInv'
  BY <1>1, <1>2, IntactKept DEF DirhInv
<1>7. FlagsOK(c)' /\ PendingOK(c)'
  BY <1>1, <1>2, <1>4, NothingPendingNext DEF FlagsOK, Locked
<1>8. HandleOK(c)'
  BY <1>1, <1>2, <1>4 DEF HandleOK, EntryOf, Gone, Used
<1>9. PobjInv'
  <2>1. Keeps(c)
    BY <1>2, <1>4 DEF Keeps, Unheld, Unnamed
  <2> QED BY <1>1, <1>2, <1>3, <1>4, <2>1, UnreserveName
<1> QED BY <1>2, <1>4, <1>5, <1>6, <1>7, <1>8, <1>9, LockStore

(* An entry is freed in memory: objects and handles stay as they were.      *)
LEMMA FsRemoveStore ==
  ASSUME StoreInv, NEW c \in Clients, FsRemove(c)
  PROVE  StoreInv'
<1>1. /\ CountInv /\ StoreType /\ PobjInv /\ Shape(c) /\ FlagsOK(c) /\ StoreIntact /\ dir \in Entries
  BY Parts
<1>2. /\ cl[c].pc \in {"ready", "corrupt"} /\ owner = Nil /\ owner' = c
      /\ dir' = dir /\ files' = files /\ pobj' = pobj
  BY DEF FsRemove, Removes
<1>3. GetDirh.ents = dir /\ FilesOf(dir) \subseteq GetDirh.bits
  BY <1>2, GetDirhIs
<1>4a. PICK d \in Dirh :
         /\ d = GetDirh
         /\ \E i \in Used(d.ents) :
              /\ d.ents[i].name = cl[c].name
              /\ dirh' \in Dirh /\ dirh' # Nil
              /\ dirh'.ents = [d.ents EXCEPT ![i] = Nil]
              /\ dirh'.bits = d.bits \ {d.ents[i].file}
              /\ d.ents[i].file \in FileNumbers
              /\ cl' = [cl EXCEPT ![c].pc = "removing", ![c].old = d.ents[i].file]
  BY <1>1, FsRemoveExpand
<1>4b. d.ents = dir /\ d.bits = GetDirh.bits
  BY <1>3, <1>4a
<1>4c. PICK i \in Used(d.ents) :
         /\ d.ents[i].name = cl[c].name
         /\ dirh'.ents = [d.ents EXCEPT ![i] = Nil]
         /\ dirh'.bits = d.bits \ {d.ents[i].file}
         /\ d.ents[i].file \in FileNumbers
         /\ cl' = [cl EXCEPT ![c].pc = "removing", ![c].old = d.ents[i].file]
  BY <1>4a
<1>4. /\ i \in Used(dir) /\ dir[i].name = cl[c].name
      /\ dirh'.ents = [dir EXCEPT ![i] = Nil]
      /\ dirh'.bits = GetDirh.bits \ {dir[i].file}
      /\ dir[i].file \in FileNumbers
      /\ cl' = [cl EXCEPT ![c].pc = "removing", ![c].old = dir[i].file]
  BY <1>4b, <1>4c
<1>5. PICK f \in FileNumbers : f = dir[i].file /\ cl' = [cl EXCEPT ![c].pc = "removing", ![c].old = f]
  BY <1>4
<1>6. /\ Others(c) /\ cl'[c].pc = "removing" /\ cl'[c].name = cl[c].name /\ cl'[c].to = cl[c].to
      /\ cl'[c].lists = cl[c].lists /\ cl'[c].spare = cl[c].spare /\ cl'[c].flags = cl[c].flags /\ cl'[c].failed = cl[c].failed
      /\ cl'[c].old = f
  BY <1>1, <1>5, FsRemoveEffect
<1>7. CountInv'
  BY <1>1, FsRemoveCount
<1>8. StoreIntact'
  BY <1>1, <1>2, IntactKept
<1>9. FlagsOK(c)' /\ HandleOK(c)'
  BY <1>1, <1>2, <1>6 DEF FlagsOK, HandleOK
<1>10. PendingOK(c)'
  <2>1. RemovingOK(c)'
    <3>1. Used(dir)' = Used(dir)
      BY <1>2 DEF Used
    <3>2. dirh'.ents = [dir EXCEPT ![i] = Nil] /\ dir[i].name = cl[c].name /\ i \in Used(dir)
      BY <1>4
    <3> QED BY <1>2, <1>5, <1>6, <3>1, <3>2 DEF RemovingOK
  <2> QED BY <1>6, <2>1 DEF PendingOK, TmpOK, NamingOK, UpdatingOK, MovingOK, MovedOK, CommittedOK
<1>11. PobjInv'
  BY <1>1, <1>2, <1>6, PobjKept DEF Unheld, Unnamed
<1>12. DirhInv'
  <2>1. \A k \in Used([dir EXCEPT ![i] = Nil]) :
          k \in Used(dir) /\ k # i /\ [dir EXCEPT ![i] = Nil][k] = dir[k]
    BY <1>1, <1>4 DEF Entries, Used
  <2>2. \A k \in Used([dir EXCEPT ![i] = Nil]) :
          [dir EXCEPT ![i] = Nil][k].file \in GetDirh.bits \ {dir[i].file}
    <3> SUFFICES ASSUME NEW k \in Used([dir EXCEPT ![i] = Nil])
                 PROVE  [dir EXCEPT ![i] = Nil][k].file \in GetDirh.bits \ {dir[i].file}
      OBVIOUS
    <3>1. k \in Used(dir) /\ k # i /\ [dir EXCEPT ![i] = Nil][k] = dir[k] /\ i \in Used(dir)
      BY <1>4, <2>1
    <3>2. dir[k].file # dir[i].file
      BY <1>1, <3>1 DEF StoreIntact
    <3>3. dir[k].file \in GetDirh.bits
      BY <1>3, <3>1 DEF FilesOf
    <3> QED BY <3>1, <3>2, <3>3
  <2>3. FilesOf([dir EXCEPT ![i] = Nil]) \subseteq GetDirh.bits \ {dir[i].file}
    BY <2>2 DEF FilesOf
  <2>4. dirh'.ents = [dir EXCEPT ![i] = Nil] /\ dirh'.bits = GetDirh.bits \ {dir[i].file}
    BY <1>4
  <2>5. FilesOf(dirh.ents)' = FilesOf([dir EXCEPT ![i] = Nil])
    BY <2>4 DEF FilesOf, Used
  <2>6. owner' # Nil
    BY <1>2, ReeFsAssumption
  <2> QED BY <2>3, <2>4, <2>5, <2>6 DEF DirhInv
<1> QED BY <1>2, <1>6, <1>7, <1>8, <1>9, <1>10, <1>11, <1>12, LockStore

(* The file of a freed entry is removed: objects and handles stay as they were. *)
LEMMA RemoveFileStore ==
  ASSUME StoreInv, NEW c \in Clients, RemoveFile(c)
  PROVE  StoreInv'
<1>1. /\ CountInv /\ StoreType /\ PobjInv /\ Shape(c) /\ FlagsOK(c) /\ PendingOK(c)
      /\ StoreIntact /\ DirhInv /\ dir \in Entries
  BY Parts
<1>2. /\ cl[c].pc = "removed" /\ cl[c].pc \in Locked /\ dir' = dir /\ pobj' = pobj
      /\ dirh' = dirh \/ dirh' = Nil
      /\ files' = [files EXCEPT ![cl[c].old] = {}]
  BY DEF RemoveFile, PutDirh, Locked
<1>3. owner = c /\ ~cl[c].lists /\ cl[c].to = Nil
  BY <1>1, <1>2, LockedDirh DEF Shape, Listing
<1>4. /\ Others(c) /\ cl'[c].pc \in {"releasing", "closing"} /\ cl'[c].name = cl[c].name
      /\ cl'[c].to = Nil /\ cl'[c].lists = FALSE /\ cl'[c].spare = FALSE /\ cl'[c].flags = {}
  BY <1>1, ClosingEffect DEF RemoveFile
<1>5. CountInv'
  BY <1>1, RemoveFileCount
<1>6. dirh.ents = dir /\ cl[c].old \notin FilesOf(dir)
  BY <1>1, <1>2 DEF PendingOK, CommittedOK
<1>7. StoreIntact'
  BY <1>1, <1>2, <1>6, IntactEmptied DEF StoreType
<1>8. DirhInv'
  BY <1>1, <1>2, <1>6 DEF DirhInv, FilesOf, Used
<1>9. cl[c].lists = FALSE
  BY <1>1, <1>3, ClientTypes
<1> QED BY <1>2, <1>3, <1>4, <1>5, <1>7, <1>8, <1>9, LeavesStore DEF Unheld, Unnamed

(* An object is not there to be removed: objects and handles stay as they were. *)
LEMMA FsRemoveFailsStore ==
  ASSUME StoreInv, NEW c \in Clients, FsRemoveFails(c)
  PROVE  StoreInv'
<1>1. CountInv /\ StoreType /\ PobjInv /\ Shape(c) /\ StoreIntact
  BY Parts
<1>2. /\ cl[c].pc \in {"ready", "corrupt"} /\ owner = Nil /\ dir' = dir /\ files' = files
      /\ owner' = owner /\ pobj' = pobj /\ dirh' = Nil
  BY DEF FsRemoveFails, Removes, PutDirh
<1>3. /\ Others(c) /\ cl'[c].pc \in {"releasing", "closing"} /\ cl'[c].name = cl[c].name
      /\ cl'[c].to = Nil /\ cl'[c].lists = FALSE /\ cl'[c].spare = FALSE /\ cl'[c].flags = {}
  BY <1>1, ClosingEffect DEF FsRemoveFails
<1>4. CountInv'
  BY <1>1, FsRemoveFailsCount
<1>5. StoreIntact' /\ DirhInv'
  BY <1>1, <1>2, IntactKept DEF DirhInv
<1>6. cl[c].lists = FALSE
  BY <1>1, <1>2, ClientTypes DEF Shape, Listing
<1> QED BY <1>2, <1>3, <1>4, <1>5, <1>6, LeavesStore DEF Unheld, Unnamed

(* An operation fails under the mutex: objects and handles stay as they were. *)
LEMMA FailsStore ==
  ASSUME StoreInv, NEW c \in Clients, Fails(c)
  PROVE  StoreInv'
<1>1. /\ CountInv /\ StoreType /\ PobjInv /\ Shape(c) /\ FlagsOK(c) /\ HandleOK(c) /\ StoreIntact
  BY Parts
<1>2. /\ cl[c].pc \in {"writing", "updating", "moving", "removing"} /\ cl[c].pc \in Locked
      /\ dir' = dir /\ files' = files /\ dirh' = Nil
  BY DEF Fails, PutDirh, Locked
<1>3. owner = c /\ cl[c].lists = FALSE
  BY <1>1, <1>2, LockedDirh, ClientTypes DEF Shape, Listing
<1>4. CountInv'
  BY <1>1, FailsCount
<1>5. StoreIntact' /\ DirhInv'
  BY <1>1, <1>2, IntactKept DEF DirhInv
<1>6. CASE /\ \/ cl' = [cl EXCEPT ![c].pc = "ready", ![c].failed = TRUE]
              \/ cl' = [cl EXCEPT ![c].pc = "ready", ![c].failed = TRUE, ![c].closed = TRUE]
           /\ pobj' = pobj
  <2>1. /\ Others(c) /\ cl'[c].pc = "ready" /\ cl'[c].name = cl[c].name /\ cl'[c].to = cl[c].to
        /\ cl'[c].lists = cl[c].lists /\ cl'[c].spare = cl[c].spare /\ cl'[c].flags = cl[c].flags /\ cl'[c].failed = TRUE
    BY <1>1, <1>6, WriteFailsEffect, CloseTreeEffect
  <2>2. FlagsOK(c)' /\ HandleOK(c)' /\ PendingOK(c)'
    BY <1>1, <2>1, NothingPendingNext DEF FlagsOK, HandleOK, Locked
  <2>3. PobjInv'
    BY <1>1, <1>2, <1>6, <2>1, PobjKept DEF Unheld, Unnamed
  <2> QED BY <1>2, <1>3, <1>4, <1>5, <2>1, <2>2, <2>3, LockStore
<1>7. CASE /\ cl[c].pc = "moving" /\ PobjUnreserve(cl[c].to)
           /\ cl' = [cl EXCEPT ![c].pc = "ready", ![c].to = Nil]
  <2>1. /\ Others(c) /\ cl'[c].pc = "ready" /\ cl'[c].name = cl[c].name /\ cl'[c].to = Nil
        /\ cl'[c].lists = cl[c].lists /\ cl'[c].spare = cl[c].spare /\ cl'[c].flags = cl[c].flags /\ cl'[c].failed = cl[c].failed
        /\ cl'[c].fh = cl[c].fh
    BY <1>1, <1>7, UnreserveEffect
  <2>2. FlagsOK(c)' /\ PendingOK(c)'
    BY <1>1, <2>1, NothingPendingNext DEF FlagsOK, Locked
  <2>3. HandleOK(c)'
    BY <1>1, <1>2, <1>7, <2>1 DEF HandleOK, EntryOf, Gone, Used
  <2>4. cl[c].to \in Names
    BY <1>7, MovesAlone
  <2>5. PobjInv'
    <3>1. Keeps(c)
      BY <1>7, <2>1 DEF Keeps, Unheld, Unnamed
    <3> QED BY <1>1, <1>7, <2>1, <2>4, <3>1, UnreserveName
  <2> QED BY <1>2, <1>3, <1>4, <1>5, <2>1, <2>2, <2>3, <2>5, LockStore
<1>8. CASE /\ cl[c].pc = "removing" /\ cl' = [cl EXCEPT ![c] = Closing(c)]
           /\ pobj' = pobj
  <2>1. /\ Others(c) /\ cl'[c].pc \in {"releasing", "closing"} /\ cl'[c].name = cl[c].name
        /\ cl'[c].to = Nil /\ cl'[c].lists = FALSE /\ cl'[c].spare = FALSE /\ cl'[c].flags = {}
    BY <1>1, <1>8, ClosingEffect
  <2> QED BY <1>2, <1>3, <1>4, <1>5, <1>8, <2>1, LeavesStore DEF Unheld, Unnamed
<1>9. CASE /\ cl[c].pc = "updating" /\ cl' = [cl EXCEPT ![c] = Corrupt(c, cl[c].fh)]
           /\ pobj' = pobj
  <2>1. PICK h \in Handle \cup {Nil} : cl' = [cl EXCEPT ![c] = Corrupt(c, h)]
    BY <1>1, <1>9, ClientTypes
  <2>2. /\ Others(c) /\ cl'[c].pc = "corrupt" /\ cl'[c].name = cl[c].name
        /\ cl'[c].to = Nil /\ cl'[c].lists = FALSE /\ cl'[c].spare = FALSE /\ cl'[c].flags = {}
    BY <1>1, <2>1, CorruptEffect
  <2> QED BY <1>2, <1>3, <1>4, <1>5, <1>9, <2>2, LeavesStore DEF Unheld, Unnamed
<1>10. CASE cl[c].pc = "writing" /\ Goto(c, "ready") /\ pobj' = pobj
  <2>1. /\ Others(c) /\ cl'[c].pc = "ready" /\ cl'[c].name = cl[c].name /\ cl'[c].to = cl[c].to
        /\ cl'[c].lists = cl[c].lists /\ cl'[c].spare = cl[c].spare /\ cl'[c].flags = cl[c].flags
        /\ cl'[c].failed = cl[c].failed /\ cl'[c].fh = cl[c].fh
    BY <1>1, <1>10, GotoEffect DEF Places
  <2>2. FlagsOK(c)' /\ PendingOK(c)'
    BY <1>1, <2>1, NothingPendingNext DEF FlagsOK, Locked
  <2>3. HandleOK(c)'
    BY <1>1, <1>2, <1>10, <2>1 DEF HandleOK, EntryOf, Gone, Used
  <2>4. PobjInv'
    BY <1>1, <1>10, <2>1, PobjKept DEF Unheld, Unnamed
  <2> QED BY <1>2, <1>3, <1>4, <1>5, <2>1, <2>2, <2>3, <2>4, LockStore
<1> QED BY <1>6, <1>7, <1>8, <1>9, <1>10 DEF Fails

(* An enumeration starts: objects and handles stay as they were.            *)
LEMMA StartEnumStore ==
  ASSUME StoreInv, NEW c \in Clients, StartEnum(c)
  PROVE  StoreInv'
<1>1. /\ CountInv /\ StoreType /\ PobjInv /\ Shape(c) /\ FlagsOK(c) /\ StoreIntact
  BY Parts
<1>2. /\ cl[c].pc = "idle" /\ owner = Nil /\ dir' = dir /\ files' = files /\ pobj' = pobj
      /\ owner' = owner
      /\ dirh' = GetDirh \/ dirh' = Nil
  BY DEF StartEnum, PutDirh
<1>3. /\ Others(c) /\ cl'[c].pc \in {"idle", "listing"} /\ cl'[c].to = cl[c].to
      /\ cl'[c].lists \/ ~cl[c].lists
      /\ cl'[c].spare = cl[c].spare /\ cl'[c].flags = cl[c].flags /\ cl'[c].failed = cl[c].failed
  <2>1. CASE UNCHANGED cl
    BY <1>1, <1>2, <2>1 DEF Others, StoreType
  <2>2. CASE cl' = [cl EXCEPT ![c].pc = "listing", ![c].lists = TRUE]
    BY <1>1, <2>2, StartEnumEffect
  <2> QED BY <2>1, <2>2 DEF StartEnum
<1>4. CountInv'
  BY <1>1, StartEnumCount
<1>5. StoreIntact' /\ DirhInv'
  BY <1>1, <1>2, IntactKept, PassDirh
<1>6. FlagsOK(c)' /\ HandleOK(c)' /\ PendingOK(c)'
  BY <1>1, <1>2, <1>3, NothingPendingNext DEF FlagsOK, HandleOK, Locked
<1>7. PobjInv'
  BY <1>1, <1>2, <1>3, PobjKept DEF Unheld, Unnamed
<1> QED BY <1>2, <1>3, <1>4, <1>5, <1>6, <1>7, LockStore

(* An enumeration reads an entry: objects and handles stay as they were.    *)
LEMMA ReadDirStore ==
  ASSUME StoreInv, NEW c \in Clients, ReadDir(c)
  PROVE  StoreInv'
<1>1. /\ CountInv /\ StoreType /\ PobjInv /\ Shape(c) /\ FlagsOK(c) /\ StoreIntact /\ dir \in Entries
  BY Parts
<1>2. /\ cl[c].pc = "listing" /\ owner = Nil /\ dir' = dir /\ files' = files /\ pobj' = pobj
      /\ owner' = owner
      /\ dirh' = GetDirh \/ dirh' = Nil
  BY DEF ReadDir, PutDirh
<1>3. PICK d \in Dirh : d = GetDirh /\ d # Nil /\ d.ents = dir /\ FilesOf(dir) \subseteq d.bits
  BY <1>2, GetDirhIs
<1>4. /\ Others(c) /\ cl'[c].pc \in {"listing", "listed"} /\ cl'[c].to = cl[c].to
      /\ cl'[c].flags = cl[c].flags /\ cl'[c].failed = cl[c].failed
      /\ cl'[c].lists = cl[c].lists /\ cl'[c].spare = cl[c].spare
  <2>1. CASE UNCHANGED cl
    BY <1>1, <1>2, <2>1 DEF Others, StoreType
  <2>2. CASE \E i \in Used(GetDirh.ents) :
               cl' = [cl EXCEPT ![c].pc = "listed", ![c].name = GetDirh.ents[i].name]
    <3>1. PICK m \in Names : cl' = [cl EXCEPT ![c].pc = "listed", ![c].name = m]
      BY <1>1, <1>3, <2>2, EntryTypes
    <3> QED BY <1>1, <3>1, ReadDirEffect
  <2> QED BY <2>1, <2>2 DEF ReadDir
<1>5. CountInv'
  BY <1>1, ReadDirCount
<1>6. StoreIntact'
  BY <1>1, <1>2, IntactKept
<1>7. DirhInv'
  BY <1>2, PassDirh
<1>8. FlagsOK(c)' /\ HandleOK(c)' /\ PendingOK(c)'
  BY <1>1, <1>4, NothingPendingNext DEF FlagsOK, HandleOK, Locked
<1>9. PobjInv'
  BY <1>1, <1>2, <1>4, PobjKept DEF Unheld, Unnamed
<1> QED BY <1>2, <1>4, <1>5, <1>6, <1>7, <1>8, <1>9, LockStore

(* An enumeration ends: objects and handles stay as they were.              *)
LEMMA FreeEnumStore ==
  ASSUME StoreInv, NEW c \in Clients, FreeEnum(c)
  PROVE  StoreInv'
<1>1. /\ CountInv /\ StoreType /\ PobjInv /\ Shape(c) /\ FlagsOK(c) /\ StoreIntact /\ DirhInv
  BY Parts
<1>2. /\ cl[c].pc = "listing" /\ owner = Nil /\ dir' = dir /\ files' = files /\ pobj' = pobj
      /\ owner' = owner
      /\ dirh' = dirh \/ dirh' = Nil
  BY DEF FreeEnum, PutDirh
<1>3. /\ Others(c) /\ cl'[c].pc = "idle" /\ cl'[c].to = Nil /\ cl'[c].flags = {} /\ cl'[c].failed = FALSE
      /\ cl'[c].spare = FALSE
  BY <1>1, IdleEffect DEF FreeEnum
<1>4. CountInv'
  BY <1>1, FreeEnumCount
<1>5. StoreIntact'
  BY <1>1, <1>2, IntactKept
<1>6. DirhInv'
  BY <1>1, <1>2 DEF DirhInv, FilesOf, Used
<1>7. FlagsOK(c)' /\ HandleOK(c)' /\ PendingOK(c)'
  BY <1>3, NothingPendingNext DEF FlagsOK, HandleOK, Locked
<1>8. PobjInv'
  <2>1. cl[c].to = Nil
    BY <1>1, <1>2 DEF Shape
  <2> QED BY <1>1, <1>2, <1>3, <2>1, PobjKept DEF Unheld, Unnamed
<1> QED BY <1>2, <1>3, <1>4, <1>5, <1>6, <1>7, <1>8, LockStore

(* Nothing is promised of clients that are idle but the objects on disk. *)
LEMMA RestStore ==
  ASSUME CountInv, StoreIntact, dirh = Nil, pobj = [n \in Names |-> NoPobj],
         cl = [c \in Clients |-> Idle]
  PROVE  StoreInv
<1>1. \A c \in Clients : /\ cl[c].pc = "idle" /\ cl[c].to = Nil /\ cl[c].flags = {}
                         /\ cl[c].failed = FALSE /\ cl[c].spare = FALSE
  BY DEF Idle
<1>2. FlagsInv
  BY <1>1 DEF FlagsInv, FlagsOK
<1>3. ClientInv
  BY <1>1, NothingPending DEF ClientInv, HandleOK, Locked
<1>4. DirhInv
  BY DEF DirhInv
<1>5. \A n \in Names : ByName(n) = {} /\ Spares(n) = {} /\ ByTo(n) = {}
  BY <1>1, ReeFsAssumption DEF ByName, Spares, Refers, ByTo, Unheld, Unnamed
<1>6. NoPobj \in Pobj /\ NoPobj.refcnt = 0 /\ NoPobj.reserved = 0 /\ Cardinality({}) = 0
  BY FS_EmptySet DEF NoPobj, Pobj
<1>7. \A n \in Names : RefcntOK(n) /\ OwnedOK(n) /\ ReservedOK(n)
  BY <1>5, <1>6 DEF RefcntOK, OwnedOK, ReservedOK
<1>8. SpareInv
  BY <1>1 DEF SpareInv
<1> QED BY <1>2, <1>3, <1>4, <1>6, <1>7, <1>8 DEF StoreInv, PobjInv

(* The invariant holds for the empty store.                                 *)
LEMMA InitStore ==
  Init => StoreInv
<1> SUFFICES ASSUME Init PROVE StoreInv
  OBVIOUS
<1>1. StoreIntact
  BY DEF Init, StoreIntact, Used
<1> QED BY <1>1, InitCount, RestStore DEF Init

(* Power loss leaves the entries on disk and the roots they have.           *)
LEMMA PowerLossStore ==
  ASSUME StoreInv, PowerLoss
  PROVE  StoreInv'
<1>1. CountInv /\ StoreIntact /\ dir \in Entries /\ files \in [FileNumbers -> SUBSET Roots]
  BY DEF StoreInv, CountInv, StoreType
<1>2. /\ dirh' = Nil /\ dir' = dir /\ pobj' = [n \in Names |-> NoPobj]
      /\ cl' = [c \in Clients |-> Idle]
      /\ files' = [f \in FileNumbers |-> files[f] \cap EntryRoots(dir)]
  BY DEF PowerLoss
<1>3. CountInv'
  BY <1>1, PowerLossCount
<1>4. StoreIntact'
  <2>1. ASSUME NEW i \in Used(dir), dir[i].hash \in files[dir[i].file]
        PROVE  dir[i].hash \in files'[dir[i].file]
    <3>1. dir[i].file \in FileNumbers /\ dir[i].hash \in EntryRoots(dir)
      BY <1>1, EntryTypes DEF EntryRoots
    <3> QED BY <1>2, <2>1, <3>1
  <2> QED BY <1>1, <1>2, <2>1, IntactKept
<1>5. \A c \in Clients : /\ cl'[c].pc = "idle" /\ cl'[c].to = Nil /\ cl'[c].flags = {}
                         /\ cl'[c].failed = FALSE /\ cl'[c].spare = FALSE
  BY <1>2 DEF Idle
<1>6. FlagsInv'
  BY <1>5 DEF FlagsInv, FlagsOK
<1>7. ClientInv'
  BY <1>5, NothingPendingNext DEF ClientInv, HandleOK, Locked
<1>8. DirhInv'
  BY <1>2 DEF DirhInv
<1>9. \A n \in Names : ByName(n)' = {} /\ Spares(n)' = {} /\ ByTo(n)' = {}
  BY <1>5, ReeFsAssumption DEF ByName, Spares, Refers, ByTo, Unheld, Unnamed
<1>10. NoPobj \in Pobj /\ NoPobj.refcnt = 0 /\ NoPobj.reserved = 0 /\ Cardinality({}) = 0
  BY FS_EmptySet DEF NoPobj, Pobj
<1>11. \A n \in Names : RefcntOK(n)' /\ OwnedOK(n)' /\ ReservedOK(n)'
  BY <1>2, <1>9, <1>10 DEF RefcntOK, OwnedOK, ReservedOK
<1>12. SpareInv'
  BY <1>5 DEF SpareInv
<1> QED BY <1>2, <1>3, <1>4, <1>6, <1>7, <1>8, <1>10, <1>11, <1>12 DEF StoreInv, PobjInv

----------------------------------------------------------------------------
(* The commit. *)

(* The entry a commit changes: at index i, of the client's name, to r or,   *)
(* by a removal, to nothing.  All other entries stay.                       *)
Change(c, i, r) ==
  /\ i \in Idx /\ r \in Entry \cup {Nil}
  /\ dirh.ents = [dir EXCEPT ![i] = r]
  /\ dir[i] # Nil => dir[i].name = cl[c].name
  /\ r = Nil <=> cl[c].pc = "removing"
  /\ r = Nil => dir[i] # Nil
  /\ r # Nil => /\ r.hash \in files[r.file] /\ r.name \in {cl[c].name, cl[c].to}
                /\ \A k \in Used(dir) : k # i => dir[k].name # r.name /\ dir[k].file # r.file

(* Every operation that commits has prepared one change. *)
LEMMA CommitChange ==
  ASSUME StoreInv, NEW c \in Clients, cl[c].pc \in {"naming", "removing", "updating", "moving"}
  PROVE  /\ cl[c].pc \in {"naming", "updating"} =>
              Change(c, cl[c].fh.idx, EntryOf(c)) /\ EntryOf(c) # Nil
         /\ cl[c].pc = "removing" =>
              \E i \in Used(dir) : Change(c, i, Nil) /\ cl[c].old = dir[i].file
         /\ cl[c].pc = "moving" =>
              \E i \in Used(dir) :
                /\ Change(c, i, [dir[i] EXCEPT !.name = cl[c].to])
                /\ \A k \in Used(dir) : dir[k].name # cl[c].to
<1>1. /\ CountInv /\ StoreType /\ Shape(c) /\ PendingOK(c) /\ StoreIntact /\ dir \in Entries
  BY Parts
<1>2. cl[c].pc \in Locked
  BY DEF Locked
<1>3. ASSUME cl[c].pc # "removing"
      PROVE  /\ cl[c].fh # Nil /\ cl[c].fh.idx \in Idx /\ cl[c].fh.file \in FileNumbers
             /\ cl[c].fh.base \in Roots /\ cl[c].name \in Names
  BY <1>1, <1>2, <1>3, LockedDirh, ClientTypes DEF Shape, HasFile, MayHaveFile, Unnamed
<1>4. ASSUME cl[c].pc # "removing"
      PROVE  /\ EntryOf(c) \in Entry /\ EntryOf(c) # Nil /\ EntryOf(c).name = cl[c].name
             /\ EntryOf(c).file = cl[c].fh.file /\ EntryOf(c).hash = cl[c].fh.base
  <2>1. EntryOf(c) \in Entry
    BY <1>3, <1>4 DEF EntryOf, Entry
  <2> QED BY <2>1, ReeFsAssumption DEF EntryOf
<1>5. ASSUME cl[c].pc = "naming" PROVE Change(c, cl[c].fh.idx, EntryOf(c))
  <2>1. /\ dirh.ents = [dir EXCEPT ![cl[c].fh.idx] = EntryOf(c)]
        /\ cl[c].fh.base \in files[cl[c].fh.file]
        /\ \A i \in Used(dir) : dir[i].name = cl[c].name <=> i = cl[c].fh.idx
        /\ cl[c].fh.file \notin FilesOf(dir)
    BY <1>1, <1>5 DEF PendingOK, TmpOK, NamingOK
  <2>2. dir[cl[c].fh.idx] # Nil => dir[cl[c].fh.idx].name = cl[c].name
    BY <1>3, <1>5, <2>1 DEF Used
  <2>3. \A k \in Used(dir) : k # cl[c].fh.idx => dir[k].name # cl[c].name /\ dir[k].file # cl[c].fh.file
    BY <2>1 DEF FilesOf
  <2> QED BY <1>3, <1>4, <1>5, <2>1, <2>2, <2>3 DEF Change
<1>6. ASSUME cl[c].pc = "updating" PROVE Change(c, cl[c].fh.idx, EntryOf(c))
  <2>1. /\ dirh.ents = [dir EXCEPT ![cl[c].fh.idx] = EntryOf(c)]
        /\ cl[c].fh.base \in files[cl[c].fh.file]
        /\ dir[cl[c].fh.idx] # Nil /\ dir[cl[c].fh.idx].name = cl[c].name
        /\ dir[cl[c].fh.idx].file = cl[c].fh.file
    BY <1>1, <1>6 DEF PendingOK, UpdatingOK
  <2>2. \A k \in Used(dir) : k # cl[c].fh.idx => dir[k].name # cl[c].name /\ dir[k].file # cl[c].fh.file
    BY <1>1, <1>3, <1>6, <2>1 DEF StoreIntact, Used
  <2> QED BY <1>3, <1>4, <1>6, <2>1, <2>2 DEF Change
<1>7. ASSUME cl[c].pc = "removing"
      PROVE  \E i \in Used(dir) : Change(c, i, Nil) /\ cl[c].old = dir[i].file
  <2>1. PICK i \in Used(dir) : /\ dir[i].name = cl[c].name /\ cl[c].old = dir[i].file
                               /\ dirh.ents = [dir EXCEPT ![i] = Nil]
    BY <1>1, <1>7 DEF PendingOK, RemovingOK
  <2>2. Change(c, i, Nil)
    BY <1>7, <2>1 DEF Change, Used
  <2> QED BY <2>1, <2>2
<1>8. ASSUME cl[c].pc = "moving"
      PROVE  \E i \in Used(dir) : /\ Change(c, i, [dir[i] EXCEPT !.name = cl[c].to])
                                  /\ \A k \in Used(dir) : dir[k].name # cl[c].to
  <2>1. \A k \in Used(dir) : dir[k].name # cl[c].to
    BY <1>1, <1>8 DEF PendingOK, MovingOK
  <2>2. PICK i \in Used(dir) :
          /\ dir[i].name = cl[c].name
          /\ dirh.ents = [dir EXCEPT ![i] = [dir[i] EXCEPT !.name = cl[c].to]]
    BY <1>1, <1>8 DEF PendingOK, MovingOK
  <2>3. i \in Idx /\ dir[i] \in Entry /\ cl[c].to \in Names
    BY <1>1, <1>8, EntryTypes, MovesAlone
  <2>4. PICK r : r = [dir[i] EXCEPT !.name = cl[c].to]
    OBVIOUS
  <2>5. r \in Entry /\ r.name = cl[c].to /\ r.file = dir[i].file /\ r.hash = dir[i].hash
    BY <2>3, <2>4 DEF Entry
  <2>6. \A k \in Used(dir) : k # i => dir[k].name # r.name /\ dir[k].file # r.file
    BY <1>1, <2>1, <2>5 DEF StoreIntact
  <2>7. r.hash \in files[r.file]
    BY <1>1, <2>5 DEF StoreIntact
  <2>8. Change(c, i, r)
    BY <1>8, <2>2, <2>3, <2>4, <2>5, <2>6, <2>7, ReeFsAssumption DEF Change
  <2> QED BY <2>1, <2>4, <2>8
<1> QED BY <1>4, <1>5, <1>6, <1>7, <1>8

(* A commit leaves every entry whole, and names and numbers told apart.     *)
LEMMA ChangeIntact ==
  ASSUME StoreInv, NEW c \in Clients, Commit(c), NEW i, NEW r, Change(c, i, r)
  PROVE  dir' = [dir EXCEPT ![i] = r] /\ StoreIntact'
<1>1. StoreType /\ StoreIntact /\ dir \in Entries
  BY Parts
<1>2. /\ dir' = dirh.ents
      /\ files' = [f \in FileNumbers |-> files[f] \cap (EntryRoots(dirh.ents) \cup HandleRoots)]
  BY <1>1, CommitExpand
<1>3. dir' = [dir EXCEPT ![i] = r] /\ i \in Idx /\ r \in Entry \cup {Nil}
  BY <1>2 DEF Change
<1>4. dir'[i] = r /\ \A k \in Idx : k # i => dir'[k] = dir[k]
  BY <1>1, <1>3 DEF Entries
<1>5. ASSUME NEW k \in Used(dir')
      PROVE  /\ k \in Idx /\ dir'[k] \in Entry
             /\ k # i => k \in Used(dir) /\ dir'[k] = dir[k]
             /\ k = i => dir'[k] = r /\ r # Nil
  BY <1>1, <1>3, <1>4, <1>5 DEF Used, Entries
<1>6. ASSUME NEW k \in Used(dir')
      PROVE  dir'[k].hash \in files'[dir'[k].file]
  <2>1. dir'[k].hash \in files[dir'[k].file]
    <3>1. CASE k = i
      BY <1>5, <3>1 DEF Change
    <3>2. CASE k # i
      BY <1>1, <1>5, <3>2 DEF StoreIntact
    <3> QED BY <3>1, <3>2
  <2>2. dir'[k].hash \in EntryRoots(dirh.ents)
    BY <1>2 DEF EntryRoots
  <2>3. dir'[k].file \in FileNumbers
    BY <1>5 DEF Entry
  <2> QED BY <1>2, <2>1, <2>2, <2>3
<1>7. ASSUME NEW k \in Used(dir'), NEW m \in Used(dir'), k # m
      PROVE  dir'[k].name # dir'[m].name /\ dir'[k].file # dir'[m].file
  <2>1. CASE k = i
    BY <1>5, <1>7, <2>1 DEF Change
  <2>2. CASE m = i
    BY <1>5, <1>7, <2>2 DEF Change
  <2>3. CASE k # i /\ m # i
    BY <1>1, <1>5, <1>7, <2>3 DEF StoreIntact
  <2> QED BY <2>1, <2>2, <2>3
<1>8. Used(dir)' = Used(dir')
  BY DEF Used
<1> QED BY <1>3, <1>6, <1>7, <1>8 DEF StoreIntact

(* No other client has a handle on the object a commit changes, but readers *)
(* of one that is removed; and none on one that has the new name.           *)
LEMMA CommitsAlone ==
  ASSUME StoreInv, NEW c \in Clients, cl[c].pc \in {"naming", "removing", "updating", "moving"},
         NEW d \in Clients, d # c
  PROVE  /\ cl[d].pc \in HasFile /\ ~cl[d].lists /\ cl[d].name = cl[c].name =>
              cl[c].pc = "removing" /\ ~Exclusive(cl[d].flags)
         /\ cl[d].pc \in HasFile /\ ~cl[d].lists => cl[d].name # cl[c].to
         /\ cl[d].to # cl[c].name /\ cl[d].pc \notin Locked
<1>1. /\ CountInv /\ StoreType /\ PobjInv /\ Shape(c) /\ FlagsOK(c) /\ Shape(d)
      /\ cl[c].spare => cl[c].lists
      /\ cl[d].spare => cl[d].lists
  BY Parts
<1>2. cl[c].pc \in Locked
  BY DEF Locked
<1>3. ~cl[c].lists /\ cl[c].name \in Names /\ owner = c
  BY <1>1, <1>2, LockedDirh, ClientTypes DEF Shape, Listing, Unnamed
<1>4. cl[c].pc # "removing" => Exclusive(cl[c].flags)
  BY <1>1 DEF FlagsOK, Exclusive
<1>5. c \in ByName(cl[c].name)
  BY <1>1, <1>3 DEF ByName, Refers, Unheld, Unnamed
<1>6. OwnedOK(cl[c].name) /\ ReservedOK(cl[c].name)
  BY <1>1, <1>3 DEF PobjInv
<1>7. cl[d].pc \notin Locked
  BY <1>1, <1>3 DEF Shape
<1>8. cl[d].to # cl[c].name
  BY <1>5, <1>6 DEF ReservedOK, ByTo
<1>9. ASSUME cl[d].pc \in HasFile, ~cl[d].lists
      PROVE  /\ cl[d].pc \notin Unheld /\ cl[d].name \in Names
             /\ d \in ByName(cl[d].name)
  <2>1. cl[d].pc \notin Unheld /\ cl[d].pc \notin Unnamed
    BY <1>9 DEF HasFile, Unheld, Unnamed
  <2> QED BY <1>1, <1>9, <2>1, ClientTypes DEF Shape, ByName, Refers
<1>10. ASSUME cl[d].pc \in HasFile, ~cl[d].lists, cl[d].name = cl[c].name
       PROVE  cl[c].pc = "removing" /\ ~Exclusive(cl[d].flags)
  <2>1. d \in ByName(cl[c].name)
    BY <1>9, <1>10
  <2> QED BY <1>3, <1>4, <1>5, <1>6, <1>10, <2>1 DEF OwnedOK
<1>11. ASSUME cl[d].pc \in HasFile, ~cl[d].lists
       PROVE  cl[d].name # cl[c].to
  <2>1. SUFFICES ASSUME cl[d].name = cl[c].to PROVE FALSE
    OBVIOUS
  <2>2. cl[c].to \in Names /\ d \in ByName(cl[c].to)
    BY <1>9, <1>11, <2>1
  <2>3. c \in ByTo(cl[c].to) /\ ReservedOK(cl[c].to)
    BY <1>1, <2>2 DEF ByTo, PobjInv
  <2> QED BY <2>2, <2>3 DEF ReservedOK
<1> QED BY <1>7, <1>8, <1>10, <1>11

(* A commit changes no entry another client's handle is on, unless it       *)
(* removes what that client reads.                                          *)
LEMMA ChangeOthers ==
  ASSUME StoreInv, NEW c \in Clients, cl[c].pc \in {"naming", "removing", "updating", "moving"},
         NEW i, NEW r, Change(c, i, r), dir' = [dir EXCEPT ![i] = r],
         NEW d \in Clients, d # c, cl'[d] = cl[d]
  PROVE  HandleOK(d)' /\ PendingOK(d)'
<1>1. dir \in Entries /\ HandleOK(d) /\ PendingOK(d) /\ Shape(d) /\ StoreType /\ StoreIntact
  BY Parts
<1>2. /\ cl[d].pc \in HasFile /\ ~cl[d].lists /\ cl[d].name = cl[c].name =>
           cl[c].pc = "removing" /\ ~Exclusive(cl[d].flags)
      /\ cl[d].pc \in HasFile /\ ~cl[d].lists => cl[d].name # cl[c].to
      /\ cl[d].to # cl[c].name /\ cl[d].pc \notin Locked
  BY CommitsAlone
<1>3. \A k \in Idx : k # i => dir'[k] = dir[k]
  BY <1>1 DEF Entries
<1>4. /\ i \in Idx
      /\ dir[i] # Nil => dir[i].name = cl[c].name
      /\ r = Nil <=> cl[c].pc = "removing"
      /\ r = Nil => dir[i] # Nil
      /\ r # Nil => r.name \in {cl[c].name, cl[c].to}
      /\ dir'[i] = r
  BY <1>1 DEF Change, Entries
<1>5. ASSUME NEW e \in Entry, cl[d].fh.idx \in Idx, dir[cl[d].fh.idx] = e, e.name # cl[c].name
      PROVE  dir'[cl[d].fh.idx] = e
  BY <1>3, <1>4, <1>5, ReeFsAssumption
<1>6. ASSUME cl[d].pc \in {"ready", "created", "named", "writing", "renaming", "moving", "moved"}
      PROVE  /\ cl[d].pc \in HasFile /\ ~cl[d].lists /\ cl[d].fh.idx \in Idx
             /\ cl[d].fh.file \in FileNumbers /\ cl[d].fh.base \in Roots /\ cl[d].name \in Names
  <2>1. cl[d].pc \in HasFile /\ cl[d].pc \notin Listing \cup {"releasing"} /\ cl[d].pc # "tmp"
        /\ cl[d].pc \notin Unnamed
    BY <1>6 DEF HasFile, Listing, Unnamed
  <2> QED BY <1>1, <2>1, ClientTypes DEF Shape
<1>7. HandleOK(d)'
  <2> SUFFICES ASSUME cl[d].pc \in {"ready", "created", "named", "writing", "renaming", "moving"},
                      ~cl[d].failed
               PROVE  \/ dir'[cl[d].fh.idx] = EntryOf(d)
                      \/ ~Exclusive(cl[d].flags) /\ \A k \in Used(dir') : dir'[k].name # cl[d].name
    BY DEF HandleOK, EntryOf, Gone, Used
  <2>1. EntryOf(d) \in Entry /\ EntryOf(d).name = cl[d].name
    BY <1>6 DEF EntryOf, Entry
  <2>2. CASE cl[d].name = cl[c].name
    <3>1. r = Nil /\ ~Exclusive(cl[d].flags) /\ i \in Used(dir) /\ dir[i].name = cl[d].name
      BY <1>2, <1>4, <1>6, <2>2 DEF Used
    <3>2. ASSUME NEW k \in Used(dir') PROVE dir'[k].name # cl[d].name
      <4>1. k # i /\ k \in Used(dir) /\ dir'[k] = dir[k]
        BY <1>3, <1>4, <3>1, <3>2 DEF Used
      <4> QED BY <1>1, <3>1, <4>1 DEF StoreIntact
    <3> QED BY <3>1, <3>2
  <2>3. CASE cl[d].name # cl[c].name /\ dir[cl[d].fh.idx] = EntryOf(d)
    BY <1>5, <1>6, <2>1, <2>3
  <2>4. CASE cl[d].name # cl[c].name /\ Gone(d)
    <3>1. ~Exclusive(cl[d].flags) /\ \A k \in Used(dir) : dir[k].name # cl[d].name
      BY <2>4 DEF Gone
    <3>2. ASSUME NEW k \in Used(dir') PROVE dir'[k].name # cl[d].name
      <4>1. CASE k = i
        BY <1>2, <1>4, <1>6, <2>4, <3>2, <4>1 DEF Used
      <4>2. CASE k # i
        BY <1>3, <3>1, <3>2, <4>2 DEF Used
      <4> QED BY <4>1, <4>2
    <3> QED BY <3>1, <3>2
  <2> QED BY <1>1, <2>2, <2>3, <2>4 DEF HandleOK
<1>8. MovedOK(d)'
  <2> SUFFICES ASSUME cl[d].pc = "moved", ~cl[d].failed
               PROVE  dir'[cl[d].fh.idx]
                        = [name |-> cl[d].to, file |-> cl[d].fh.file, hash |-> cl[d].fh.base]
    BY DEF MovedOK
  <2>1. cl[d].to \in Names
    BY <1>1, ClientTypes DEF Shape
  <2>2. PICK e : e = [name |-> cl[d].to, file |-> cl[d].fh.file, hash |-> cl[d].fh.base]
    OBVIOUS
  <2>3. e \in Entry /\ e.name = cl[d].to
    BY <1>6, <2>1, <2>2 DEF Entry
  <2>4. dir[cl[d].fh.idx] = e
    BY <1>1, <2>2 DEF PendingOK, MovedOK
  <2> QED BY <1>2, <1>5, <1>6, <2>2, <2>3, <2>4
<1> QED BY <1>2, <1>7, <1>8 DEF PendingOK, TmpOK, NamingOK, UpdatingOK, MovingOK, RemovingOK,
                                CommittedOK, Locked

(* What follows a commit in ree_fs_create: the file it replaced is no       *)
(* longer named.                                                            *)
LEMMA NamedPending ==
  ASSUME StoreInv, NEW c \in Clients, Commit(c), cl[c].pc = "naming"
  PROVE  HandleOK(c)' /\ PendingOK(c)'
<1>1. /\ StoreType /\ Shape(c) /\ PendingOK(c) /\ StoreIntact /\ dir \in Entries
  BY Parts
<1>2. /\ cl'[c].pc = "named" /\ cl'[c].name = cl[c].name /\ cl'[c].fh = cl[c].fh
      /\ cl'[c].old = cl[c].old /\ cl'[c].failed = cl[c].failed
      /\ dirh' = dirh /\ dir' = dirh.ents
  BY <1>1, CommitExpand
<1>3. PICK i, r : /\ i = cl[c].fh.idx /\ r = EntryOf(c) /\ r # Nil /\ Change(c, i, r)
  BY CommitChange
<1>4. dir' = [dir EXCEPT ![i] = r] /\ i \in Idx /\ r \in Entry
  BY <1>2, <1>3 DEF Change
<1>5. dir'[i] = r /\ \A k \in Idx : k # i => dir'[k] = dir[k]
  BY <1>1, <1>4 DEF Entries
<1>6. HandleOK(c)'
  BY <1>2, <1>3, <1>5 DEF HandleOK, EntryOf
<1>7. /\ cl[c].old = IF dir[i] = Nil THEN Nil ELSE dir[i].file
      /\ r.file \notin FilesOf(dir)
  BY <1>1, <1>3 DEF PendingOK, NamingOK, TmpOK, EntryOf
<1>8. ASSUME NEW k \in Used(dir')
      PROVE  dir'[k].file # cl[c].old
  <2>1. k \in Idx /\ dir'[k] \in Entry /\ dir'[k].file \in FileNumbers
    BY <1>1, <1>4, <1>5 DEF Used, Entries, Entry
  <2>2. CASE dir[i] = Nil
    BY <1>7, <2>1, <2>2, ReeFsAssumption
  <2>3. CASE dir[i] # Nil
    <3>1. i \in Used(dir) /\ cl[c].old = dir[i].file
      BY <1>4, <1>7, <2>3 DEF Used
    <3>2. CASE k = i
      BY <1>5, <1>7, <3>1, <3>2 DEF FilesOf
    <3>3. CASE k # i
      <4>1. dir'[k] = dir[k] /\ k \in Used(dir)
        BY <1>5, <2>1, <3>3 DEF Used
      <4> QED BY <1>1, <3>1, <3>3, <4>1 DEF StoreIntact
    <3> QED BY <3>2, <3>3
  <2> QED BY <2>2, <2>3
<1>9. cl'[c].old \notin FilesOf(dir)' /\ dirh'.ents = dir'
  BY <1>2, <1>8 DEF FilesOf, Used
<1> QED BY <1>2, <1>6, <1>9 DEF PendingOK, TmpOK, NamingOK, UpdatingOK, MovingOK, MovedOK,
                               RemovingOK, CommittedOK

(* What follows a commit in ree_fs_remove: the file is no longer named.     *)
LEMMA RemovedPending ==
  ASSUME StoreInv, NEW c \in Clients, Commit(c), cl[c].pc = "removing"
  PROVE  HandleOK(c)' /\ PendingOK(c)'
<1>1. StoreType /\ StoreIntact /\ dir \in Entries
  BY Parts
<1>2. /\ cl'[c].pc = "removed" /\ cl'[c].old = cl[c].old
      /\ dirh' = dirh /\ dir' = dirh.ents
  BY <1>1, CommitExpand
<1>3. PICK i \in Used(dir) : Change(c, i, Nil) /\ cl[c].old = dir[i].file
  BY CommitChange
<1>4. dir' = [dir EXCEPT ![i] = Nil] /\ i \in Idx /\ dir[i].file \in FileNumbers
  BY <1>1, <1>3, ChangeIntact, EntryTypes
<1>5. ASSUME NEW k \in Used(dir')
      PROVE  dir'[k].file # cl[c].old
  <2>1. k # i /\ k \in Used(dir) /\ dir'[k] = dir[k]
    BY <1>1, <1>4 DEF Used, Entries
  <2> QED BY <1>1, <1>3, <2>1 DEF StoreIntact
<1>6. cl'[c].old \notin FilesOf(dir)' /\ dirh'.ents = dir' /\ cl'[c].old \in FileNumbers
  BY <1>2, <1>3, <1>4, <1>5 DEF FilesOf, Used
<1> QED BY <1>2, <1>6 DEF HandleOK, PendingOK, TmpOK, NamingOK, UpdatingOK, MovingOK, MovedOK,
                          RemovingOK, CommittedOK

(* What follows a commit in ree_fs_write: the handle is on the new root.    *)
LEMMA UpdatedPending ==
  ASSUME StoreInv, NEW c \in Clients, Commit(c), cl[c].pc = "updating"
  PROVE  HandleOK(c)' /\ PendingOK(c)'
<1>1. StoreType /\ dir \in Entries
  BY Parts
<1>2. cl'[c].pc = "ready" /\ cl'[c].name = cl[c].name /\ cl'[c].fh = cl[c].fh
  BY <1>1, CommitExpand
<1>3. PICK i, r : /\ i = cl[c].fh.idx /\ r = EntryOf(c) /\ Change(c, i, r)
  BY CommitChange
<1>4. dir' = [dir EXCEPT ![i] = r]
  BY <1>3, ChangeIntact
<1>5. dir'[i] = r
  BY <1>1, <1>3, <1>4 DEF Entries, Change
<1>6. HandleOK(c)'
  BY <1>2, <1>3, <1>5 DEF HandleOK, EntryOf
<1> QED BY <1>2, <1>6, NothingPendingNext DEF Locked

(* What follows a commit in ree_fs_rename: the handle's entry has the new   *)
(* name.                                                                    *)
LEMMA MovedPending ==
  ASSUME StoreInv, NEW c \in Clients, Commit(c), cl[c].pc = "moving"
  PROVE  HandleOK(c)' /\ PendingOK(c)'
<1>1. StoreType /\ StoreIntact /\ dir \in Entries /\ Shape(c) /\ HandleOK(c) /\ FlagsOK(c)
  BY Parts
<1>2. cl'[c].pc = "moved" /\ cl'[c].to = cl[c].to /\ cl'[c].fh = cl[c].fh /\ cl'[c].failed = cl[c].failed
  BY <1>1, CommitExpand
<1>3. PICK i \in Used(dir) : Change(c, i, [dir[i] EXCEPT !.name = cl[c].to])
  BY CommitChange
<1>4. PICK r : r = [dir[i] EXCEPT !.name = cl[c].to]
  OBVIOUS
<1>5. /\ dir' = [dir EXCEPT ![i] = r]
      /\ i \in Idx /\ dir[i] # Nil /\ dir[i].name = cl[c].name
  <2>1. Change(c, i, r)
    BY <1>3, <1>4
  <2>2. dir' = [dir EXCEPT ![i] = r]
    BY <2>1, ChangeIntact
  <2> QED BY <2>1, <2>2 DEF Change, Used
<1>6. dir'[i] = r /\ dir[i] \in Entry
  BY <1>1, <1>5 DEF Entries
<1>7. ASSUME ~cl[c].failed
      PROVE  dir'[cl[c].fh.idx] = [name |-> cl[c].to, file |-> cl[c].fh.file, hash |-> cl[c].fh.base]
  <2>1. dir[cl[c].fh.idx] = EntryOf(c) /\ EntryOf(c).name = cl[c].name
    BY <1>1, <1>7 DEF HandleOK, EntryOf, Gone, FlagsOK, Exclusive
  <2>2. /\ cl[c].fh.idx \in Idx /\ EntryOf(c) \in Entry
    <3>1. /\ cl[c].fh # Nil /\ cl[c].fh.idx \in Idx /\ cl[c].name \in Names
          /\ cl[c].fh.file \in FileNumbers /\ cl[c].fh.base \in Roots
      BY <1>1, ClientTypes DEF Shape, HasFile, MayHaveFile, Locked, Unnamed
    <3> QED BY <3>1 DEF EntryOf, Entry
  <2>3. cl[c].fh.idx \in Used(dir)
    BY <2>1, <2>2, ReeFsAssumption DEF Used
  <2>4. cl[c].fh.idx = i
    BY <1>1, <1>3, <1>5, <2>1, <2>3 DEF StoreIntact
  <2>5. dir[i] = EntryOf(c)
    BY <2>1, <2>4
  <2> QED BY <1>4, <1>6, <2>4, <2>5 DEF EntryOf
<1>8. HandleOK(c)' /\ MovedOK(c)'
  BY <1>2, <1>7 DEF HandleOK, MovedOK
<1> QED BY <1>2, <1>8 DEF PendingOK, TmpOK, NamingOK, UpdatingOK, MovingOK, RemovingOK, CommittedOK

(* The commit of every operation keeps the invariant.                       *)
LEMMA CommitStore ==
  ASSUME StoreInv, NEW c \in Clients, Commit(c)
  PROVE  StoreInv'
<1>1. /\ CountInv /\ StoreType /\ PobjInv /\ Shape(c) /\ FlagsOK(c) /\ DirhInv
  BY Parts
<1>2. /\ cl[c].pc \in {"naming", "removing", "updating", "moving"}
      /\ dir' = dirh.ents /\ pobj' = pobj /\ Others(c)
      /\ cl'[c].name = cl[c].name /\ cl'[c].to = cl[c].to /\ cl'[c].flags = cl[c].flags
      /\ cl'[c].failed = cl[c].failed /\ cl'[c].lists = cl[c].lists /\ cl'[c].spare = cl[c].spare
      /\ cl[c].pc = "naming" => cl'[c].pc = "named"
      /\ cl[c].pc = "removing" => cl'[c].pc = "removed"
      /\ cl[c].pc = "updating" => cl'[c].pc = "ready"
      /\ cl[c].pc = "moving" => cl'[c].pc = "moved"
      /\ dirh' = dirh \/ dirh' = Nil
  BY <1>1, CommitExpand DEF PutDirh
<1>3. PICK i, r : Change(c, i, r)
  BY <1>2, CommitChange
<1>4. dir' = [dir EXCEPT ![i] = r] /\ StoreIntact'
  BY <1>3, ChangeIntact
<1>5. CountInv'
  BY <1>1, CommitCount
<1>6. FlagsInv'
  <2>1. FlagsOK(c)'
    BY <1>1, <1>2 DEF FlagsOK
  <2> QED BY <1>2, <2>1 DEF FlagsInv, FlagsOK, Others, StoreInv
<1>7. PobjInv'
  <2>1. cl'[c].pc \notin Unheld /\ cl[c].pc \notin Unheld
    BY <1>2 DEF Unheld, Unnamed
  <2> QED BY <1>1, <1>2, <2>1, PobjKept
<1>8. ClientInv'
  <2>1. HandleOK(c)' /\ PendingOK(c)'
    BY <1>2, NamedPending, RemovedPending, UpdatedPending, MovedPending
  <2>2. ASSUME NEW d \in Clients, d # c PROVE HandleOK(d)' /\ PendingOK(d)'
    BY <1>2, <1>3, <1>4, <2>2, ChangeOthers DEF Others
  <2> QED BY <2>1, <2>2 DEF ClientInv
<1>9. DirhInv'
  BY <1>1, <1>2 DEF DirhInv, FilesOf, Used
<1> QED BY <1>4, <1>5, <1>6, <1>7, <1>8, <1>9 DEF StoreInv

(* Every step keeps the invariant.                                          *)
LEMMA NextStore ==
  ASSUME ExclusiveUse
  PROVE  StoreInv /\ [Next]_vars => StoreInv'
<1> SUFFICES ASSUME StoreInv, [Next]_vars PROVE StoreInv'
  OBVIOUS
<1>1. ASSUME NEW c \in Clients, NEW n \in Names, NEW flags \in OpenFlags[c], Open(c, n, flags)
      PROVE  StoreInv'
  BY <1>1, OpenStore
<1>2. ASSUME NEW c \in Clients, NEW n \in Names, NEW flags \in CreateFlags, NEW overwrite \in BOOLEAN,
             Create(c, n, flags, overwrite)
      PROVE  StoreInv'
  BY <1>2, CreateStore
<1>3. ASSUME NEW c \in Clients, NEW n \in Names, Rename(c, n)
      PROVE  StoreInv'
  BY <1>3, RenameStore
<1>4. ASSUME NEW c \in Clients,
             FsOpen(c) \/ GivesUp(c) \/ FsClose(c) \/ Release(c) \/ CreateTmp(c) \/ SetName(c)
      PROVE  StoreInv'
  BY <1>4, FsOpenStore, GivesUpStore, FsCloseStore, ReleaseStore, CreateTmpStore, SetNameStore
<1>5. ASSUME NEW c \in Clients,
             \/ CreateFails(c) \/ RemoveOld(c) \/ CreateFinal(c) \/ ReadFails(c) \/ FindsClosed(c)
             \/ WriteBlocks(c) \/ WriteSync(c)
      PROVE  StoreInv'
  BY <1>5, CreateFailsStore, RemoveOldStore, CreateFinalStore, ReadFailsStore, FindsClosedStore,
     WriteBlocksStore, WriteSyncStore
<1>6. ASSUME NEW c \in Clients,
             \/ FsRename(c) \/ FsRenameFails(c) \/ PobjRename(c)
             \/ FsRemove(c) \/ FsRemoveFails(c) \/ RemoveFile(c)
      PROVE  StoreInv'
  BY <1>6, FsRenameStore, FsRenameFailsStore, PobjRenameStore, FsRemoveStore, FsRemoveFailsStore,
     RemoveFileStore
<1>7. ASSUME NEW c \in Clients,
             \/ Commit(c) \/ Fails(c) \/ StartEnum(c) \/ ReadDir(c) \/ EnumGet(c) \/ FreeEnum(c)
      PROVE  StoreInv'
  BY <1>7, CommitStore, FailsStore, StartEnumStore, ReadDirStore, EnumGetStore, FreeEnumStore
<1>8. CASE PowerLoss
  BY <1>8, PowerLossStore
<1>9. CASE UNCHANGED vars
  <2>1. UNCHANGED <<dir, files, dirh, refcount, owner, pobj, cl>>
    BY <1>9 DEF vars
  <2>2. StoreInv' <=> StoreInv
    BY <2>1 DEF StoreInv, CountInv, StoreType, ShapeInv, Shape, RefsInv, FileRefs, ListRefs,
     RunRefs, FlagsInv, FlagsOK, PobjInv, RefcntOK, OwnedOK, ReservedOK, SpareInv, Refers, ByName,
     Spares, ByTo, StoreIntact, ClientInv, HandleOK, PendingOK, TmpOK, NamingOK, UpdatingOK, MovingOK,
     MovedOK, RemovingOK, CommittedOK, EntryOf, Gone, DirhInv, FilesOf, Used
  <2> QED BY <2>2
<1> QED BY <1>1, <1>2, <1>3, <1>4, <1>5, <1>6, <1>7, <1>8, <1>9 DEF Next

(* Whichever request, allocation or rename fails, intact objects taken for  *)
(* corrupt and removed included, however the operations interleave and      *)
(* whenever power is lost, every committed entry of the directory           *)
(* (commit_dirh_writes) names a whole file, and no two entries share a name *)
(* or a file: for every number of clients, names, files and roots, as long  *)
(* as an object that is written or created is not shared for writing, a     *)
(* handle on which a call failed is not written to, and a look-up fails     *)
(* only for a name that is missing.                                         *)
THEOREM StoreKeptIntact ==
  ASSUME ExclusiveUse
  PROVE  Spec => []StoreIntact
<1>1. Init => StoreInv
  BY InitStore
<1>2. StoreInv /\ [Next]_vars => StoreInv'
  BY NextStore
<1>3. StoreInv => StoreIntact
  BY DEF StoreInv
<1> QED BY <1>1, <1>2, <1>3, PTL DEF Spec

(* A handle at rest, on which no call failed, is on the object its name     *)
(* stands for: the index ree_fs_write keeps in its handle stays right       *)
(* although other clients create, replace, rename and remove objects.  Only *)
(* a handle for reading may have lost its object to remove_corrupt_obj.     *)
(* Under the same conditions.                                               *)
THEOREM HandlesCorrect ==
  ASSUME ExclusiveUse
  PROVE  Spec => []HandleMatchesStore
<1>1. Init => StoreInv
  BY InitStore
<1>2. StoreInv /\ [Next]_vars => StoreInv'
  BY NextStore
<1>3. StoreInv => HandleMatchesStore
  <2> SUFFICES ASSUME StoreInv, NEW c \in Clients, cl[c].pc = "ready", ~cl[c].failed
               PROVE  \/ dir[cl[c].fh.idx] = EntryOf(c)
                      \/ /\ cl[c].flags \cap {"W", "M"} = {}
                         /\ \A i \in Used(dir) : dir[i].name # cl[c].name
    BY DEF HandleMatchesStore, EntryOf
  <2>1. HandleOK(c) /\ FlagsOK(c)
    BY Parts
  <2>2. dir[cl[c].fh.idx] = EntryOf(c) \/ Gone(c)
    BY <2>1 DEF HandleOK
  <2>3. ~Exclusive(cl[c].flags) => cl[c].flags \cap {"W", "M"} = {}
    BY <2>1 DEF FlagsOK, Exclusive
  <2> QED BY <2>2, <2>3 DEF Gone
<1> QED BY <1>1, <1>2, <1>3, PTL DEF Spec

----------------------------------------------------------------------------
(* What a directory stores under a name. *)
Stored(ents, n) == {ents[i].hash : i \in {j \in Idx : ents[j] # Nil /\ ents[j].name = n}}

(* Names told apart: an object has the contents of its one entry.           *)
LEMMA StoredEntry ==
  ASSUME NEW e \in Entries, NEW i \in Used(e),
         \A j, k \in Used(e) : j # k => e[j].name # e[k].name
  PROVE  Stored(e, e[i].name) = {e[i].hash}
BY DEF Stored, Used

(* A name no entry has stands for nothing.                                  *)
LEMMA StoredNone ==
  ASSUME NEW e \in Entries, NEW n, \A k \in Used(e) : e[k].name # n
  PROVE  Stored(e, n) = {}
BY DEF Stored, Used

(* An object is as it was when neither the old nor the new entry is its own. *)
LEMMA StoredOther ==
  ASSUME NEW e \in Entries, NEW i \in Idx, NEW r, NEW n,
         e[i] # Nil => e[i].name # n, r # Nil => r.name # n
  PROVE  Stored([e EXCEPT ![i] = r], n) = Stored(e, n)
<1>1. PICK g : g = [e EXCEPT ![i] = r]
  OBVIOUS
<1>2. g[i] = r /\ \A k \in Idx : k # i => g[k] = e[k]
  BY <1>1 DEF Entries
<1>3. {j \in Idx : g[j] # Nil /\ g[j].name = n} = {j \in Idx : e[j] # Nil /\ e[j].name = n}
  BY <1>2
<1>4. \A j \in {k \in Idx : g[k] # Nil /\ g[k].name = n} : g[j] = e[j]
  BY <1>2
<1> QED BY <1>1, <1>3, <1>4 DEF Stored

(* A commit puts, deletes or moves one object and leaves the others alone.  *)
LEMMA CommitRefines ==
  ASSUME StoreInv, NEW c \in Clients, Commit(c), NEW old, NEW new,
         old = [n \in Names |-> Stored(dir, n)], new = [n \in Names |-> Stored(dir', n)]
  PROVE  \/ new = old
         \/ \E n \in Names :
              \/ Store!Put(old, new, n) \/ Store!Delete(old, new, n)
              \/ \E m \in Names : Store!Move(old, new, n, m)
<1>1. /\ CountInv /\ StoreType /\ Shape(c) /\ StoreIntact /\ dir \in Entries
      /\ \A j, k \in Used(dir) : j # k => dir[j].name # dir[k].name
  BY Parts DEF StoreIntact
<1>2. cl[c].pc \in {"naming", "removing", "updating", "moving"}
  BY <1>1, CommitExpand
<1>3. PICK n \in Names : n = cl[c].name
  BY <1>1, <1>2, ClientTypes DEF Shape, Unnamed
<1>4. ASSUME NEW i, NEW r, Change(c, i, r)
      PROVE  /\ i \in Idx /\ r \in Entry \cup {Nil} /\ dir' = [dir EXCEPT ![i] = r] /\ dir' \in Entries
             /\ dir'[i] = r /\ \A k \in Idx : k # i => dir'[k] = dir[k]
             /\ dir[i] # Nil => dir[i].name = n
             /\ \A j, k \in Used(dir') : j # k => dir'[j].name # dir'[k].name
  <2>1. dir' = [dir EXCEPT ![i] = r] /\ StoreIntact'
    BY <1>4, ChangeIntact
  <2>2. i \in Idx /\ r \in Entry \cup {Nil} /\ (dir[i] # Nil => dir[i].name = n)
    BY <1>3, <1>4 DEF Change
  <2>3. dir' \in Entries /\ dir'[i] = r /\ \A k \in Idx : k # i => dir'[k] = dir[k]
    BY <1>1, <2>1, <2>2 DEF Entries
  <2>4. \A j, k \in Used(dir') : j # k => dir'[j].name # dir'[k].name
    BY <2>1 DEF StoreIntact, Used
  <2> QED BY <2>1, <2>2, <2>3, <2>4
<1>5. CASE cl[c].pc \in {"naming", "updating"}
  <2>1. PICK i, r : Change(c, i, r) /\ r = EntryOf(c) /\ r # Nil
    BY <1>5, CommitChange
  <2>2. r.name = n /\ r.hash \in Roots /\ i \in Used(dir') /\ dir'[i] = r
    BY <1>3, <1>4, <2>1 DEF EntryOf, Entry, Used
  <2>3. Stored(dir', n) = {r.hash}
    BY <1>4, <2>1, <2>2, StoredEntry
  <2>4. \A m \in Names : m # n => Stored(dir', m) = Stored(dir, m)
    BY <1>1, <1>4, <2>1, <2>2, StoredOther
  <2>5. new = [old EXCEPT ![n] = new[n]] /\ new[n] \in {{s} : s \in Roots}
    BY <2>2, <2>3, <2>4
  <2>6. CASE new[n] = old[n]
    BY <2>5, <2>6
  <2>7. CASE new[n] # old[n]
    BY <2>5, <2>7 DEF Store!Put
  <2> QED BY <2>6, <2>7
<1>6. CASE cl[c].pc = "removing"
  <2>1. PICK i \in Used(dir) : Change(c, i, Nil)
    BY <1>6, CommitChange
  <2>2. dir[i].name = n /\ Stored(dir, n) = {dir[i].hash}
    <3>1. dir[i] # Nil
      BY DEF Used
    <3>2. dir[i].name = n
      BY <1>4, <2>1, <3>1
    <3> QED BY <1>1, <3>2, StoredEntry
  <2>3. \A k \in Used(dir') : dir'[k].name # n
    BY <1>1, <1>4, <2>1, <2>2 DEF Used
  <2>4. Stored(dir', n) = {}
    BY <1>4, <2>1, <2>3, StoredNone
  <2>5. \A m \in Names : m # n => Stored(dir', m) = Stored(dir, m)
    BY <1>1, <1>4, <2>1, <2>2, StoredOther
  <2>6. old[n] # {} /\ new[n] = {} /\ new = [old EXCEPT ![n] = {}]
    BY <2>2, <2>4, <2>5
  <2> QED BY <2>6 DEF Store!Delete
<1>7. CASE cl[c].pc = "moving"
  <2>1. PICK i \in Used(dir) : /\ Change(c, i, [dir[i] EXCEPT !.name = cl[c].to])
                               /\ \A k \in Used(dir) : dir[k].name # cl[c].to
    BY <1>7, CommitChange
  <2>2. PICK m \in Names : m = cl[c].to
    BY <1>7, MovesAlone
  <2>3. PICK r : r = [dir[i] EXCEPT !.name = m]
    OBVIOUS
  <2>4. Change(c, i, r) /\ \A k \in Used(dir) : dir[k].name # m
    BY <2>1, <2>2, <2>3
  <2>5. /\ dir[i].name = n /\ n # m /\ dir[i] \in Entry /\ i \in Idx
        /\ Stored(dir, n) = {dir[i].hash} /\ Stored(dir, m) = {}
    <3>1. dir[i] # Nil /\ dir[i] \in Entry /\ i \in Idx
      BY <1>1, EntryTypes DEF Used
    <3>2. dir[i].name = n
      BY <1>4, <2>4, <3>1
    <3>3. n # m
      BY <2>4, <3>2
    <3>4. Stored(dir, n) = {dir[i].hash}
      BY <1>1, <3>2, StoredEntry
    <3>5. Stored(dir, m) = {}
      BY <1>1, <2>4, StoredNone
    <3> QED BY <3>1, <3>2, <3>3, <3>4, <3>5
  <2>6. r.name = m /\ r.hash = dir[i].hash /\ r \in Entry /\ r # Nil
    BY <2>2, <2>3, <2>5, ReeFsAssumption DEF Entry
  <2>7. i \in Used(dir') /\ dir'[i] = r
    BY <1>4, <2>4, <2>6 DEF Used
  <2>8. Stored(dir', m) = {r.hash}
    BY <1>4, <2>4, <2>6, <2>7, StoredEntry
  <2>9. \A k \in Used(dir') : dir'[k].name # n
    BY <1>1, <1>4, <2>4, <2>5, <2>6 DEF Used
  <2>10. Stored(dir', n) = {}
    BY <1>4, <2>4, <2>9, StoredNone
  <2>11. \A k \in Names : k # n /\ k # m => Stored(dir', k) = Stored(dir, k)
    BY <1>1, <1>4, <2>4, <2>5, <2>6, StoredOther
  <2>12. /\ old[n] # {} /\ new[n] = {} /\ old[m] = {}
         /\ new = [old EXCEPT ![n] = {}, ![m] = old[n]]
    BY <2>5, <2>6, <2>8, <2>10, <2>11
  <2> QED BY <2>12 DEF Store!Move
<1> QED BY <1>2, <1>5, <1>6, <1>7

(* Only a commit changes what is on disk under a name.                      *)
LEMMA DirKept ==
  ASSUME [Next]_vars, \A c \in Clients : ~Commit(c)
  PROVE  dir' = dir
<1>1. ASSUME NEW c \in Clients, NEW n \in Names
      PROVE  /\ \A flags : Open(c, n, flags) => dir' = dir
             /\ \A flags, overwrite : Create(c, n, flags, overwrite) => dir' = dir
             /\ Rename(c, n) => dir' = dir
  BY DEF Open, Create, Rename
<1>2. ASSUME NEW c \in Clients,
             \/ FsOpen(c) \/ GivesUp(c) \/ FsClose(c) \/ Release(c) \/ CreateTmp(c) \/ SetName(c) \/ CreateFails(c)
             \/ RemoveOld(c) \/ CreateFinal(c) \/ WriteBlocks(c) \/ WriteSync(c) \/ FsRename(c)
      PROVE  dir' = dir
  BY <1>2 DEF FsOpen, GivesUp, FsClose, Release, CreateTmp, SetName, CreateFails, RemoveOld, CreateFinal,
              WriteBlocks, WriteSync, FsRename
<1>3. ASSUME NEW c \in Clients,
             \/ FsRenameFails(c) \/ PobjRename(c) \/ FsRemove(c) \/ FsRemoveFails(c) \/ RemoveFile(c)
             \/ Fails(c) \/ ReadFails(c) \/ FindsClosed(c) \/ StartEnum(c) \/ ReadDir(c) \/ EnumGet(c) \/ FreeEnum(c)
      PROVE  dir' = dir
  BY <1>3 DEF FsRenameFails, PobjRename, FsRemove, FsRemoveFails, RemoveFile, Fails, ReadFails,
              FindsClosed, StartEnum, ReadDir, EnumGet, FreeEnum
<1>4. PowerLoss => dir' = dir
  BY DEF PowerLoss
<1>5. UNCHANGED vars => dir' = dir
  BY DEF vars
<1> QED BY <1>1, <1>2, <1>3, <1>4, <1>5 DEF Next

(* The secure storage implements ObjectStore: the commit of the directory   *)
(* is the one step of each system call that changes what objects there are, *)
(* and neither a failure nor power loss before or after it is seen.         *)
THEOREM StoreRefined ==
  ASSUME ExclusiveUse
  PROVE  Spec => RefinesStore
<1>1. Init => StoreInv
  BY InitStore
<1>2. StoreInv /\ [Next]_vars => StoreInv'
  BY NextStore
<1>3. Init => Store!Init
  BY DEF Init, Store!Init, StoreOf
<1>4. StoreInv /\ [Next]_vars => [Store!Next]_([n \in Names |-> StoreOf(n)])
  <2> SUFFICES ASSUME StoreInv, [Next]_vars
               PROVE  \/ Store!Next
                      \/ [n \in Names |-> StoreOf(n)]' = [n \in Names |-> StoreOf(n)]
    OBVIOUS
  <2>1. PICK old, new : /\ old = [n \in Names |-> Stored(dir, n)]
                        /\ new = [n \in Names |-> Stored(dir', n)]
    OBVIOUS
  <2>2. old = [n \in Names |-> StoreOf(n)] /\ new = [n \in Names |-> StoreOf(n)]'
    BY <2>1 DEF Stored, StoreOf
  <2>3. CASE \A c \in Clients : ~Commit(c)
    BY <2>1, <2>2, <2>3, DirKept
  <2>4. CASE \E c \in Clients : Commit(c)
    <3>1. PICK c \in Clients : Commit(c)
      BY <2>4
    <3>2. \/ new = old
          \/ \E n \in Names :
               \/ Store!Put(old, new, n) \/ Store!Delete(old, new, n)
               \/ \E m \in Names : Store!Move(old, new, n, m)
      BY <2>1, <3>1, CommitRefines
    <3> QED BY <2>2, <3>2 DEF Store!Next
  <2> QED BY <2>3, <2>4
<1>5. Spec => Init /\ [][Next]_vars
  BY DEF Spec
<1> QED BY <1>1, <1>2, <1>3, <1>4, <1>5, PTL DEF RefinesStore, Store!Spec

(* The assertions of tee_fs_dirfile_update_hash hold when objects that are  *)
(* written are not shared, handles on which a call failed, the last step of *)
(* a rename included, are not written to again, and look-ups fail only for  *)
(* names that are missing; an object overwritten or removed while it is     *)
(* shared reaches them (ReeFsOverwrite.cfg).                                *)
THEOREM UpdateAsserted ==
  ASSUME ExclusiveUse
  PROVE  Spec => []UpdateHashAssert
<1>1. Init => StoreInv
  BY InitStore
<1>2. StoreInv /\ [Next]_vars => StoreInv'
  BY NextStore
<1>3. StoreInv => UpdateHashAssert
  <2> SUFFICES ASSUME StoreInv, NEW c \in Clients, cl[c].pc = "writing"
               PROVE  /\ dirh.ents[cl[c].fh.idx] # Nil
                      /\ dirh.ents[cl[c].fh.idx].file = cl[c].fh.file
                      /\ cl[c].fh.file \in dirh.bits
    BY DEF UpdateHashAssert
  <2>1. CountInv /\ StoreType /\ Shape(c) /\ FlagsOK(c) /\ HandleOK(c) /\ PendingOK(c) /\ DirhInv
    BY Parts
  <2>2. dirh.ents = dir /\ dir[cl[c].fh.idx] = EntryOf(c)
    BY <2>1 DEF FlagsOK, HandleOK, Gone, PendingOK, CommittedOK
  <2>3. /\ cl[c].fh.idx \in Idx /\ cl[c].fh.file \in FileNumbers /\ cl[c].fh.base \in Roots
        /\ cl[c].name \in Names
    BY <2>1, ClientTypes DEF Shape, HasFile, Unnamed
  <2>4. EntryOf(c) \in Entry /\ EntryOf(c).file = cl[c].fh.file
    BY <2>3 DEF EntryOf, Entry
  <2>5. EntryOf(c) # Nil
    BY <2>4, ReeFsAssumption
  <2>6. dirh # Nil /\ cl[c].fh.file \in FilesOf(dirh.ents)
    <3>1. dirh # Nil
      BY <2>1, LockedDirh DEF Locked
    <3> QED BY <2>2, <2>3, <2>4, <2>5, <3>1 DEF FilesOf, Used
  <2> QED BY <2>1, <2>2, <2>4, <2>5, <2>6 DEF DirhInv
<1> QED BY <1>1, <1>2, <1>3, PTL DEF Spec
=============================================================================
