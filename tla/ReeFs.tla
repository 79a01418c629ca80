------------------------------- MODULE ReeFs -------------------------------
(***************************************************************************)
(* Secure storage in the normal world's file system (tee_ree_fs.c,         *)
(* fs_dirfile.c), the table of persistent objects that are open            *)
(* (tee_pobj.c) and the system calls that use both (tee_svc_storage.c).    *)
(*                                                                         *)
(* An object is a numbered file and an entry of the directory file that    *)
(* names it, gives its number and the hash of its root.  An update commits *)
(* the object's file first and the directory after it, each atomically     *)
(* (module HashTree).  A file is modelled by the set of roots that are     *)
(* whole on disk: a write through a handle spares only the root that       *)
(* handle works on.  Power may be lost between any two steps.              *)
(***************************************************************************)
EXTENDS Integers, FiniteSets, FiniteSetsExt, Functions

CONSTANTS
  Clients,     \* sessions of one multi-instance TA, each with one handle
  Enumerators, \* the clients that also list the objects
  Names,       \* object identifiers
  MaxFile,     \* bound: file numbers are 0..MaxFile
  MaxRoot,     \* bound: roots of one file told apart at any one time
  OpenFlags,   \* by client, sets of flags it opens objects with
  CreateFlags, \* sets of flags objects are created with
  Retry,       \* a handle is written to again after a call on it failed
  FindMayFail, \* the directory file may be unreadable for a moment
  Nil          \* no entry, no handle, no client

VARIABLES
  dir,      \* the directory entries as committed on disk
  files,    \* file number -> the roots that are whole in that file
  dirh,     \* ree_fs_dirh: the entries in memory and the numbers in use
  refcount, \* ree_fs_dirh_refcount
  owner,    \* the client that holds ree_fs_mutex
  pobj,     \* tee_pobjs, by name; an object with no reference is not there
  cl        \* what each client is doing, and its handle

vars == <<dir, files, dirh, refcount, owner, pobj, cl>>

(* ACCESS_READ, ACCESS_WRITE, ACCESS_WRITE_META, SHARE_READ, SHARE_WRITE.   *)
Flags == {"R", "W", "M", "SR", "SW"}

FileNumbers == 0 .. MaxFile

(* A root belongs to the file it was written to.                            *)
Roots == FileNumbers \X (1 .. MaxRoot)

Idx == 0 .. Cardinality(Names)

(* struct dirfile_entry                                                     *)
Entry == [name : Names, file : FileNumbers, hash : Roots]

Entries == [Idx -> Entry \cup {Nil}]

(* struct tee_fs_dirfile_fileh, and the root of the handle's tree.          *)
Handle == [file : FileNumbers, idx : Idx \cup {-1}, base : Roots]

Idle == [pc |-> "idle", name |-> Nil, to |-> Nil, flags |-> {},
         overwrite |-> FALSE, fh |-> Nil, old |-> Nil, failed |-> FALSE,
         closed |-> FALSE, lists |-> FALSE, spare |-> FALSE]

(* struct tee_pobj, and the references to a second one of the same name,    *)
(* which reserves the name for a rename.                                    *)
NoPobj == [refcnt |-> 0, creating |-> FALSE, flags |-> {}, reserved |-> 0]

(* struct tee_fs_dirfile_dirh *)
Dirh == [ents : Entries, bits : SUBSET FileNumbers]

ASSUME ReeFsAssumption ==
  /\ IsFiniteSet(Names) /\ IsFiniteSet(Clients)
  /\ MaxFile \in Nat /\ MaxRoot \in Nat \ {0}
  /\ Retry \in BOOLEAN /\ FindMayFail \in BOOLEAN
  /\ OpenFlags \in [Clients -> SUBSET SUBSET Flags]
  /\ CreateFlags \in SUBSET SUBSET Flags
  /\ Nil \notin Clients \cup Names /\ Nil \notin FileNumbers
  /\ Nil \notin Entry /\ Nil \notin Handle /\ Nil \notin Dirh

Places ==
  {"idle", "opening", "ready", "closing", "releasing", "creating", "tmp",
   "naming", "named", "created", "writing", "updating", "renaming", "moving",
   "moved", "corrupt", "removing", "removed", "listing", "listed", "looking",
   "looked"}

Client ==
  [pc : Places, name : Names \cup {Nil}, to : Names \cup {Nil},
   flags : SUBSET Flags, overwrite : BOOLEAN, fh : Handle \cup {Nil},
   old : FileNumbers \cup {Nil}, failed : BOOLEAN, closed : BOOLEAN,
   lists : BOOLEAN, spare : BOOLEAN]

(* Types of the disk, the directory handle, the table and the clients.      *)
TypeOK ==
  /\ dir \in Entries
  /\ files \in [FileNumbers -> SUBSET Roots]
  /\ dirh \in Dirh \cup {Nil}
  /\ refcount \in Nat
  /\ owner \in Clients \cup {Nil}
  /\ pobj \in [Names -> [refcnt : Nat, creating : BOOLEAN,
                          flags : SUBSET Flags, reserved : Nat]]
  /\ cl \in [Clients -> Client]

Init ==
  /\ dir = [i \in Idx |-> Nil]
  /\ files = [f \in FileNumbers |-> {}]
  /\ dirh = Nil
  /\ refcount = 0
  /\ owner = Nil
  /\ pobj = [n \in Names |-> NoPobj]
  /\ cl = [c \in Clients |-> Idle]

(***************************************************************************)
(* fs_dirfile.c                                                            *)
(***************************************************************************)
Used(ents) == {i \in Idx : ents[i] # Nil}

(* tee_fs_dirfile_open: the entries on disk, without those that repeat a    *)
(* file number, and the numbers in use.                                     *)
DirfileOpen ==
  LET Repeats(i) == \E j \in Used(dir) : j < i /\ dir[j].file = dir[i].file
  IN  [ents |-> [i \in Idx |-> IF dir[i] # Nil /\ Repeats(i) THEN Nil
                               ELSE dir[i]],
       bits |-> {dir[i].file : i \in Used(dir)}]

(* tee_fs_dirfile_find: the index of the first entry of that name, or -1.   *)
Find(ents, n) == LET found == {i \in Used(ents) : ents[i].name = n}
                 IN  IF found = {} THEN -1 ELSE Min(found)

(* tee_fs_dirfile_update_hash: an entry that is free stays free.            *)
UpdateHash(ents, i, r) ==
  [ents EXCEPT ![i] = IF @ = Nil THEN Nil ELSE [@ EXCEPT !.hash = r]]

(* find_empty_idx *)
FindEmptyIdx(ents) == Min(Idx \ Used(ents))

(* tee_fs_dirfile_get_tmp: the lowest number that is not in use.            *)
GetTmp(d) == Min(FileNumbers \ d.bits)

(***************************************************************************)
(* The directory handle: opened by the first user, closed by the last one  *)
(* or by an operation that fails, whose changes to it are dropped that way.*)
(***************************************************************************)
GetDirh == IF dirh = Nil THEN DirfileOpen ELSE dirh

\* mutant: a failing operation leaves its changes in the shared handle
PutDirhKeeps(d, count, close) ==
  /\ refcount' = count - 1
  /\ dirh' = IF count = 1 THEN Nil ELSE d

\* mutant: close drops the handle and the references that go with it
PutDirhForgets(d, count, close) ==
  /\ refcount' = IF close THEN 0 ELSE count - 1
  /\ dirh' = IF count = 1 \/ close THEN Nil ELSE d

(* put_dirh_primitive                                                       *)
PutDirh(d, count, close) ==
  /\ refcount' = count - 1
  /\ dirh' = IF count = 1 \/ close THEN Nil ELSE d

(***************************************************************************)
(* tee_pobj.c                                                              *)
(***************************************************************************)
\* mutant: only the flags of the new handle are looked at
CheckAccessNew(o, n) ==
  /\ "M" \notin n
  /\ "R" \in n => "SR" \in n
  /\ "W" \in n => "SW" \in n

(* tee_pobj_check_access                                                    *)
CheckAccess(o, n) ==
  /\ "M" \notin o \cup n
  /\ "R" \in o \cup n => "SR" \in o \cap n
  /\ "SR" \in o <=> "SR" \in n
  /\ "W" \in o \cup n => "SW" \in o \cap n
  /\ "SW" \in o <=> "SW" \in n

(* tee_pobj_get with usage OPEN or CREATE: its references counted in pobj', *)
(* or refused, which is reported and changes nothing.  A reserved name is   *)
(* reserved with WRITE_META, which excludes every other use.                *)
PobjGet(n, flags, usage, overwrite) ==
  LET o == pobj[n] IN
  /\ o.reserved = 0
  /\ IF o.refcnt = 0
     THEN pobj' = [pobj EXCEPT ![n].refcnt = 1, ![n].flags = flags,
                               ![n].creating = (usage = "create")]
     ELSE /\ ~o.creating
          /\ usage = "create" => overwrite
          /\ CheckAccess(o.flags, flags)
          /\ pobj' = [pobj EXCEPT ![n].refcnt = @ + 1]

(* tee_pobj_get with usage RENAME: any object of that name is in the way.   *)
PobjReserve(n) ==
  /\ pobj[n].refcnt = 0 /\ pobj[n].reserved = 0
  /\ pobj' = [pobj EXCEPT ![n].reserved = 1]

(* tee_pobj_get with usage ENUM is never refused.  It takes the last object *)
(* of that name in the list: the one that reserves it, if there is one.     *)
PobjEnum(n) ==
  pobj' = IF pobj[n].reserved > 0 THEN [pobj EXCEPT ![n].reserved = @ + 1]
          ELSE [pobj EXCEPT ![n].refcnt = @ + 1]

(* tee_pobj_release, of an object and of one that reserves its name.        *)
PobjRelease(n) ==
  pobj' = IF pobj[n].refcnt = 1
          THEN [pobj EXCEPT ![n] = [NoPobj EXCEPT !.reserved = pobj[n].reserved]]
          ELSE [pobj EXCEPT ![n].refcnt = @ - 1]

PobjUnreserve(n) == pobj' = [pobj EXCEPT ![n].reserved = @ - 1]

(***************************************************************************)
(* Roots are names for contents: a new one is any name not in use.         *)
(***************************************************************************)
EntryRoots(ents) == {ents[i].hash : i \in Used(ents)}

HandleRoots == {cl[c].fh.base : c \in {d \in Clients : cl[d].fh # Nil}}

LiveRoots ==
  EntryRoots(dir) \cup (IF dirh = Nil THEN {} ELSE EntryRoots(dirh.ents))
    \cup UNION Range(files) \cup HandleRoots

FreshRoots(f) == {k \in 1 .. MaxRoot : <<f, k>> \notin LiveRoots}

NewRoot(f) == <<f, Min(FreshRoots(f))>>

Goto(c, pc) == cl' = [cl EXCEPT ![c].pc = pc]

(* The client has no handle any more, only its reference to the object.     *)
Done(c) == [Idle EXCEPT !.pc = "releasing", !.name = cl[c].name,
                        !.lists = cl[c].lists, !.spare = cl[c].spare]

(* The client will only close its handle, if it has one.                    *)
Closing(c) == [Idle EXCEPT !.pc = IF cl[c].fh = Nil THEN "releasing"
                                  ELSE "closing",
                           !.name = cl[c].name, !.fh = cl[c].fh]

(* A call returned TEE_ERROR_CORRUPT_OBJECT: remove_corrupt_obj removes the *)
(* object of that name and closes the handle h, if there is one (the TA     *)
(* does not have TA_FLAG_DONT_CLOSE_HANDLE_ON_CORRUPT_OBJECT).              *)
Corrupt(c, h) == [Idle EXCEPT !.pc = "corrupt", !.name = cl[c].name, !.fh = h]

(***************************************************************************)
(* syscall_storage_obj_open                                                *)
(***************************************************************************)
Open(c, n, flags) ==
  /\ cl[c].pc = "idle"
  /\ PobjGet(n, flags, "open", FALSE)
  /\ cl' = [cl EXCEPT ![c].pc = "opening", ![c].name = n, ![c].flags = flags]
  /\ UNCHANGED <<dir, files, dirh, refcount, owner>>

(* ree_fs_open up to its unlock, for an open and for an enumeration.  When  *)
(* it fails, the call reports it or, if this is an open, takes the object   *)
(* for corrupt, intact or not: the normal world answers "not found" to any  *)
(* open that fails, and the directory may have been left closed by an       *)
(* enumeration that could not start (StartEnum).                            *)
FsOpen(c) ==
  LET d == GetDirh
      i == Find(d.ents, cl[c].name)
  IN
  /\ cl[c].pc \in {"opening", "looking"}
  /\ owner = Nil
  /\ \/ /\ i # -1
        /\ d.ents[i].hash \in files[d.ents[i].file]
        /\ dirh' = d
        /\ refcount' = refcount + 1
        /\ cl' = [cl EXCEPT
             ![c].pc = IF @ = "opening" THEN "ready" ELSE "looked",
             ![c].fh = [file |-> d.ents[i].file, idx |-> i,
                        base |-> d.ents[i].hash]]
     \/ /\ PutDirh(d, refcount + 1, TRUE)
        /\ \/ cl' = [cl EXCEPT ![c] = Done(c)]
           \/ /\ cl[c].pc = "opening"
              /\ cl' = [cl EXCEPT ![c] = Corrupt(c, Nil)]
  /\ UNCHANGED <<dir, files, owner, pobj>>

(* An open or a creation fails before it comes to the file system: there is *)
(* no memory for the handle, or the attributes are not those of an object.  *)
GivesUp(c) ==
  /\ cl[c].pc \in {"opening", "creating"}
  /\ cl' = [cl EXCEPT ![c] = Done(c)]
  /\ UNCHANGED <<dir, files, dirh, refcount, owner, pobj>>

(* tee_obj_close: ree_fs_close, then tee_pobj_release.  An enumeration goes *)
(* on, anything else is over.                                               *)
FsClose(c) ==
  /\ cl[c].pc \in {"ready", "created", "closing", "looked"}
  /\ owner = Nil
  /\ PutDirh(dirh, refcount, FALSE)
  /\ cl' = [cl EXCEPT ![c] = Done(c)]
  /\ UNCHANGED <<dir, files, owner, pobj>>

Release(c) ==
  /\ cl[c].pc = "releasing"
  /\ IF cl[c].spare THEN PobjUnreserve(cl[c].name) ELSE PobjRelease(cl[c].name)
  /\ cl' = [cl EXCEPT ![c] = IF ~cl[c].lists THEN Idle
                             ELSE [Idle EXCEPT !.pc = "listing",
                                               !.lists = TRUE]]
  /\ UNCHANGED <<dir, files, dirh, refcount, owner>>

(***************************************************************************)
(* syscall_storage_obj_create, tee_svc_storage_init_file, ree_fs_create    *)
(***************************************************************************)
Create(c, n, flags, overwrite) ==
  /\ cl[c].pc = "idle"
  /\ PobjGet(n, flags, "create", overwrite)
  /\ cl' = [cl EXCEPT ![c].pc = "creating", ![c].name = n,
                      ![c].flags = flags, ![c].overwrite = overwrite]
  /\ UNCHANGED <<dir, files, dirh, refcount, owner>>

(* An unused number, and an empty file of that number.                      *)
CreateTmp(c) ==
  LET d == GetDirh
      f == GetTmp(d)
  IN
  /\ cl[c].pc = "creating"
  /\ owner = Nil
  /\ FileNumbers \ d.bits # {} /\ FreshRoots(f) # {}
  /\ owner' = c
  /\ dirh' = [d EXCEPT !.bits = @ \cup {f}]
  /\ refcount' = refcount + 1
  /\ files' = [files EXCEPT ![f] = {}]
  /\ cl' = [cl EXCEPT ![c].pc = "tmp",
                      ![c].fh = [file |-> f, idx |-> -1, base |-> NewRoot(f)]]
  /\ UNCHANGED <<dir, pobj>>

\* mutant: a name that is taken is not noticed
LookupBlind(ents, n) == {-1}

(* What a look-up reports: where the name is, or that it was not found,     *)
(* which the callers do not tell from a directory that could not be read.   *)
Lookup(ents, n) == {Find(ents, n)} \cup (IF FindMayFail THEN {-1} ELSE {})

(* The new file is synchronised, then set_name and tee_fs_dirfile_rename    *)
(* put it in the directory in memory, in the place of an older one.         *)
SetName(c) ==
  LET h == cl[c].fh
      e == dirh.ents
  IN
  /\ cl[c].pc = "tmp"
  /\ \E i \in Lookup(e, cl[c].name) :
       LET j == IF i # -1 THEN i
                ELSE IF Find(e, cl[c].name) # -1 THEN Find(e, cl[c].name)
                ELSE FindEmptyIdx(e)
       IN
       /\ i = -1 \/ cl[c].overwrite
       /\ Used(e) # Idx \/ Find(e, cl[c].name) # -1
       /\ dirh' = [dirh EXCEPT !.ents[j] =
                     [name |-> cl[c].name, file |-> h.file, hash |-> h.base]]
       /\ cl' = [cl EXCEPT ![c].pc = "naming", ![c].fh.idx = j,
                           ![c].old = IF i = -1 THEN Nil ELSE e[i].file]
  /\ files' = [files EXCEPT ![h.file] = @ \cup {h.base}]
  /\ UNCHANGED <<dir, refcount, owner, pobj>>

(* An error of ree_fs_create: the temporary file is closed and removed.     *)
(* The normal world may fail to remove it, here and below, and nobody       *)
(* looks: its number is free, and who takes it starts with an empty file.   *)
(* When set_name cannot read the directory, tee_fs_dirfile_rename finds it  *)
(* closed, and the system call removes the object that has the name.        *)
CreateFails(c) ==
  /\ cl[c].pc \in {"tmp", "naming"}
  /\ files' = [files EXCEPT ![cl[c].fh.file] = {}]
  /\ PutDirh(dirh, refcount, TRUE)
  /\ owner' = Nil
  /\ \/ cl' = [cl EXCEPT ![c] = Done(c)]
     \/ /\ cl[c].pc = "tmp"
        /\ cl' = [cl EXCEPT ![c] = Corrupt(c, Nil)]
  /\ UNCHANGED <<dir, pobj>>

(* The reference of the operation stays with the new handle.                *)
RemoveOld(c) ==
  /\ cl[c].pc = "named"
  /\ files' = IF cl[c].old = Nil THEN files
              ELSE [files EXCEPT ![cl[c].old] = {}]
  /\ owner' = Nil
  /\ Goto(c, "created")
  /\ UNCHANGED <<dir, dirh, refcount, pobj>>

(* tee_pobj_create_final, which is left out when a transient object's       *)
(* handle becomes the handle of the new object.                             *)
CreateFinal(c) ==
  /\ cl[c].pc = "created"
  /\ pobj' \in {pobj, [pobj EXCEPT ![cl[c].name].creating = FALSE]}
  /\ cl' = [cl EXCEPT ![c].pc = "ready", ![c].overwrite = FALSE,
                      ![c].old = Nil]
  /\ UNCHANGED <<dir, files, dirh, refcount, owner>>

(***************************************************************************)
(* syscall_storage_obj_read.  A read that succeeds changes nothing here;   *)
(* one that fails closes the tree of the handle.                           *)
(***************************************************************************)
ReadFails(c) ==
  /\ cl[c].pc = "ready"
  /\ "R" \in cl[c].flags
  /\ ~cl[c].closed
  /\ owner = Nil
  /\ cl' = [cl EXCEPT ![c].failed = TRUE, ![c].closed = TRUE]
  /\ UNCHANGED <<dir, files, dirh, refcount, owner, pobj>>

(* The next read, write or truncation finds the tree closed.                *)
FindsClosed(c) ==
  /\ cl[c].pc = "ready"
  /\ cl[c].closed
  /\ owner = Nil
  /\ \/ "R" \in cl[c].flags /\ UNCHANGED <<dirh, refcount>>
     \/ "W" \in cl[c].flags /\ PutDirh(GetDirh, refcount + 1, TRUE)
  /\ cl' = [cl EXCEPT ![c] = Corrupt(c, cl[c].fh)]
  /\ UNCHANGED <<dir, files, owner, pobj>>

(***************************************************************************)
(* syscall_storage_obj_write, syscall_storage_obj_trunc: ree_fs_write and  *)
(* ree_fs_truncate take the same steps.  A file is taken to be atomic, as  *)
(* HashTree shows it to be within the limits on truncation stated there.   *)
(***************************************************************************)
WriteBlocks(c) ==
  LET h == cl[c].fh IN
  /\ cl[c].pc = "ready"
  /\ "W" \in cl[c].flags
  /\ ~cl[c].closed
  /\ cl[c].failed => Retry
  /\ owner = Nil
  /\ owner' = c
  /\ dirh' = GetDirh
  /\ refcount' = refcount + 1
  /\ files' = [files EXCEPT ![h.file] = @ \cap {h.base}]
  /\ Goto(c, "writing")
  /\ UNCHANGED <<dir, pobj>>

(* The tree is synchronised and tee_fs_dirfile_update_hash puts its root    *)
(* into the entry the handle remembers.                                     *)
WriteSync(c) ==
  LET h == cl[c].fh
      r == NewRoot(h.file)
  IN
  /\ cl[c].pc = "writing"
  /\ FreshRoots(h.file) # {}
  /\ files' = [files EXCEPT ![h.file] = @ \cup {r}]
  /\ dirh' = [dirh EXCEPT !.ents = UpdateHash(@, h.idx, r)]
  /\ cl' = [cl EXCEPT ![c].pc = "updating", ![c].fh.base = r]
  /\ UNCHANGED <<dir, refcount, owner, pobj>>

(***************************************************************************)
(* syscall_storage_obj_rename, ree_fs_rename without overwrite             *)
(***************************************************************************)
Rename(c, n) ==
  /\ cl[c].pc = "ready"
  /\ "M" \in cl[c].flags
  /\ PobjReserve(n)
  /\ cl' = [cl EXCEPT ![c].pc = "renaming", ![c].to = n]
  /\ UNCHANGED <<dir, files, dirh, refcount, owner>>

FsRename(c) ==
  LET d == GetDirh
      i == Find(d.ents, cl[c].name)
  IN
  /\ cl[c].pc = "renaming"
  /\ owner = Nil
  /\ -1 \in Lookup(d.ents, cl[c].to)
  /\ i # -1
  /\ owner' = c
  /\ dirh' = [d EXCEPT !.ents[i].name = cl[c].to]
  /\ refcount' = refcount + 1
  /\ Goto(c, "moving")
  /\ UNCHANGED <<dir, files, pobj>>

(* The name is taken, or the file system fails: the reserved name is given  *)
(* back.                                                                    *)
FsRenameFails(c) ==
  /\ cl[c].pc = "renaming"
  /\ owner = Nil
  /\ PutDirh(GetDirh, refcount + 1, TRUE)
  /\ PobjUnreserve(cl[c].to)
  /\ cl' = [cl EXCEPT ![c].pc = "ready", ![c].to = Nil]
  /\ UNCHANGED <<dir, files, owner>>

(* tee_pobj_rename, and the release of the reserved name.  It is refused    *)
(* while an enumeration has a reference too, and fails when there is no     *)
(* memory for the name: the object has moved, and the handle and the table  *)
(* keep its old name.                                                       *)
PobjRename(c) ==
  LET n == cl[c].name
      m == cl[c].to
  IN
  /\ cl[c].pc = "moved"
  /\ \/ /\ pobj[n].refcnt = 1
        /\ pobj' = [pobj EXCEPT
             ![m] = [pobj[n] EXCEPT !.reserved = pobj[m].reserved - 1],
             ![n] = [NoPobj EXCEPT !.reserved = pobj[n].reserved]]
        /\ cl' = [cl EXCEPT ![c].pc = "ready", ![c].name = m, ![c].to = Nil]
     \/ /\ PobjUnreserve(m)
        /\ cl' = [cl EXCEPT ![c].pc = "ready", ![c].to = Nil, ![c].failed = TRUE]
  /\ UNCHANGED <<dir, files, dirh, refcount, owner>>

(***************************************************************************)
(* syscall_storage_obj_del and remove_corrupt_obj: ree_fs_remove           *)
(***************************************************************************)
Removes(c) == cl[c].pc = "corrupt" \/ (cl[c].pc = "ready" /\ "M" \in cl[c].flags)

FsRemove(c) ==
  LET d == GetDirh
      i == Find(d.ents, cl[c].name)
  IN
  /\ Removes(c)
  /\ owner = Nil
  /\ i # -1
  /\ owner' = c
  /\ dirh' = [ents |-> [d.ents EXCEPT ![i] = Nil],
              bits |-> d.bits \ {d.ents[i].file}]
  /\ refcount' = refcount + 1
  /\ cl' = [cl EXCEPT ![c].pc = "removing", ![c].old = d.ents[i].file]
  /\ UNCHANGED <<dir, files, pobj>>

(* There is no such object, or the directory cannot be read.                *)
FsRemoveFails(c) ==
  /\ Removes(c)
  /\ owner = Nil
  /\ PutDirh(GetDirh, refcount + 1, TRUE)
  /\ cl' = [cl EXCEPT ![c] = Closing(c)]
  /\ UNCHANGED <<dir, files, owner, pobj>>

(* The file goes after its entry; the handle is closed in any case.         *)
RemoveFile(c) ==
  /\ cl[c].pc = "removed"
  /\ files' = [files EXCEPT ![cl[c].old] = {}]
  /\ PutDirh(dirh, refcount, FALSE)
  /\ owner' = Nil
  /\ cl' = [cl EXCEPT ![c] = Closing(c)]
  /\ UNCHANGED <<dir, pobj>>

(***************************************************************************)
(* commit_dirh_writes, for every operation that changes the directory.     *)
(* Roots that no entry and no handle has are forgotten: nothing can refer  *)
(* to them again.                                                          *)
(***************************************************************************)
Commit(c) ==
  /\ cl[c].pc \in {"naming", "removing", "updating", "moving"}
  /\ dir' = dirh.ents
  /\ files' = [f \in FileNumbers |->
               files[f] \cap (EntryRoots(dirh.ents) \cup HandleRoots)]
  /\ \/ /\ cl[c].pc = "naming"
        /\ Goto(c, "named")
        /\ UNCHANGED <<dirh, refcount, owner>>
     \/ /\ cl[c].pc = "removing"
        /\ Goto(c, "removed")
        /\ UNCHANGED <<dirh, refcount, owner>>
     \/ /\ cl[c].pc \in {"updating", "moving"}
        /\ Goto(c, IF cl[c].pc = "updating" THEN "ready" ELSE "moved")
        /\ PutDirh(dirh, refcount, FALSE)
        /\ owner' = Nil
  /\ UNCHANGED pobj

(* A step of an operation under the mutex fails.  A write may stop and keep *)
(* the tree, or close it; once the tree has its new root, a directory that  *)
(* is not updated leaves the handle ahead of the entry, and one that was    *)
(* left closed (StartEnum) has the object taken for corrupt.                *)
Fails(c) ==
  /\ \/ /\ cl[c].pc = "writing"
        /\ \/ Goto(c, "ready")
           \/ cl' = [cl EXCEPT ![c].pc = "ready", ![c].failed = TRUE,
                               ![c].closed = TRUE]
        /\ UNCHANGED pobj
     \/ /\ cl[c].pc = "updating"
        /\ \/ cl' = [cl EXCEPT ![c].pc = "ready", ![c].failed = TRUE]
           \/ cl' = [cl EXCEPT ![c] = Corrupt(c, cl[c].fh)]
        /\ UNCHANGED pobj
     \/ /\ cl[c].pc = "moving"
        /\ PobjUnreserve(cl[c].to)
        /\ cl' = [cl EXCEPT ![c].pc = "ready", ![c].to = Nil]
     \/ /\ cl[c].pc = "removing"
        /\ cl' = [cl EXCEPT ![c] = Closing(c)]
        /\ UNCHANGED pobj
  /\ PutDirh(dirh, refcount, TRUE)
  /\ owner' = Nil
  /\ UNCHANGED <<dir, files>>

(***************************************************************************)
(* syscall_storage_start_enum, _next_enum and _free_enum                   *)
(***************************************************************************)
(* ree_fs_opendir_rpc.  When there is nothing to list, or the directory     *)
(* cannot be read, the directory handle stays, its tree closed in the       *)
(* second case.  That is not kept: an operation that finds it closed fails, *)
(* as every operation may at any time, and closes the handle.               *)
StartEnum(c) ==
  /\ c \in Enumerators
  /\ cl[c].pc = "idle"
  /\ owner = Nil
  /\ \/ /\ Used(GetDirh.ents) # {}
        /\ dirh' = GetDirh
        /\ refcount' = refcount + 1
        /\ cl' = [cl EXCEPT ![c].pc = "listing", ![c].lists = TRUE]
     \/ PutDirh(GetDirh, refcount + 1, FALSE) /\ UNCHANGED cl
  /\ UNCHANGED <<dir, files, owner, pobj>>

(* ree_fs_readdir_rpc: the next entry, none when all were seen, or an error *)
(* that closes the directory handle.  Where in the directory the            *)
(* enumeration is makes no difference to anything but the order of the      *)
(* names, and is left out.                                                  *)
ReadDir(c) ==
  LET d == GetDirh IN
  /\ cl[c].pc = "listing"
  /\ owner = Nil
  /\ \/ /\ PutDirh(d, refcount + 1, FALSE)
        /\ \/ UNCHANGED cl
           \/ \E i \in Used(d.ents) :
                cl' = [cl EXCEPT ![c].pc = "listed", ![c].name = d.ents[i].name]
     \/ PutDirh(d, refcount + 1, TRUE) /\ UNCHANGED cl
  /\ UNCHANGED <<dir, files, owner, pobj>>

(* The object may be gone, or another one, by the time it is looked at.     *)
EnumGet(c) ==
  /\ cl[c].pc = "listed"
  /\ PobjEnum(cl[c].name)
  /\ cl' = [cl EXCEPT ![c].pc = "looking",
                      ![c].spare = pobj[cl[c].name].reserved > 0]
  /\ UNCHANGED <<dir, files, dirh, refcount, owner>>

FreeEnum(c) ==
  /\ cl[c].pc = "listing"
  /\ owner = Nil
  /\ PutDirh(dirh, refcount, FALSE)
  /\ cl' = [cl EXCEPT ![c] = Idle]
  /\ UNCHANGED <<dir, files, owner, pobj>>

(* Power is lost: what is on disk stays, of which only the roots that       *)
(* entries have can still be found.                                         *)
PowerLoss ==
  /\ dirh' = Nil
  /\ refcount' = 0
  /\ owner' = Nil
  /\ pobj' = [n \in Names |-> NoPobj]
  /\ cl' = [c \in Clients |-> Idle]
  /\ files' = [f \in FileNumbers |-> files[f] \cap EntryRoots(dir)]
  /\ UNCHANGED dir

Next ==
  \/ \E c \in Clients :
       \/ \E n \in Names :
            \/ \E flags \in OpenFlags[c] : Open(c, n, flags)
            \/ \E flags \in CreateFlags, overwrite \in BOOLEAN :
                 Create(c, n, flags, overwrite)
            \/ Rename(c, n)
       \/ FsOpen(c) \/ GivesUp(c) \/ FsClose(c) \/ Release(c)
       \/ CreateTmp(c) \/ SetName(c) \/ CreateFails(c)
       \/ RemoveOld(c) \/ CreateFinal(c)
       \/ ReadFails(c) \/ FindsClosed(c) \/ WriteBlocks(c) \/ WriteSync(c)
       \/ FsRename(c) \/ FsRenameFails(c) \/ PobjRename(c)
       \/ FsRemove(c) \/ FsRemoveFails(c) \/ RemoveFile(c)
       \/ Commit(c) \/ Fails(c)
       \/ StartEnum(c) \/ ReadDir(c) \/ EnumGet(c) \/ FreeEnum(c)
  \/ PowerLoss

Spec == Init /\ [][Next]_vars

(***************************************************************************)
(* Properties                                                              *)
(***************************************************************************)
(* Whichever request or allocation fails and whenever power is lost, every  *)
(* committed entry of the directory (commit_dirh_writes) names a file that  *)
(* holds, whole, the root it gives the hash of, and no two entries share a  *)
(* name or a file number: as long as no session writes through a handle on  *)
(* which a call failed (Retry), and a look-up that fails is one of a        *)
(* missing name (FindMayFail).                                              *)
StoreIntact ==
  /\ \A i \in Used(dir) : dir[i].hash \in files[dir[i].file]
  /\ \A i, j \in Used(dir) :
       i # j => dir[i].name # dir[j].name /\ dir[i].file # dir[j].file

(* A handle that is at rest and on which no write, read or last step of a   *)
(* rename failed is on the object its name stands for: the entry at the     *)
(* index ree_fs_write will update has the handle's name, file and root.     *)
(* Only a handle for reading may have lost its object, taken for corrupt    *)
(* and removed by another that shared it; then no object has its name.      *)
HandleMatchesStore ==
  \A c \in Clients :
    LET h == cl[c].fh IN
    cl[c].pc = "ready" /\ ~cl[c].failed =>
      \/ dir[h.idx] = [name |-> cl[c].name, file |-> h.file, hash |-> h.base]
      \/ /\ cl[c].flags \cap {"W", "M"} = {}
         /\ \A i \in Used(dir) : dir[i].name # cl[c].name

(* ree_fs_dirh_refcount counts the open files, the open directories and the *)
(* operation that runs, although a failing operation closes the handle      *)
(* under the others: the assertions of get_dirh and put_dirh_primitive.     *)
DirhRefsExact ==
  LET Owns(c)  == cl[c].fh # Nil
      Lists(c) == cl[c].lists
      Runs(c)  == cl[c].pc \in {"writing", "updating", "moving", "removing",
                                "removed"}
  IN
  /\ refcount = Cardinality({c \in Clients : Owns(c)})
              + Cardinality({c \in Clients : Lists(c)})
              + Cardinality({c \in Clients : Runs(c)})
  /\ dirh # Nil => refcount > 0
  /\ owner # Nil => dirh # Nil

(* The contents an object has on disk (whole, says StoreIntact); none when  *)
(* the object is not there.                                                 *)
StoreOf(n) == {dir[i].hash : i \in {j \in Idx : dir[j] # Nil /\ dir[j].name = n}}

Store == INSTANCE ObjectStore
         WITH Contents <- {{r} : r \in Roots}, None <- {},
              store <- [n \in Names |-> StoreOf(n)]

(* The commit of the directory puts, removes or moves one object, in one    *)
(* step that leaves the others alone, an object taken for corrupt included; *)
(* everything else, and power loss, leaves all objects as they were.        *)
RefinesStore == Store!Spec

(* The assertions of tee_fs_dirfile_update_hash: the entry a handle is      *)
(* about to update is that of the handle's file, and the file's number is   *)
(* in use.  An entry that was cleared has the number 0.                     *)
UpdateHashAssert ==
  \A c \in Clients : cl[c].pc = "writing" =>
    LET e == dirh.ents[cl[c].fh.idx]
        f == IF e = Nil THEN 0 ELSE e.file
    IN  f = cl[c].fh.file /\ f \in dirh.bits
=============================================================================
