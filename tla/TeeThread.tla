----------------------------- MODULE TeeThread -----------------------------
(***************************************************************************)
(* OP-TEE's threads: how a standard SMC gets one, how it is suspended by   *)
(* an RPC or a foreign interrupt and resumed on any core (thread.c), and   *)
(* the shared memory a thread holds while it makes RPCs                    *)
(* (thread_optee_smc.c): its argument buffer, which a prealloc cache may   *)
(* keep from one call to the next, and its payload buffer.                 *)
(*                                                                         *)
(* A section under thread_lock_global is one step; what follows the unlock *)
(* in alloc_thread and thread_resume_from_rpc is another.  A thread's own  *)
(* program is cut where it leaves for the normal world.  The normal world  *)
(* is modelled from what thread_rpc expects of it.                         *)
(***************************************************************************)
EXTENDS Integers, FiniteSets

CONSTANTS
    Cores,
    NumThreads,     \* CFG_NUM_THREADS
    Cookies,        \* buffers the normal world can hand out
    NoCookie,       \* cookie 0
    Types,          \* enum thread_shm_type; calloc gives DefaultType
    DefaultType,
    Prealloc,       \* CFG_PREALLOC_RPC_CACHE
    MayMisalign,    \* a payload buffer may be unusable for its alignment
    MaxRpc          \* bound on the commands of one call

ASSUME ThreadAssumption ==
    /\ NumThreads \in Nat /\ MaxRpc \in Nat
    /\ NoCookie \notin Cookies
    /\ DefaultType \in Types /\ {"none", "arg"} \cap Types = {}
    /\ Prealloc \in BOOLEAN /\ MayMisalign \in BOOLEAN

THREAD_ID_INVALID == -1
Threads == 0 .. NumThreads - 1

VARIABLES
    state,          \* threads[n].state
    copy_args,      \* THREAD_FLAGS_COPY_ARGS_ON_RETURN in threads[n].flags
    regs,           \* threads[n].regs, x0 to x3: a cookie
    have_user_map,  \* threads[n].have_user_map
    rpc_arg,        \* threads[n].rpc_arg: "null", "own" or "supplied"
    rpc_mobj,       \* threads[n].rpc_mobj, by its cookie
    shm_cache,      \* threads[n].shm_cache: the entry's mobj and type
    prealloc,       \* thread_prealloc_rpc_cache
    curr_thread,    \* thread_core_local.curr_thread
    user_map,       \* the thread whose user mapping a core has active
    at, n,          \* where a core is, and the thread it has just claimed
    pc, cmd,        \* a thread's program, and the command it is sending
    supplied,       \* the call came with an RPC argument struct
    in_ta,          \* the thread's program is inside a TA's session
    rpcs,           \* commands of this call so far
    request,        \* normal world: the last RPC of each thread
    shm             \* normal world: what each buffer is allocated as

tvars == <<state, copy_args, have_user_map>>
avars == <<rpc_arg, rpc_mobj, shm_cache>>
cvars == <<curr_thread, user_map, at, n>>
pvars == <<pc, cmd, supplied, in_ta, rpcs>>
nvars == <<request, shm>>
vars == <<tvars, regs, avars, prealloc, cvars, pvars, nvars>>

(* A command: its operation, buffer type and cookie, and what follows it. *)
Command(op, bt, cookie, ret) ==
    [op |-> op, bt |-> bt, cookie |-> cookie, ret |-> ret]
Other == Command("OTHER", "none", NoCookie, "body")

(* An RPC the normal world was asked for, and its answer. *)
Request(op, bt, cookie) ==
    [op |-> op, bt |-> bt, cookie |-> cookie, answer |-> NoCookie, done |-> FALSE]
NoRequest == Request("none", "none", NoCookie)

Init ==
    /\ state = [t \in Threads |-> "FREE"]
    /\ copy_args = [t \in Threads |-> FALSE]
    /\ regs = [t \in Threads |-> NoCookie]
    /\ have_user_map = [t \in Threads |-> FALSE]
    /\ rpc_arg = [t \in Threads |-> "null"]
    /\ rpc_mobj = [t \in Threads |-> NoCookie]
    /\ shm_cache = [t \in Threads |-> [mobj |-> NoCookie, type |-> DefaultType]]
    /\ prealloc = FALSE
    /\ curr_thread = [c \in Cores |-> THREAD_ID_INVALID]
    /\ user_map = [c \in Cores |-> THREAD_ID_INVALID]
    /\ at = [c \in Cores |-> "nsec"]
    /\ n = [c \in Cores |-> THREAD_ID_INVALID]
    /\ pc = [t \in Threads |-> "none"]
    /\ cmd = [t \in Threads |-> Other]
    /\ supplied = [t \in Threads |-> FALSE]
    /\ in_ta = [t \in Threads |-> FALSE]
    /\ rpcs = [t \in Threads |-> 0]
    /\ request = [t \in Threads |-> NoRequest]
    /\ shm = [k \in Cookies |-> "none"]

----------------------------------------------------------------------------
(* Entry from the normal world: thread_handle_std_smc.                     *)

(* alloc_thread takes the first free thread; with none, ETHREAD_LIMIT. *)
AllocThread(c, s) ==
    /\ at[c] = "nsec"
    /\ \E t \in Threads :
         /\ state[t] = "FREE" /\ \A u \in 0 .. t - 1 : state[u] # "FREE"
         /\ state' = [state EXCEPT ![t] = "ACTIVE"]
         /\ n' = [n EXCEPT ![c] = t]
         /\ supplied' = [supplied EXCEPT ![t] = s]
    /\ at' = [at EXCEPT ![c] = "alloc"]
    /\ UNCHANGED <<copy_args, regs, have_user_map, avars, prealloc, curr_thread,
                   user_map, pc, cmd, in_ta, rpcs, nvars>>

AllocRun(c) ==
    /\ at[c] = "alloc"
    /\ curr_thread' = [curr_thread EXCEPT ![c] = n[c]]
    /\ copy_args' = [copy_args EXCEPT ![n[c]] = FALSE]
    /\ pc' = [pc EXCEPT ![n[c]] = "entry"]
    /\ at' = [at EXCEPT ![c] = "thread"]
    /\ n' = [n EXCEPT ![c] = THREAD_ID_INVALID]
    /\ UNCHANGED <<state, regs, have_user_map, avars, prealloc, user_map,
                   cmd, supplied, in_ta, rpcs, nvars>>

(* Mutant: any thread that is not free can be resumed. *)
ResumeFromRpcActive(c, t) ==
    /\ at[c] = "nsec"
    /\ request[t].done /\ state[t] # "FREE"
    /\ state' = [state EXCEPT ![t] = "ACTIVE"]
    /\ n' = [n EXCEPT ![c] = t]
    /\ at' = [at EXCEPT ![c] = "resume"]
    /\ UNCHANGED <<copy_args, regs, have_user_map, avars, prealloc,
                   curr_thread, user_map, pvars, nvars>>

(* The normal world returns from an RPC it has served, perhaps twice; when *)
(* the thread is not suspended it gets ERESUME.                            *)
ResumeFromRpc(c, t) ==
    /\ at[c] = "nsec"
    /\ request[t].done /\ state[t] = "SUSPENDED"
    /\ state' = [state EXCEPT ![t] = "ACTIVE"]
    /\ n' = [n EXCEPT ![c] = t]
    /\ at' = [at EXCEPT ![c] = "resume"]
    /\ UNCHANGED <<copy_args, regs, have_user_map, avars, prealloc,
                   curr_thread, user_map, pvars, nvars>>

(* a0 to a3 of the call; after a foreign interrupt they mean nothing. *)
ReturnArgs(t) ==
    IF request[t].op = "FOREIGN_INTR" THEN NoCookie ELSE request[t].answer

(* Mutant: the flag is left set. *)
ResumeRunKeepsFlag(c) ==
    /\ at[c] = "resume"
    /\ curr_thread' = [curr_thread EXCEPT ![c] = n[c]]
    /\ user_map' = [user_map EXCEPT ![c] = IF have_user_map[n[c]] THEN n[c] ELSE @]
    /\ regs' = [regs EXCEPT ![n[c]] = IF copy_args[n[c]] THEN ReturnArgs(n[c]) ELSE @]
    /\ at' = [at EXCEPT ![c] = "thread"]
    /\ n' = [n EXCEPT ![c] = THREAD_ID_INVALID]
    /\ UNCHANGED <<state, copy_args, have_user_map, avars, prealloc, pvars, nvars>>

ResumeRun(c) ==
    /\ at[c] = "resume"
    /\ curr_thread' = [curr_thread EXCEPT ![c] = n[c]]
    /\ user_map' = [user_map EXCEPT ![c] = IF have_user_map[n[c]] THEN n[c] ELSE @]
    /\ regs' = [regs EXCEPT ![n[c]] = IF copy_args[n[c]] THEN ReturnArgs(n[c]) ELSE @]
    /\ copy_args' = [copy_args EXCEPT ![n[c]] = FALSE]
    /\ at' = [at EXCEPT ![c] = "thread"]
    /\ n' = [n EXCEPT ![c] = THREAD_ID_INVALID]
    /\ UNCHANGED <<state, have_user_map, avars, prealloc, pvars, nvars>>

----------------------------------------------------------------------------
(* Leaving a core: thread_state_suspend and thread_state_free.             *)

Runs(c, t) == at[c] = "thread" /\ curr_thread[c] = t
Running(t) == \E c \in Cores : Runs(c, t)

(* Mutant: the core keeps the user mapping of the thread that left it. *)
SuspendMapped(c, t, copy) ==
    /\ state' = [state EXCEPT ![t] = "SUSPENDED"]
    /\ copy_args' = [copy_args EXCEPT ![t] = @ \/ copy]
    /\ have_user_map' = [have_user_map EXCEPT ![t] = user_map[c] # THREAD_ID_INVALID]
    /\ curr_thread' = [curr_thread EXCEPT ![c] = THREAD_ID_INVALID]
    /\ at' = [at EXCEPT ![c] = "nsec"]
    /\ UNCHANGED <<regs, prealloc, n, user_map, supplied, in_ta, shm>>

Suspend(c, t, copy) ==
    /\ state' = [state EXCEPT ![t] = "SUSPENDED"]
    /\ copy_args' = [copy_args EXCEPT ![t] = @ \/ copy]
    /\ have_user_map' = [have_user_map EXCEPT ![t] = user_map[c] # THREAD_ID_INVALID]
    /\ user_map' = [user_map EXCEPT ![c] = THREAD_ID_INVALID]
    /\ curr_thread' = [curr_thread EXCEPT ![c] = THREAD_ID_INVALID]
    /\ at' = [at EXCEPT ![c] = "nsec"]
    /\ UNCHANGED <<regs, prealloc, n, supplied, in_ta, shm>>

(* thread_rpc: suspend with a request; the program continues at ret. *)
Rpc(c, t, req, ret) ==
    /\ Runs(c, t)
    /\ Suspend(c, t, TRUE)
    /\ request' = [request EXCEPT ![t] = req]
    /\ pc' = [pc EXCEPT ![t] = ret]

(* Foreign interrupts are masked until tee_entry_std and on the way out. *)
Masked == {"none", "entry", "clear_in", "cleared_in", "exit"}

ForeignIntr(c, t) ==
    /\ Runs(c, t) /\ pc[t] \notin Masked
    /\ Suspend(c, t, FALSE)
    /\ request' = [request EXCEPT ![t].op = "FOREIGN_INTR", ![t].done = TRUE]
    /\ UNCHANGED <<avars, pc, cmd, rpcs>>

(* The thread is done; what is left of its program is reset. *)
ThreadStateFree(c, t) ==
    /\ Runs(c, t) /\ pc[t] = "exit"
    /\ state' = [state EXCEPT ![t] = "FREE"]
    /\ copy_args' = [copy_args EXCEPT ![t] = FALSE]
    /\ curr_thread' = [curr_thread EXCEPT ![c] = THREAD_ID_INVALID]
    /\ at' = [at EXCEPT ![c] = "nsec"]
    /\ pc' = [pc EXCEPT ![t] = "none"]
    /\ cmd' = [cmd EXCEPT ![t] = Other]
    /\ supplied' = [supplied EXCEPT ![t] = FALSE]
    /\ rpcs' = [rpcs EXCEPT ![t] = 0]
    /\ regs' = [regs EXCEPT ![t] = NoCookie]
    /\ request' = [request EXCEPT ![t] = NoRequest]
    /\ UNCHANGED <<have_user_map, avars, prealloc, user_map, n, in_ta, shm>>

----------------------------------------------------------------------------
(* The program of a thread: std_smc_entry and call_entry_std.              *)

Caching == Prealloc /\ prealloc

Goto(t, from, to) ==
    /\ Running(t) /\ pc[t] = from
    /\ pc' = [pc EXCEPT ![t] = to]
    /\ UNCHANGED <<tvars, regs, prealloc, cvars, supplied, in_ta, nvars>>

(* A bad argument address, cookie or SMC number. *)
EntryFails(t) ==
    Goto(t, "entry", "exit") /\ UNCHANGED <<avars, cmd, rpcs>>

Entry(t) ==
    IF supplied[t] /\ Caching
    THEN Goto(t, "entry", "clear_in") /\ UNCHANGED <<avars, cmd, rpcs>>
    ELSE /\ Goto(t, "entry", "body")
         /\ rpc_arg' = [rpc_arg EXCEPT ![t] = IF supplied[t] THEN "supplied" ELSE @]
         /\ UNCHANGED <<rpc_mobj, shm_cache, cmd, rpcs>>

(* clear_prealloc_rpc_cache, before and after tee_entry_std. *)
ClearPrealloc(c, t) ==
    \E where \in {"in", "out"} :
      LET from == IF where = "in" THEN "clear_in" ELSE "clear_out"
          to == IF where = "in" THEN "cleared_in" ELSE "cleared_out"
      IN /\ pc[t] = from
         /\ IF rpc_mobj[t] # NoCookie
            THEN Rpc(c, t, Request("FREE", "arg", rpc_mobj[t]), to)
            ELSE Runs(c, t) /\ Goto(t, from, to)
         /\ UNCHANGED <<avars, cmd, rpcs>>

(* Mutant: rpc_arg keeps pointing to the freed buffer. *)
ClearedKeepsArg(t) ==
    /\ \/ Goto(t, "cleared_in", "body") /\ rpc_arg' = [rpc_arg EXCEPT ![t] = "supplied"]
       \/ Goto(t, "cleared_out", "exit") /\ UNCHANGED rpc_arg
    /\ rpc_mobj' = [rpc_mobj EXCEPT ![t] = NoCookie]
    /\ UNCHANGED <<shm_cache, cmd, rpcs>>

Cleared(t) ==
    /\ \/ Goto(t, "cleared_in", "body") /\ rpc_arg' = [rpc_arg EXCEPT ![t] = "supplied"]
       \/ Goto(t, "cleared_out", "exit") /\ rpc_arg' = [rpc_arg EXCEPT ![t] = "null"]
    /\ rpc_mobj' = [rpc_mobj EXCEPT ![t] = NoCookie]
    /\ UNCHANGED <<shm_cache, cmd, rpcs>>

(* tee_entry_std: enter and leave a TA, whose user mapping is then active. *)
SwitchTa(c, t) ==
    /\ Runs(c, t) /\ pc[t] = "body"
    /\ in_ta' = [in_ta EXCEPT ![t] = ~@]
    /\ user_map' = [user_map EXCEPT ![c] = IF in_ta[t] THEN THREAD_ID_INVALID ELSE t]
    /\ UNCHANGED <<tvars, regs, avars, prealloc, curr_thread, at, n, pc, cmd,
                   supplied, rpcs, nvars>>

(* thread_rpc_cmd. *)
RpcCmd(t) ==
    /\ rpcs[t] < MaxRpc
    /\ Goto(t, "body", "get_arg")
    /\ cmd' = [cmd EXCEPT ![t] = Other]
    /\ rpcs' = [rpcs EXCEPT ![t] = @ + 1]
    /\ UNCHANGED avars

(* clear_shm_cache_entry: free the payload buffer as the entry's type. *)
ClearEntry(t, from, ret) ==
    /\ shm_cache[t].mobj # NoCookie
    /\ Goto(t, from, "get_arg")
    /\ cmd' = [cmd EXCEPT ![t] =
                 Command("SHM_FREE", shm_cache[t].type, shm_cache[t].mobj, ret)]
    /\ UNCHANGED avars

(* thread_rpc_shm_cache_alloc when the cached payload does not do. *)
ShmCacheAlloc(t) ==
    /\ rpcs[t] < MaxRpc
    /\ \/ ClearEntry(t, "body", "alloc")
       \/ /\ shm_cache[t].mobj = NoCookie
          /\ Goto(t, "body", "alloc")
          /\ UNCHANGED <<avars, cmd>>
    /\ rpcs' = [rpcs EXCEPT ![t] = @ + 1]

AllocPayload(t, bt) ==
    /\ Goto(t, "alloc", "get_arg")
    /\ cmd' = [cmd EXCEPT ![t] = Command("SHM_ALLOC", bt, NoCookie, "body")]
    /\ UNCHANGED <<avars, rpcs>>

(* get_rpc_arg: ask for an argument buffer if there is none, then send. *)
SendCmd(c, t) ==
    /\ pc[t] = "get_arg"
    /\ IF rpc_arg[t] = "null"
       THEN Rpc(c, t, Request("ALLOC", "arg", NoCookie), "alloc_arg")
       ELSE Rpc(c, t, Request(cmd[t].op, cmd[t].bt, cmd[t].cookie), "sent")
    /\ UNCHANGED <<avars, cmd, rpcs>>

(* thread_rpc_alloc_arg: the buffer is fit for a mobj ... *)
AllocArg(t) ==
    /\ regs[t] # NoCookie
    /\ Goto(t, "alloc_arg", "get_arg")
    /\ rpc_arg' = [rpc_arg EXCEPT ![t] = "own"]
    /\ rpc_mobj' = [rpc_mobj EXCEPT ![t] = regs[t]]
    /\ UNCHANGED <<shm_cache, cmd, rpcs>>

(* Mutant: a refused allocation is tried again. *)
AllocArgRetries(c, t) ==
    /\ pc[t] = "alloc_arg"
    /\ IF regs[t] # NoCookie
       THEN Rpc(c, t, Request("FREE", "arg", regs[t]), "no_arg")
       ELSE Runs(c, t) /\ Goto(t, "alloc_arg", "get_arg")
    /\ UNCHANGED <<avars, cmd, rpcs>>

(* ... or not, and is given back if there is one. *)
AllocArgFails(c, t) ==
    /\ pc[t] = "alloc_arg"
    /\ IF regs[t] # NoCookie
       THEN Rpc(c, t, Request("FREE", "arg", regs[t]), "no_arg")
       ELSE Runs(c, t) /\ Goto(t, "alloc_arg", "no_arg")
    /\ UNCHANGED <<avars, cmd, rpcs>>

(* Mutant: the entry keeps the mobj it has freed. *)
CmdReturnKeepsMobj(t, from) ==
    /\ from = "no_arg" \/ cmd[t].op # "SHM_ALLOC" \/ request[t].answer = NoCookie
    /\ Goto(t, from, cmd[t].ret)
    /\ cmd' = [cmd EXCEPT ![t] = Other]
    /\ UNCHANGED <<avars, rpcs>>

(* The command was sent, or get_rpc_arg failed: back to its caller. *)
CmdReturn(t, from) ==
    /\ from = "no_arg" \/ cmd[t].op # "SHM_ALLOC" \/ request[t].answer = NoCookie
    /\ Goto(t, from, cmd[t].ret)
    /\ cmd' = [cmd EXCEPT ![t] = Other]
    /\ shm_cache' = [shm_cache EXCEPT ![t].mobj = IF cmd[t].op = "SHM_FREE" THEN NoCookie ELSE @]
    /\ UNCHANGED <<rpc_arg, rpc_mobj, rpcs>>

(* get_rpc_alloc_res: the payload goes into the cache entry; without a     *)
(* mobj it is freed; when unusable the entry is cleared, with the type it  *)
(* had before.                                                             *)
PayloadReturn(t) ==
    LET got == request[t].answer
    IN /\ cmd[t].op = "SHM_ALLOC" /\ got # NoCookie
       /\ UNCHANGED <<rpc_arg, rpc_mobj, rpcs>>
       /\ \/ /\ Goto(t, "sent", "body")
             /\ shm_cache' = [shm_cache EXCEPT ![t] = [mobj |-> got, type |-> cmd[t].bt]]
             /\ cmd' = [cmd EXCEPT ![t] = Other]
          \/ /\ Goto(t, "sent", "get_arg")
             /\ cmd' = [cmd EXCEPT ![t] = Command("SHM_FREE", cmd[t].bt, got, "body")]
             /\ UNCHANGED shm_cache
          \/ /\ MayMisalign
             /\ Goto(t, "sent", "get_arg")
             /\ cmd' = [cmd EXCEPT ![t] = Command("SHM_FREE", shm_cache[t].type, got, "body")]
             /\ UNCHANGED shm_cache

(* tee_entry_std returns, or does not know the command. *)
EntryStd(t) ==
    /\ ~in_ta[t]
    /\ \/ Goto(t, "body", "tail")
       \/ rpcs[t] = 0 /\ Goto(t, "body", "tail_bad")
    /\ UNCHANGED <<avars, cmd, rpcs>>

(* thread_rpc_shm_cache_clear, then the supplied struct, then the cache. *)
Tail(t, from) ==
    \/ ClearEntry(t, from, from) /\ UNCHANGED rpcs
    \/ /\ shm_cache[t].mobj = NoCookie
       /\ rpc_arg' = [rpc_arg EXCEPT ![t] = IF supplied[t] THEN "null" ELSE @]
       /\ shm_cache' = [shm_cache EXCEPT ![t].type = DefaultType]
       /\ Goto(t, from, IF from = "tail" /\ ~Caching THEN "clear_out" ELSE "exit")
       /\ UNCHANGED <<rpc_mobj, cmd, rpcs>>

----------------------------------------------------------------------------
(* Fast calls, under thread_lock_global with interrupts masked.            *)

AllFree == \A t \in Threads : state[t] = "FREE"

(* thread_disable_prealloc_rpc_cache hands back one buffer per call; the   *)
(* normal world frees it.                                                  *)
DisableCache(c) ==
    /\ at[c] = "nsec" /\ AllFree
    /\ IF Prealloc /\ \E t \in Threads : rpc_arg[t] # "null"
       THEN \E t \in Threads :
              /\ rpc_arg[t] # "null" /\ \A u \in 0 .. t - 1 : rpc_arg[u] = "null"
              /\ shm' = [k \in Cookies |-> IF k = rpc_mobj[t] THEN "none" ELSE shm[k]]
              /\ rpc_arg' = [rpc_arg EXCEPT ![t] = "null"]
              /\ rpc_mobj' = [rpc_mobj EXCEPT ![t] = NoCookie]
              /\ UNCHANGED prealloc
       ELSE prealloc' = FALSE /\ UNCHANGED <<rpc_arg, rpc_mobj, shm>>
    /\ UNCHANGED <<tvars, regs, shm_cache, cvars, pvars, request>>

EnableCache(c) ==
    /\ at[c] = "nsec" /\ Prealloc /\ AllFree
    /\ prealloc' = TRUE
    /\ UNCHANGED <<tvars, regs, avars, cvars, pvars, nvars>>

----------------------------------------------------------------------------
(* The normal world serves an RPC; it may refuse to allocate. *)
Serve(t) ==
    LET r == request[t]
    IN /\ r.op # "none" /\ ~r.done
       /\ \/ /\ r.op \in {"ALLOC", "SHM_ALLOC"}
             /\ \E k \in Cookies :
                  /\ shm[k] = "none"
                  /\ shm' = [shm EXCEPT ![k] = r.bt]
                  /\ request' = [request EXCEPT ![t].answer = k, ![t].done = TRUE]
          \/ /\ request' = [request EXCEPT ![t].done = TRUE]
             /\ shm' = [k \in Cookies |->
                          IF r.op \in {"FREE", "SHM_FREE"} /\ k = r.cookie
                          THEN "none" ELSE shm[k]]
       /\ UNCHANGED <<tvars, regs, avars, prealloc, cvars, pvars>>

(* What a thread's program does next, on core c where it needs one. *)
Program(c, t) ==
    \/ EntryFails(t) \/ Entry(t) \/ ClearPrealloc(c, t) \/ Cleared(t)
    \/ RpcCmd(t) \/ ShmCacheAlloc(t) \/ \E bt \in Types : AllocPayload(t, bt)
    \/ SendCmd(c, t) \/ AllocArg(t) \/ AllocArgFails(c, t)
    \/ CmdReturn(t, "no_arg") \/ CmdReturn(t, "sent") \/ PayloadReturn(t)
    \/ EntryStd(t) \/ Tail(t, "tail") \/ Tail(t, "tail_bad")
    \/ ThreadStateFree(c, t) \/ SwitchTa(c, t)

Next ==
    \/ \E c \in Cores :
         \/ \E s \in BOOLEAN : AllocThread(c, s)
         \/ AllocRun(c) \/ ResumeRun(c) \/ DisableCache(c) \/ EnableCache(c)
         \/ \E t \in Threads :
              ResumeFromRpc(c, t) \/ ForeignIntr(c, t) \/ Program(c, t)
    \/ \E t \in Threads : Serve(t)

Spec == Init /\ [][Next]_vars

(* A resumed thread executes before it is interrupted again, a TA returns, *)
(* and Linux serves and returns every RPC.                                 *)
Advance(c, t) == Program(c, t) /\ ~SwitchTa(c, t)
LeaveTa(c, t) == SwitchTa(c, t) /\ in_ta[t]
FairSpec ==
    /\ Spec
    /\ \A t \in Threads :
         /\ SF_vars(\E c \in Cores : Advance(c, t))
         /\ SF_vars(\E c \in Cores : LeaveTa(c, t))
         /\ WF_vars(Serve(t))
         /\ SF_vars(\E c \in Cores : ResumeFromRpc(c, t))
    /\ \A c \in Cores : WF_vars(AllocRun(c) \/ ResumeRun(c))

----------------------------------------------------------------------------
MaybeThread == Threads \cup {THREAD_ID_INVALID}
MaybeCookie == Cookies \cup {NoCookie}
Sent == {"OTHER", "SHM_ALLOC", "SHM_FREE"}
BufferTypes == Types \cup {"none", "arg"}
Places == Masked \cup {"body", "get_arg", "alloc_arg", "no_arg", "sent", "alloc",
                       "tail", "tail_bad", "clear_out", "cleared_out"}

Entries == [mobj : MaybeCookie, type : Types]
Commands == [op : Sent, bt : BufferTypes, cookie : MaybeCookie, ret : Places]
Requests == [op : Sent \cup {"none", "ALLOC", "FREE", "FOREIGN_INTR"}, bt : BufferTypes,
             cookie : MaybeCookie, answer : MaybeCookie, done : BOOLEAN]

(* Types of the threads, the cores and the normal world's view. *)
TypeOK ==
    /\ state \in [Threads -> {"FREE", "ACTIVE", "SUSPENDED"}]
    /\ copy_args \in [Threads -> BOOLEAN]
    /\ regs \in [Threads -> MaybeCookie]
    /\ have_user_map \in [Threads -> BOOLEAN]
    /\ rpc_arg \in [Threads -> {"null", "own", "supplied"}]
    /\ rpc_mobj \in [Threads -> MaybeCookie]
    /\ shm_cache \in [Threads -> Entries]
    /\ prealloc \in BOOLEAN
    /\ curr_thread \in [Cores -> MaybeThread]
    /\ user_map \in [Cores -> MaybeThread]
    /\ at \in [Cores -> {"nsec", "alloc", "resume", "thread"}]
    /\ n \in [Cores -> MaybeThread]
    /\ pc \in [Threads -> Places]
    /\ cmd \in [Threads -> Commands]
    /\ supplied \in [Threads -> BOOLEAN]
    /\ in_ta \in [Threads -> BOOLEAN]
    /\ rpcs \in [Threads -> 0 .. MaxRpc]
    /\ request \in [Threads -> Requests]
    /\ shm \in [Cookies -> BufferTypes]

(* A thread is ACTIVE exactly while one core runs it or has claimed it: a  *)
(* doubled return from RPC, or a call racing with it, never puts two cores *)
(* on one stack, and no active thread is forgotten.                        *)
Owners(t) == {c \in Cores : curr_thread[c] = t \/ n[c] = t}
OneCorePerThread ==
    \A t \in Threads : Cardinality(Owners(t)) = IF state[t] = "ACTIVE" THEN 1 ELSE 0

(* The user mapping follows its thread across suspends and migrations: a   *)
(* core has it active exactly while it runs that thread inside a TA.       *)
UserMapFollowsThread ==
    \A c \in Cores :
        user_map[c] = IF at[c] = "thread" /\ in_ta[curr_thread[c]]
                      THEN curr_thread[c] ELSE THREAD_ID_INVALID

(* "must be the same as supplied when allocating": a buffer OP-TEE asks to *)
(* free is allocated, and as the type it is freed as.                      *)
Outstanding(t) == request[t].op # "none" /\ ~request[t].done
FreedAsAllocated ==
    \A t \in Threads :
        Outstanding(t) /\ request[t].op \in {"FREE", "SHM_FREE"}
          => /\ request[t].cookie # NoCookie
             /\ shm[request[t].cookie] = request[t].bt

(* A command travels in the supplied struct, and then names no buffer, or  *)
(* in a buffer of the thread's own that is still allocated.                *)
CommandHasBuffer ==
    \A t \in Threads :
        Outstanding(t) /\ request[t].op \in Sent
          => IF supplied[t] THEN rpc_arg[t] = "supplied" /\ rpc_mobj[t] = NoCookie
             ELSE /\ rpc_arg[t] = "own"
                  /\ rpc_mobj[t] # NoCookie
                  /\ shm[rpc_mobj[t]] = "arg"

(* Between calls the normal world has nothing allocated but the cached     *)
(* argument buffers, one per thread, and nothing at all once the cache is  *)
(* off: "RPC shared memory is released once the secure thread has          *)
(* completed".                                                             *)
Allocated == {k \in Cookies : shm[k] # "none"}
NothingLeaked ==
    AllFree =>
      /\ Allocated = {rpc_mobj[t] : t \in Threads} \ {NoCookie}
      /\ \A t, u \in Threads : t # u /\ rpc_mobj[t] = rpc_mobj[u] => rpc_mobj[t] = NoCookie
      /\ ~prealloc => Allocated = {}

(* Every call that got a thread gives it back, wherever interrupts and     *)
(* RPCs take it.                                                           *)
CallReturns == \A t \in Threads : state[t] # "FREE" ~> state[t] = "FREE"
=============================================================================
