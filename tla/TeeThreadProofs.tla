-------------------------- MODULE TeeThreadProofs --------------------------
(***************************************************************************)
(* A thread runs on one core at most, its user mapping follows it, and the *)
(* shared memory of its RPCs is owned once and given back, for every       *)
(* number of cores, threads, buffers and commands.                         *)
(***************************************************************************)
EXTENDS TeeThread, FiniteSetTheorems, TLAPS

Caller == {"get_arg", "alloc_arg", "no_arg", "sent"}
InBody == Caller \cup {"body", "alloc"}
InCall == InBody \cup {"tail", "tail_bad"}

(* What a core has, by where it is.                                         *)
CoreInv ==
  \A c \in Cores :
    /\ at[c] # "thread" => curr_thread[c] = THREAD_ID_INVALID
                           /\ user_map[c] = THREAD_ID_INVALID
    /\ at[c] \in {"nsec", "thread"} => n[c] = THREAD_ID_INVALID
    /\ at[c] = "alloc" => /\ n[c] \in Threads /\ state[n[c]] = "ACTIVE"
                          /\ pc[n[c]] = "none"
    /\ at[c] = "resume" => /\ n[c] \in Threads /\ state[n[c]] = "ACTIVE"
                           /\ pc[n[c]] # "none"
                           /\ have_user_map[n[c]] <=> in_ta[n[c]]
    /\ at[c] = "thread" =>
         /\ curr_thread[c] \in Threads /\ state[curr_thread[c]] = "ACTIVE"
         /\ pc[curr_thread[c]] # "none" /\ ~copy_args[curr_thread[c]]
         /\ user_map[c] = IF in_ta[curr_thread[c]] THEN curr_thread[c]
                          ELSE THREAD_ID_INVALID

(* The thread a core runs or has claimed.                                   *)
Owned(c) == IF at[c] = "thread" THEN curr_thread[c] ELSE n[c]

OwnerInv ==
  /\ \A c, d \in Cores : Owned(c) = Owned(d) /\ Owned(c) \in Threads => c = d
  /\ \A t \in Threads : state[t] = "ACTIVE" => \E c \in Cores : Owned(c) = t

(* A thread that no core has is suspended in its program, or has none.      *)
StateInv ==
  \A t \in Threads :
    /\ state[t] = "FREE" => pc[t] = "none"
    /\ state[t] = "SUSPENDED" => pc[t] # "none" /\ (have_user_map[t] <=> in_ta[t])
    /\ in_ta[t] => pc[t] \in InBody /\ cmd[t].ret \in {"body", "alloc"}

----------------------------------------------------------------------------
(* The buffer a thread's command names, by the command.                     *)
CmdInv(t) ==
  /\ pc[t] \notin Caller => cmd[t] = Other
  /\ cmd[t].op = "OTHER" => cmd[t] = Other
  /\ cmd[t].op = "SHM_ALLOC" => /\ cmd[t].ret = "body" /\ cmd[t].bt \in Types
                                /\ cmd[t].cookie = NoCookie
                                /\ shm_cache[t].mobj = NoCookie
  /\ cmd[t].op = "SHM_FREE" => /\ cmd[t].cookie # NoCookie /\ cmd[t].bt \in Types
                               /\ cmd[t].ret \in {"body", "alloc", "tail"}
                               /\ shm_cache[t].mobj \in {NoCookie, cmd[t].cookie}
                               /\ rpc_arg[t] # "null"

(* The argument buffer and the payload, by where the program is.            *)
ArgInv(t) ==
  /\ rpc_arg[t] = "own" <=> rpc_mobj[t] # NoCookie
  /\ rpc_arg[t] = "supplied" <=> pc[t] \in InCall /\ supplied[t]
  /\ pc[t] \in {"clear_in", "cleared_in"} => supplied[t]
  /\ pc[t] \in {"alloc_arg", "no_arg"} => rpc_arg[t] = "null"
  /\ pc[t] = "sent" => rpc_arg[t] # "null"
  /\ shm_cache[t].mobj # NoCookie =>
       /\ pc[t] \in InCall \ {"alloc"} /\ rpc_arg[t] # "null" /\ rpcs[t] > 0
  /\ pc[t] \in Caller \cup {"alloc"} => rpcs[t] > 0
  /\ pc[t] = "tail_bad" => rpcs[t] = 0
  /\ ~Caching => /\ pc[t] \in {"none", "entry", "exit"} => rpc_arg[t] = "null"
                 /\ pc[t] \in {"body", "tail_bad"} /\ rpcs[t] = 0 => rpc_arg[t] # "own"

(* The RPC of a thread that waits for one.                                  *)
RequestInv(t) ==
  /\ Outstanding(t) =>
       /\ state[t] = "SUSPENDED" /\ copy_args[t] /\ request[t].answer = NoCookie
       /\ \/ /\ pc[t] = "alloc_arg"
             /\ request[t].op = "ALLOC" /\ request[t].bt = "arg"
          \/ /\ pc[t] = "sent"
             /\ request[t].op = cmd[t].op /\ request[t].bt = cmd[t].bt
             /\ request[t].cookie = cmd[t].cookie
          \/ /\ pc[t] \in {"no_arg", "cleared_in", "cleared_out"}
             /\ request[t].op = "FREE" /\ request[t].bt = "arg"
             /\ request[t].cookie # NoCookie
             /\ pc[t] # "no_arg" => request[t].cookie = rpc_mobj[t]
  /\ copy_args[t] => request[t].op # "FOREIGN_INTR"
  /\ pc[t] = "alloc_arg" /\ ~copy_args[t] => regs[t] = request[t].answer

(* The buffer a thread has of the normal world for its arguments, and the   *)
(* one for its payload, with the type the payload will be freed as.         *)
ArgOf(t) ==
  CASE pc[t] = "alloc_arg" -> request[t].answer
    [] pc[t] = "no_arg" -> IF Outstanding(t) THEN request[t].cookie ELSE NoCookie
    [] pc[t] \in {"cleared_in", "cleared_out"} ->
         IF Outstanding(t) THEN rpc_mobj[t] ELSE NoCookie
    [] OTHER -> rpc_mobj[t]

PayOf(t) ==
  CASE pc[t] = "sent" /\ cmd[t].op = "SHM_ALLOC" -> request[t].answer
    [] pc[t] = "sent" /\ cmd[t].op = "SHM_FREE" ->
         IF Outstanding(t) THEN cmd[t].cookie ELSE NoCookie
    [] pc[t] = "get_arg" /\ cmd[t].op = "SHM_FREE" -> cmd[t].cookie
    [] OTHER -> shm_cache[t].mobj

PayType(t) == IF cmd[t].op \in {"SHM_ALLOC", "SHM_FREE"} THEN cmd[t].bt
              ELSE shm_cache[t].type

(* Every allocated buffer belongs to one thread, in one of the two roles,   *)
(* and nobody counts on a buffer that is not allocated.                     *)
BufferInv ==
  /\ \A t \in Threads : ArgOf(t) # NoCookie => shm[ArgOf(t)] = "arg"
  /\ \A t \in Threads : PayOf(t) # NoCookie =>
       /\ shm[PayOf(t)] \in Types
       /\ ~MayMisalign => shm[PayOf(t)] = PayType(t)
  /\ \A t, u \in Threads : ArgOf(t) = ArgOf(u) /\ ArgOf(t) # NoCookie => t = u
  /\ \A t, u \in Threads : PayOf(t) = PayOf(u) /\ PayOf(t) # NoCookie => t = u
  /\ \A k \in Cookies : shm[k] # "none" =>
       \E t \in Threads : k \in {ArgOf(t), PayOf(t)}

LocalInv(t) == CmdInv(t) /\ ArgInv(t) /\ RequestInv(t)

IInv == /\ TypeOK /\ CoreInv /\ OwnerInv /\ StateInv
        /\ \A t \in Threads : LocalInv(t)
        /\ BufferInv

----------------------------------------------------------------------------
(* Facts about one state. *)

(* -1 is no thread. *)
LEMMA InvalidIsNoThread == THREAD_ID_INVALID \notin Threads
BY ThreadAssumption DEF THREAD_ID_INVALID, Threads

(* A thread that runs is active, has its registers restored, waits for no   *)
(* RPC, and has one core.                                                   *)
LEMMA RunningThread ==
  ASSUME IInv, NEW c \in Cores, NEW t \in Threads, Runs(c, t)
  PROVE  /\ state[t] = "ACTIVE" /\ ~copy_args[t] /\ ~Outstanding(t) /\ pc[t] # "none"
         /\ \A d \in Cores : d # c => n[d] # t /\ curr_thread[d] # t
         /\ n[c] # t
         /\ user_map[c] = IF in_ta[t] THEN t ELSE THREAD_ID_INVALID
<1>1. at[c] = "thread" /\ curr_thread[c] = t
  BY DEF Runs
<1>2. state[t] = "ACTIVE" /\ ~copy_args[t] /\ pc[t] # "none" /\ n[c] # t
      /\ user_map[c] = IF in_ta[t] THEN t ELSE THREAD_ID_INVALID
  BY <1>1, InvalidIsNoThread DEF IInv, CoreInv
<1>3. ~Outstanding(t)
  BY <1>2 DEF IInv, LocalInv, RequestInv
<1>4. ASSUME NEW d \in Cores, d # c PROVE n[d] # t /\ curr_thread[d] # t
  <2>1. Owned(c) = t /\ Owned(d) # t
    BY <1>1, <1>4 DEF IInv, OwnerInv, Owned
  <2>2. at[d] = "thread" \/ (at[d] # "thread" /\ curr_thread[d] = THREAD_ID_INVALID)
    BY DEF IInv, CoreInv
  <2>3. at[d] = "thread" => n[d] = THREAD_ID_INVALID
    BY DEF IInv, CoreInv
  <2> QED BY <2>1, <2>2, <2>3, InvalidIsNoThread DEF Owned
<1> QED BY <1>2, <1>3, <1>4

----------------------------------------------------------------------------
(* What a step of one thread leaves alone. *)

(* Another thread's fields, and with them all that is said of it.           *)
Same(u) ==
  /\ state'[u] = state[u] /\ copy_args'[u] = copy_args[u] /\ regs'[u] = regs[u]
  /\ rpc_arg'[u] = rpc_arg[u] /\ rpc_mobj'[u] = rpc_mobj[u]
  /\ shm_cache'[u] = shm_cache[u] /\ pc'[u] = pc[u] /\ cmd'[u] = cmd[u]
  /\ supplied'[u] = supplied[u] /\ rpcs'[u] = rpcs[u] /\ request'[u] = request[u]

SameBuffers(u) ==
  /\ ArgOf(u)' = ArgOf(u) /\ PayOf(u)' = PayOf(u)
  /\ PayOf(u) # NoCookie /\ ~MayMisalign => PayType(u)' = PayType(u)

(* A thread whose fields do not change keeps its invariant and its buffers. *)
LEMMA SameKeeps ==
  ASSUME NEW u \in Threads, LocalInv(u), Same(u), prealloc' = prealloc
  PROVE  LocalInv(u)' /\ SameBuffers(u)
<1>1. Caching' = Caching /\ Outstanding(u)' = Outstanding(u)
  BY DEF Caching, Outstanding, Same
<1>2. CmdInv(u)'
  BY DEF LocalInv, CmdInv, Same
<1>3. ArgInv(u)'
  BY <1>1 DEF LocalInv, ArgInv, Same
<1>4. RequestInv(u)'
  BY <1>1 DEF LocalInv, RequestInv, Same
<1>5. ArgOf(u)' = ArgOf(u)
  BY <1>1 DEF ArgOf, Same
<1>6. PayOf(u)' = PayOf(u) /\ PayType(u)' = PayType(u)
  BY <1>1 DEF PayOf, PayType, Same
<1> QED BY <1>2, <1>3, <1>4, <1>5, <1>6 DEF LocalInv, SameBuffers

(* Buffers that stay where they are stay owned once.                        *)
LEMMA BuffersKept ==
  ASSUME BufferInv, shm' = shm, \A u \in Threads : SameBuffers(u)
  PROVE  BufferInv'
<1>1. \A t \in Threads : ArgOf(t)' = ArgOf(t) /\ PayOf(t)' = PayOf(t)
  BY DEF SameBuffers
<1>2. \A t \in Threads : (ArgOf(t) # NoCookie => shm[ArgOf(t)] = "arg")'
  BY <1>1 DEF BufferInv
<1>3. \A t \in Threads : (PayOf(t) # NoCookie =>
         shm[PayOf(t)] \in Types /\ (~MayMisalign => shm[PayOf(t)] = PayType(t)))'
  <2> SUFFICES ASSUME NEW t \in Threads, PayOf(t) # NoCookie
               PROVE  /\ shm[PayOf(t)] \in Types
                      /\ ~MayMisalign => shm[PayOf(t)] = PayType(t)'
    BY <1>1
  <2> QED BY DEF BufferInv, SameBuffers
<1>4. (\A t, u \in Threads : ArgOf(t) = ArgOf(u) /\ ArgOf(t) # NoCookie => t = u)'
  BY <1>1 DEF BufferInv
<1>5. (\A t, u \in Threads : PayOf(t) = PayOf(u) /\ PayOf(t) # NoCookie => t = u)'
  BY <1>1 DEF BufferInv
<1>6. (\A k \in Cookies : shm[k] # "none" => \E t \in Threads : k \in {ArgOf(t), PayOf(t)})'
  BY <1>1 DEF BufferInv
<1> QED BY <1>2, <1>3, <1>4, <1>5, <1>6 DEF BufferInv

(* One thread's step, when its buffers stay its own.                        *)
LEMMA OneThreadStep ==
  ASSUME IInv, NEW t \in Threads, \A u \in Threads : u # t => Same(u),
         prealloc' = prealloc, shm' = shm, LocalInv(t)', SameBuffers(t)
  PROVE  (\A u \in Threads : LocalInv(u)') /\ BufferInv'
<1>1. ASSUME NEW u \in Threads PROVE LocalInv(u)' /\ SameBuffers(u)
  <2>1. CASE u = t BY <2>1
  <2>2. CASE u # t BY <2>2, SameKeeps DEF IInv
  <2> QED BY <2>1, <2>2
<1>2. BufferInv'
  BY <1>1, BuffersKept DEF IInv
<1> QED BY <1>1, <1>2

(* Cores are not touched by what a running thread does on its own.          *)
LEMMA GotoCores ==
  ASSUME IInv, NEW t \in Threads, NEW to, Running(t), to # "none",
         pc' = [pc EXCEPT ![t] = to], UNCHANGED <<tvars, cvars, in_ta>>,
         \A u \in Threads : u # t => cmd'[u] = cmd[u],
         in_ta[t] => to \in InBody /\ cmd'[t].ret \in {"body", "alloc"}
  PROVE  CoreInv' /\ OwnerInv' /\ StateInv'
<1>0. PICK c \in Cores : Runs(c, t)
  BY DEF Running
<1>1. state[t] = "ACTIVE" /\ \A d \in Cores : n[d] # t
  BY <1>0, RunningThread
<1>2. pc'[t] = to /\ \A u \in Threads : u # t => pc'[u] = pc[u]
  BY DEF IInv, TypeOK
<1>3. /\ state' = state /\ copy_args' = copy_args /\ have_user_map' = have_user_map
      /\ curr_thread' = curr_thread /\ user_map' = user_map /\ at' = at /\ n' = n
      /\ in_ta' = in_ta
  BY DEF tvars, cvars
<1>4. CoreInv'
  BY <1>1, <1>2, <1>3 DEF IInv, CoreInv
<1>5. OwnerInv'
  BY <1>3 DEF IInv, OwnerInv, Owned
<1>6. StateInv'
  BY <1>1, <1>2, <1>3 DEF IInv, StateInv
<1> QED BY <1>4, <1>5, <1>6

(* A thread that leaves its core for the normal world.                      *)
LEMMA SuspendCores ==
  ASSUME IInv, NEW c \in Cores, NEW t \in Threads, NEW to, NEW copy \in BOOLEAN,
         Runs(c, t), Suspend(c, t, copy), pc' = [pc EXCEPT ![t] = to],
         to # "none", cmd' = cmd, in_ta[t] => to \in InBody
  PROVE  CoreInv' /\ OwnerInv' /\ StateInv'
<1>1. /\ state[t] = "ACTIVE" /\ n[c] # t
      /\ \A d \in Cores : d # c => n[d] # t /\ curr_thread[d] # t
      /\ user_map[c] = IF in_ta[t] THEN t ELSE THREAD_ID_INVALID
  BY RunningThread
<1>2. pc'[t] = to /\ \A u \in Threads : u # t => pc'[u] = pc[u]
  BY DEF IInv, TypeOK
<1>3. /\ state'[t] = "SUSPENDED" /\ have_user_map'[t] = in_ta[t]
      /\ \A u \in Threads : u # t => /\ state'[u] = state[u] /\ copy_args'[u] = copy_args[u]
                                     /\ have_user_map'[u] = have_user_map[u]
  <2>1. (user_map[c] # THREAD_ID_INVALID) = in_ta[t]
    BY <1>1, InvalidIsNoThread DEF IInv, TypeOK
  <2> QED BY <2>1 DEF IInv, TypeOK, Suspend
<1>4. /\ at'[c] = "nsec" /\ user_map'[c] = THREAD_ID_INVALID
      /\ curr_thread'[c] = THREAD_ID_INVALID
      /\ \A d \in Cores : d # c => /\ at'[d] = at[d] /\ user_map'[d] = user_map[d]
                                   /\ curr_thread'[d] = curr_thread[d]
      /\ n' = n /\ in_ta' = in_ta
  BY DEF IInv, TypeOK, Suspend
<1>5. CoreInv'
  <2> SUFFICES ASSUME NEW d \in Cores PROVE CoreInv!(d)'
    BY DEF CoreInv
  <2>1. CASE d = c
    BY <2>1, <1>4 DEF IInv, CoreInv, Runs
  <2>2. CASE d # c
    BY <2>2, <1>1, <1>2, <1>3, <1>4 DEF IInv, CoreInv
  <2> QED BY <2>1, <2>2
<1>6. OwnerInv'
  <2>1. Owned(c) = t /\ Owned(c)' = THREAD_ID_INVALID
    BY <1>4 DEF IInv, CoreInv, Owned, Runs
  <2>2. \A d \in Cores : d # c => Owned(d)' = Owned(d)
    BY <1>4 DEF Owned
  <2>3. (\A d, e \in Cores : Owned(d) = Owned(e) /\ Owned(d) \in Threads => d = e)'
    BY <2>1, <2>2, InvalidIsNoThread DEF IInv, OwnerInv
  <2>4. ASSUME NEW u \in Threads, state'[u] = "ACTIVE" PROVE \E d \in Cores : Owned(d)' = u
    BY <2>4, <1>3, <2>1, <2>2 DEF IInv, OwnerInv
  <2> QED BY <2>3, <2>4 DEF OwnerInv
<1>7. StateInv'
  BY <1>1, <1>2, <1>3, <1>4 DEF IInv, StateInv
<1> QED BY <1>5, <1>6, <1>7

----------------------------------------------------------------------------
(* Types. *)

(* The records a thread's program makes are commands and requests, and an   *)
(* update of one field gives a record of the same kind.                     *)
LEMMA RecordTypes ==
  /\ Other \in Commands /\ NoRequest \in Requests
  /\ \A op \in Sent, bt \in BufferTypes, k \in MaybeCookie, ret \in Places :
       Command(op, bt, k, ret) \in Commands
  /\ \A op \in Sent \cup {"none", "ALLOC", "FREE", "FOREIGN_INTR"}, bt \in BufferTypes,
        k \in MaybeCookie : Request(op, bt, k) \in Requests
BY DEF Other, NoRequest, Command, Request, Commands, Requests, Sent, BufferTypes,
       MaybeCookie, Places, Masked

(* The fields of a cache entry, and one of them updated.                    *)
LEMMA EntryTypes ==
  ASSUME NEW e \in Entries
  PROVE  /\ e.mobj \in MaybeCookie /\ e.type \in Types
         /\ \A k \in MaybeCookie : [e EXCEPT !.mobj = k] \in Entries
         /\ \A bt \in Types : [e EXCEPT !.type = bt] \in Entries
         /\ \A k \in MaybeCookie, bt \in Types : [mobj |-> k, type |-> bt] \in Entries
BY DEF Entries

(* The fields of a request, and what serving it changes.                    *)
LEMMA RequestTypes ==
  ASSUME NEW r \in Requests
  PROVE  /\ r.answer \in MaybeCookie /\ r.cookie \in MaybeCookie /\ r.bt \in BufferTypes
         /\ [r EXCEPT !.op = "FOREIGN_INTR", !.done = TRUE] \in Requests
         /\ [r EXCEPT !.done = TRUE] \in Requests
         /\ \A k \in MaybeCookie : [r EXCEPT !.answer = k, !.done = TRUE] \in Requests
BY DEF Requests

(* The fields of a thread, and one of them updated.                         *)
LEMMA ThreadTypes ==
  ASSUME TypeOK, NEW t \in Threads
  PROVE  /\ rpc_mobj[t] \in MaybeCookie /\ regs[t] \in MaybeCookie
         /\ shm_cache[t] \in Entries /\ cmd[t] \in Commands /\ request[t] \in Requests
         /\ cmd[t].op \in Sent /\ cmd[t].bt \in BufferTypes
         /\ cmd[t].cookie \in MaybeCookie /\ cmd[t].ret \in Places
BY DEF TypeOK, Commands

(* A step of a thread's program on its core keeps the types of the rest.    *)
LEMMA GotoType ==
  ASSUME TypeOK, NEW t \in Threads, NEW from, NEW to \in Places, Goto(t, from, to),
         rpc_arg' \in [Threads -> {"null", "own", "supplied"}],
         rpc_mobj' \in [Threads -> MaybeCookie], shm_cache' \in [Threads -> Entries],
         cmd' \in [Threads -> Commands], rpcs' \in [Threads -> 0 .. MaxRpc]
  PROVE  TypeOK'
BY DEF TypeOK, Goto, tvars, cvars, nvars

(* An RPC keeps the types.                                                  *)
LEMMA RpcType ==
  ASSUME TypeOK, NEW c \in Cores, NEW t \in Threads, NEW req \in Requests,
         NEW to \in Places, Rpc(c, t, req, to), UNCHANGED <<avars, cmd, rpcs>>
  PROVE  TypeOK'
BY DEF TypeOK, Rpc, Suspend, avars, MaybeThread

(* The types hold after every step of a thread's program.                   *)
LEMMA ProgramType ==
  ASSUME IInv, NEW c \in Cores, NEW t \in Threads, Program(c, t)
  PROVE  TypeOK'
<1>0. TypeOK BY DEF IInv
<1>a. /\ rpc_arg \in [Threads -> {"null", "own", "supplied"}]
      /\ rpc_mobj \in [Threads -> MaybeCookie] /\ shm_cache \in [Threads -> Entries]
      /\ cmd \in [Threads -> Commands] /\ rpcs \in [Threads -> 0 .. MaxRpc]
      /\ NoCookie \in MaybeCookie /\ "arg" \in BufferTypes
  BY <1>0 DEF TypeOK, MaybeCookie, BufferTypes
<1>b. {"body", "entry", "exit", "clear_in", "cleared_in", "clear_out", "cleared_out", "tail",
       "tail_bad", "get_arg", "alloc", "alloc_arg", "no_arg", "sent"} \subseteq Places
  BY DEF Places, Masked
<1>c. \A e \in Commands : [cmd EXCEPT ![t] = e] \in [Threads -> Commands]
  BY <1>a
<1>d. rpcs[t] < MaxRpc => [rpcs EXCEPT ![t] = @ + 1] \in [Threads -> 0 .. MaxRpc]
  BY <1>a, ThreadAssumption
<1>e. /\ shm_cache[t].mobj \in MaybeCookie /\ shm_cache[t].type \in Types
      /\ shm_cache[t].type \in BufferTypes
      /\ request[t].answer \in MaybeCookie
  BY <1>0, ThreadTypes, EntryTypes, RequestTypes DEF BufferTypes
<1>f. \A bt \in BufferTypes, k \in MaybeCookie, ret \in Places :
        Command("SHM_FREE", bt, k, ret) \in Commands
        /\ Command("SHM_ALLOC", bt, k, ret) \in Commands
  BY RecordTypes DEF Sent
<1>1. CASE EntryFails(t)
  BY <1>0, <1>1, <1>a, <1>b, GotoType DEF EntryFails, avars
<1>2. CASE Entry(t)
  <2>1. CASE supplied[t] /\ Caching
    BY <2>1, <1>0, <1>2, <1>a, <1>b, GotoType DEF Entry, avars
  <2>2. CASE ~(supplied[t] /\ Caching)
    BY <2>2, <1>0, <1>2, <1>a, <1>b, GotoType DEF Entry, avars
  <2> QED BY <2>1, <2>2
<1>3. CASE ClearPrealloc(c, t)
  <2>1. Request("FREE", "arg", rpc_mobj[t]) \in Requests
    BY <1>0, <1>a, ThreadTypes, RecordTypes
  <2>2. PICK from \in Places, to \in Places :
          /\ UNCHANGED <<avars, cmd, rpcs>>
          /\ \/ Rpc(c, t, Request("FREE", "arg", rpc_mobj[t]), to)
             \/ Goto(t, from, to)
    BY <1>3, <1>b DEF ClearPrealloc
  <2>3. CASE Rpc(c, t, Request("FREE", "arg", rpc_mobj[t]), to)
    BY <1>0, <2>1, <2>2, <2>3, RpcType
  <2>4. CASE Goto(t, from, to)
    BY <1>0, <2>2, <2>4, <1>a, GotoType DEF avars
  <2> QED BY <2>2, <2>3, <2>4
<1>4. CASE Cleared(t)
  <2>1. PICK from \in Places, to \in Places, a \in {"null", "own", "supplied"} :
          Goto(t, from, to) /\ rpc_arg' = [rpc_arg EXCEPT ![t] = a]
    BY <1>4, <1>b DEF Cleared
  <2>2. /\ rpc_mobj' \in [Threads -> MaybeCookie] /\ shm_cache' = shm_cache
        /\ cmd' = cmd /\ rpcs' = rpcs
    BY <1>4, <1>a DEF Cleared
  <2> QED BY <1>0, <2>1, <2>2, <1>a, GotoType
<1>5. CASE RpcCmd(t)
  BY <1>0, <1>5, <1>a, <1>b, <1>c, <1>d, RecordTypes, GotoType DEF RpcCmd, avars
<1>6. CASE ShmCacheAlloc(t)
  <2>1. CASE ClearEntry(t, "body", "alloc")
    BY <1>0, <1>6, <2>1, <1>a, <1>b, <1>c, <1>d, <1>e, <1>f, GotoType
    DEF ShmCacheAlloc, ClearEntry, avars
  <2>2. CASE Goto(t, "body", "alloc") /\ UNCHANGED <<avars, cmd>>
    BY <1>0, <1>6, <2>2, <1>a, <1>b, <1>d, GotoType DEF ShmCacheAlloc, avars
  <2> QED BY <1>6, <2>1, <2>2 DEF ShmCacheAlloc
<1>7. CASE \E bt \in Types : AllocPayload(t, bt)
  <2>1. PICK bt \in Types : AllocPayload(t, bt)
    BY <1>7
  <2>2. Command("SHM_ALLOC", bt, NoCookie, "body") \in Commands
    BY <1>a, <1>b, <1>f DEF BufferTypes
  <2> QED BY <1>0, <2>1, <2>2, <1>a, <1>b, <1>c, GotoType DEF AllocPayload, avars
<1>8. CASE SendCmd(c, t)
  <2>1. Request("ALLOC", "arg", NoCookie) \in Requests
        /\ Request(cmd[t].op, cmd[t].bt, cmd[t].cookie) \in Requests
    BY <1>0, <1>a, ThreadTypes, RecordTypes
  <2>2. UNCHANGED <<avars, cmd, rpcs>>
    BY <1>8 DEF SendCmd
  <2>3. CASE rpc_arg[t] = "null"
    BY <1>0, <1>8, <2>1, <2>2, <2>3, <1>b, RpcType DEF SendCmd
  <2>4. CASE rpc_arg[t] # "null"
    BY <1>0, <1>8, <2>1, <2>2, <2>4, <1>b, RpcType DEF SendCmd
  <2> QED BY <2>3, <2>4
<1>9. CASE AllocArg(t)
  <2>1. rpc_mobj' \in [Threads -> MaybeCookie]
    BY <1>0, <1>9, <1>a, ThreadTypes DEF AllocArg
  <2> QED BY <1>0, <1>9, <2>1, <1>a, <1>b, GotoType DEF AllocArg
<1>10. CASE AllocArgFails(c, t)
  <2>1. Request("FREE", "arg", regs[t]) \in Requests
    BY <1>0, <1>a, ThreadTypes, RecordTypes
  <2>2. UNCHANGED <<avars, cmd, rpcs>>
    BY <1>10 DEF AllocArgFails
  <2>3. CASE regs[t] # NoCookie
    BY <1>0, <1>10, <2>1, <2>2, <2>3, <1>b, RpcType DEF AllocArgFails
  <2>4. CASE regs[t] = NoCookie
    BY <1>0, <1>10, <2>2, <2>4, <1>a, <1>b, GotoType DEF AllocArgFails, avars
  <2> QED BY <2>3, <2>4
<1>11. ASSUME NEW from \in Places, CmdReturn(t, from) PROVE TypeOK'
  <2>1. [shm_cache EXCEPT ![t].mobj = IF cmd[t].op = "SHM_FREE" THEN NoCookie ELSE @]
        \in [Threads -> Entries]
    <3>1. [shm_cache[t] EXCEPT !.mobj = NoCookie] \in Entries
          /\ [shm_cache[t] EXCEPT !.mobj = @] \in Entries
      BY <1>0, <1>a, <1>e, ThreadTypes, EntryTypes
    <3> QED BY <1>a, <3>1
  <2>2. cmd[t].ret \in Places
    BY <1>0, ThreadTypes
  <2> QED BY <1>0, <1>11, <2>1, <2>2, <1>a, <1>c, RecordTypes, GotoType DEF CmdReturn
<1>12. CASE PayloadReturn(t)
  <2>1. cmd[t].bt \in Types /\ cmd[t].bt \in BufferTypes
    BY <1>12 DEF IInv, LocalInv, CmdInv, PayloadReturn, BufferTypes
  <2>2. /\ Command("SHM_FREE", cmd[t].bt, request[t].answer, "body") \in Commands
        /\ Command("SHM_FREE", shm_cache[t].type, request[t].answer, "body") \in Commands
        /\ [mobj |-> request[t].answer, type |-> cmd[t].bt] \in Entries
    BY <2>1, <1>0, <1>b, <1>e, <1>f, ThreadTypes, EntryTypes
  <2>3. PICK to \in Places : Goto(t, "sent", to)
    BY <1>12, <1>b DEF PayloadReturn
  <2>4. rpc_arg' = rpc_arg /\ rpc_mobj' = rpc_mobj /\ rpcs' = rpcs
    BY <1>12 DEF PayloadReturn
  <2>5. shm_cache' \in [Threads -> Entries] /\ cmd' \in [Threads -> Commands]
    BY <1>12, <2>2, <1>a, <1>c, RecordTypes DEF PayloadReturn
  <2> QED BY <1>0, <2>3, <2>4, <2>5, <1>a, GotoType
<1>13. CASE EntryStd(t)
  <2>1. PICK to \in Places : Goto(t, "body", to)
    BY <1>13, <1>b DEF EntryStd
  <2> QED BY <1>0, <1>13, <2>1, <1>a, GotoType DEF EntryStd, avars
<1>14. ASSUME NEW from \in Places, Tail(t, from) PROVE TypeOK'
  <2>1. CASE ClearEntry(t, from, from) /\ UNCHANGED rpcs
    BY <1>0, <1>14, <2>1, <1>a, <1>b, <1>c, <1>e, <1>f, GotoType DEF ClearEntry, avars
  <2>2. CASE ~(ClearEntry(t, from, from) /\ UNCHANGED rpcs)
    <3>1. [shm_cache EXCEPT ![t].type = DefaultType] \in [Threads -> Entries]
      <4>1. [shm_cache[t] EXCEPT !.type = DefaultType] \in Entries
        BY <1>0, ThreadTypes, EntryTypes, ThreadAssumption
      <4> QED BY <1>a, <4>1
    <3>2. PICK to \in Places : Goto(t, from, to)
      BY <1>14, <2>2, <1>b DEF Tail
    <3> QED BY <1>0, <1>14, <2>2, <3>1, <3>2, <1>a, GotoType DEF Tail
  <2> QED BY <2>1, <2>2
<1>15. CASE ThreadStateFree(c, t)
  BY <1>0, <1>15, RecordTypes, ThreadAssumption
  DEF TypeOK, ThreadStateFree, MaybeCookie, MaybeThread, avars, Places, Masked
<1>16. CASE SwitchTa(c, t)
  BY <1>0, <1>16 DEF TypeOK, SwitchTa, MaybeThread, tvars, avars, nvars
<1> QED BY <1>1, <1>2, <1>3, <1>4, <1>5, <1>6, <1>7, <1>8, <1>9, <1>10, <1>11, <1>12,
           <1>13, <1>14, <1>15, <1>16, <1>b DEF Program

(* The types hold after every other step.                                   *)
LEMMA OtherType ==
  ASSUME IInv,
         \/ \E c \in Cores :
              \/ \E s \in BOOLEAN : AllocThread(c, s)
              \/ AllocRun(c) \/ ResumeRun(c) \/ DisableCache(c) \/ EnableCache(c)
              \/ \E t \in Threads : ResumeFromRpc(c, t) \/ ForeignIntr(c, t)
         \/ \E t \in Threads : Serve(t)
  PROVE  TypeOK'
<1> USE DEF tvars, cvars, nvars, avars, pvars
<1>0. TypeOK BY DEF IInv
<1>1. ASSUME NEW c \in Cores, NEW s \in BOOLEAN, AllocThread(c, s) PROVE TypeOK'
  BY <1>0, <1>1 DEF TypeOK, AllocThread, MaybeThread
<1>2. ASSUME NEW c \in Cores, AllocRun(c) PROVE TypeOK'
  BY <1>0, <1>2 DEF TypeOK, AllocRun, MaybeThread, Places, Masked
<1>3. ASSUME NEW c \in Cores, ResumeRun(c) PROVE TypeOK'
  <2>1. n[c] \in Threads
    BY <1>3 DEF IInv, CoreInv, ResumeRun
  <2>2. ReturnArgs(n[c]) \in MaybeCookie
    BY <1>0, <2>1, ThreadTypes, RequestTypes DEF ReturnArgs, MaybeCookie
  <2> QED BY <1>0, <1>3, <2>1, <2>2 DEF TypeOK, ResumeRun, MaybeThread
<1>4. ASSUME NEW c \in Cores, DisableCache(c) PROVE TypeOK'
  <2>1. shm' \in [Cookies -> BufferTypes]
    BY <1>0, <1>4 DEF TypeOK, DisableCache, BufferTypes
  <2>2. prealloc' \in BOOLEAN /\ rpc_arg' \in [Threads -> {"null", "own", "supplied"}]
        /\ rpc_mobj' \in [Threads -> MaybeCookie]
    BY <1>0, <1>4 DEF TypeOK, DisableCache, MaybeCookie
  <2> QED BY <1>0, <1>4, <2>1, <2>2 DEF TypeOK, DisableCache
<1>5. ASSUME NEW c \in Cores, EnableCache(c) PROVE TypeOK'
  BY <1>0, <1>5 DEF TypeOK, EnableCache
<1>6. ASSUME NEW c \in Cores, NEW t \in Threads, ResumeFromRpc(c, t) PROVE TypeOK'
  BY <1>0, <1>6 DEF TypeOK, ResumeFromRpc, MaybeThread
<1>7. ASSUME NEW c \in Cores, NEW t \in Threads, ForeignIntr(c, t) PROVE TypeOK'
  <2>1. request' \in [Threads -> Requests]
    <3>1. [request[t] EXCEPT !.op = "FOREIGN_INTR", !.done = TRUE] \in Requests
      BY <1>0, ThreadTypes, RequestTypes
    <3>2. request' = [request EXCEPT ![t] = [request[t] EXCEPT !.op = "FOREIGN_INTR", !.done = TRUE]]
      BY <1>0, <1>7 DEF ForeignIntr, TypeOK
    <3> QED BY <1>0, <3>1, <3>2 DEF TypeOK
  <2> QED BY <1>0, <1>7, <2>1 DEF TypeOK, ForeignIntr, Suspend, MaybeThread
<1>8. ASSUME NEW t \in Threads, Serve(t) PROVE TypeOK'
  <2>1. /\ [request[t] EXCEPT !.done = TRUE] \in Requests
        /\ \A k \in Cookies : [request[t] EXCEPT !.answer = k, !.done = TRUE] \in Requests
        /\ request[t].bt \in BufferTypes
    BY <1>0, ThreadTypes, RequestTypes DEF MaybeCookie
  <2>2. PICK r \in Requests : request' = [request EXCEPT ![t] = r]
    <3>1. CASE request' = [request EXCEPT ![t].done = TRUE]
      <4>1. request' = [request EXCEPT ![t] = [request[t] EXCEPT !.done = TRUE]]
        BY <3>1
      <4> QED BY <4>1, <2>1
    <3>2. ASSUME NEW k \in Cookies, request' = [request EXCEPT ![t].answer = k, ![t].done = TRUE]
          PROVE  \E r \in Requests : request' = [request EXCEPT ![t] = r]
      <4>1. request' = [request EXCEPT ![t] = [request[t] EXCEPT !.answer = k, !.done = TRUE]]
        BY <3>2, <1>0 DEF TypeOK
      <4> QED BY <4>1, <2>1
    <3> QED BY <1>8, <3>1, <3>2 DEF Serve
  <2>3. shm' \in [Cookies -> BufferTypes]
    <3>1. "none" \in BufferTypes BY DEF BufferTypes
    <3>2. \/ \E k \in Cookies : shm' = [shm EXCEPT ![k] = request[t].bt]
          \/ shm' = [k \in Cookies |->
                       IF request[t].op \in {"FREE", "SHM_FREE"} /\ k = request[t].cookie
                       THEN "none" ELSE shm[k]]
      BY <1>8 DEF Serve
    <3> QED BY <1>0, <2>1, <3>1, <3>2 DEF TypeOK
  <2>4. request' \in [Threads -> Requests]
    BY <1>0, <2>2 DEF TypeOK
  <2> QED BY <1>0, <1>8, <2>3, <2>4 DEF TypeOK, Serve
<1> QED BY <1>1, <1>2, <1>3, <1>4, <1>5, <1>6, <1>7, <1>8

----------------------------------------------------------------------------
(* The steps of a thread's program. *)

(* A step that changes the argument buffer, the payload or the command of   *)
(* the thread that takes it, and moves its program.                         *)
LEMMA GotoStep ==
  ASSUME IInv, NEW t \in Threads, NEW from, NEW to, Goto(t, from, to), to # "none", TypeOK',
         \A u \in Threads : u # t =>
           /\ rpc_arg'[u] = rpc_arg[u] /\ rpc_mobj'[u] = rpc_mobj[u]
           /\ shm_cache'[u] = shm_cache[u] /\ cmd'[u] = cmd[u] /\ rpcs'[u] = rpcs[u],
         in_ta[t] => to \in InBody /\ cmd'[t].ret \in {"body", "alloc"},
         LocalInv(t)', SameBuffers(t)
  PROVE  IInv'
<1>1. /\ Running(t) /\ pc' = [pc EXCEPT ![t] = to] /\ prealloc' = prealloc /\ shm' = shm
      /\ UNCHANGED <<tvars, cvars, in_ta>>
  BY DEF Goto, nvars
<1>2. CoreInv' /\ OwnerInv' /\ StateInv'
  BY <1>1, GotoCores
<1>3. \A u \in Threads : u # t => Same(u)
  BY DEF Goto, tvars, nvars, Same, IInv, TypeOK
<1>4. (\A u \in Threads : LocalInv(u)') /\ BufferInv'
  BY <1>1, <1>3, OneThreadStep
<1> QED BY <1>2, <1>4 DEF IInv

(* A step that leaves the core with a request.                              *)
LEMMA RpcStep ==
  ASSUME IInv, NEW c \in Cores, NEW t \in Threads, NEW req, NEW to, Rpc(c, t, req, to),
         to # "none", TypeOK', UNCHANGED <<avars, cmd, rpcs>>,
         in_ta[t] => to \in InBody, LocalInv(t)', SameBuffers(t)
  PROVE  IInv'
<1>1. /\ Runs(c, t) /\ Suspend(c, t, TRUE) /\ pc' = [pc EXCEPT ![t] = to] /\ cmd' = cmd
      /\ prealloc' = prealloc /\ shm' = shm
  BY DEF Rpc, Suspend
<1>2. CoreInv' /\ OwnerInv' /\ StateInv'
  BY <1>1, SuspendCores
<1>3. \A u \in Threads : u # t => Same(u)
  BY DEF Rpc, Suspend, avars, Same, IInv, TypeOK
<1>4. (\A u \in Threads : LocalInv(u)') /\ BufferInv'
  BY <1>1, <1>3, OneThreadStep
<1> QED BY <1>2, <1>4 DEF IInv

(* What is known of a thread that takes a step of its own, and how Goto and *)
(* Rpc change it.                                                           *)
LEMMA AtGoto ==
  ASSUME IInv, NEW t \in Threads, NEW from, NEW to, Goto(t, from, to)
  PROVE  /\ pc[t] = from /\ pc'[t] = to
         /\ state[t] = "ACTIVE" /\ ~copy_args[t] /\ ~Outstanding(t)
         /\ state'[t] = "ACTIVE" /\ ~copy_args'[t] /\ ~Outstanding(t)'
         /\ regs'[t] = regs[t] /\ supplied'[t] = supplied[t] /\ request'[t] = request[t]
         /\ Caching' = Caching
<1>1. PICK c \in Cores : Runs(c, t)
  BY DEF Goto, Running
<1>2. state[t] = "ACTIVE" /\ ~copy_args[t] /\ ~Outstanding(t)
  BY <1>1, RunningThread
<1> QED BY <1>2 DEF Goto, tvars, nvars, IInv, TypeOK, Caching, Outstanding

(* After an RPC the thread is suspended with its request outstanding.       *)
LEMMA AtRpc ==
  ASSUME IInv, NEW c \in Cores, NEW t \in Threads, NEW op, NEW bt, NEW k, NEW to,
         op # "none", Rpc(c, t, Request(op, bt, k), to), UNCHANGED <<avars, cmd, rpcs>>
  PROVE  /\ pc'[t] = to /\ ~copy_args[t] /\ ~Outstanding(t)
         /\ state'[t] = "SUSPENDED" /\ copy_args'[t] /\ Outstanding(t)'
         /\ request'[t].op = op /\ request'[t].bt = bt /\ request'[t].cookie = k
         /\ request'[t].answer = NoCookie
         /\ regs'[t] = regs[t] /\ supplied'[t] = supplied[t]
         /\ rpc_arg'[t] = rpc_arg[t] /\ rpc_mobj'[t] = rpc_mobj[t]
         /\ shm_cache'[t] = shm_cache[t] /\ cmd'[t] = cmd[t] /\ rpcs'[t] = rpcs[t]
         /\ Caching' = Caching
<1>1. Runs(c, t) /\ Suspend(c, t, TRUE) /\ pc' = [pc EXCEPT ![t] = to]
      /\ request' = [request EXCEPT ![t] = Request(op, bt, k)]
  BY DEF Rpc
<1>2. ~copy_args[t] /\ ~Outstanding(t)
  BY <1>1, RunningThread
<1>3. request'[t] = Request(op, bt, k) /\ pc'[t] = to
  BY <1>1 DEF IInv, TypeOK
<1>4. /\ request'[t].op = op /\ request'[t].bt = bt /\ request'[t].cookie = k
      /\ request'[t].answer = NoCookie /\ Outstanding(t)'
  BY <1>3 DEF Request, Outstanding
<1>5. state'[t] = "SUSPENDED" /\ copy_args'[t]
  BY <1>1 DEF Suspend, IInv, TypeOK
<1> QED BY <1>1, <1>2, <1>3, <1>4, <1>5 DEF Suspend, avars, Caching

(* A call that is refused: the invariant is kept.                           *)
LEMMA EntryFailsStep ==
  ASSUME IInv, NEW t \in Threads, EntryFails(t), TypeOK' PROVE IInv'
<1>1. Goto(t, "entry", "exit") /\ UNCHANGED <<rpc_arg, rpc_mobj, shm_cache, cmd, rpcs>>
  BY DEF EntryFails, avars
<1>2. LocalInv(t)
  BY DEF IInv
<1>3. LocalInv(t)'
  BY <1>1, <1>2, AtGoto DEF LocalInv, CmdInv, ArgInv, RequestInv, Caller, InBody, InCall
<1>4. SameBuffers(t)
  BY <1>1, <1>2, AtGoto DEF SameBuffers, ArgOf, PayOf, PayType
<1>5. ~in_ta[t]
  BY <1>1, AtGoto DEF IInv, StateInv, InBody, Caller
<1> QED BY <1>1, <1>3, <1>4, <1>5, GotoStep

(* A call that is accepted: the invariant is kept.                          *)
LEMMA EntryStep ==
  ASSUME IInv, NEW t \in Threads, Entry(t), TypeOK' PROVE IInv'
<1>2. LocalInv(t) /\ rpc_arg \in [Threads -> {"null", "own", "supplied"}]
  BY DEF IInv, TypeOK
<1>a. CASE supplied[t] /\ Caching
  <2>1. Goto(t, "entry", "clear_in") /\ UNCHANGED <<rpc_arg, rpc_mobj, shm_cache, cmd, rpcs>>
    BY <1>a DEF Entry, avars
  <2>3. LocalInv(t)'
    <3>1. CmdInv(t)' BY <2>1, <1>2, AtGoto DEF LocalInv, CmdInv, Caller
    <3>a. supplied'[t] /\ Caching' /\ pc[t] = "entry" /\ pc'[t] = "clear_in"
      BY <2>1, <1>a, AtGoto
    <3>2. ArgInv(t)' BY <2>1, <1>2, <3>a DEF LocalInv, ArgInv, Caller, InBody, InCall
    <3>3. RequestInv(t)' BY <2>1, <1>2, AtGoto DEF LocalInv, RequestInv
    <3> QED BY <3>1, <3>2, <3>3 DEF LocalInv
  <2>4. SameBuffers(t)
    BY <2>1, <1>2, AtGoto DEF SameBuffers, ArgOf, PayOf, PayType
  <2>5. ~in_ta[t]
    BY <2>1, AtGoto DEF IInv, StateInv, InBody, Caller
  <2> QED BY <2>1, <2>3, <2>4, <2>5, GotoStep
<1>b. CASE ~(supplied[t] /\ Caching)
  <2>1. Goto(t, "entry", "body") /\ UNCHANGED <<rpc_mobj, shm_cache, cmd, rpcs>>
        /\ rpc_arg'[t] = (IF supplied[t] THEN "supplied" ELSE rpc_arg[t])
        /\ \A u \in Threads : u # t => rpc_arg'[u] = rpc_arg[u]
    BY <1>b, <1>2 DEF Entry
  <2>3. LocalInv(t)'
    BY <2>1, <1>2, <1>b, AtGoto DEF LocalInv, CmdInv, ArgInv, RequestInv, Caller, InBody, InCall
  <2>4. SameBuffers(t)
    BY <2>1, <1>2, AtGoto DEF SameBuffers, ArgOf, PayOf, PayType
  <2>5. ~in_ta[t]
    BY <2>1, AtGoto DEF IInv, StateInv, InBody, Caller
  <2> QED BY <2>1, <2>3, <2>4, <2>5, GotoStep
<1> QED BY <1>a, <1>b

(* Clearing the cache of a thread keeps the invariant.                      *)
LEMMA ClearPreallocStep ==
  ASSUME IInv, NEW c \in Cores, NEW t \in Threads, ClearPrealloc(c, t), TypeOK' PROVE IInv'
<1>1. PICK from, to : /\ \/ from = "clear_in" /\ to = "cleared_in"
                         \/ from = "clear_out" /\ to = "cleared_out"
                      /\ pc[t] = from
                      /\ IF rpc_mobj[t] # NoCookie
                         THEN Rpc(c, t, Request("FREE", "arg", rpc_mobj[t]), to)
                         ELSE Runs(c, t) /\ Goto(t, from, to)
  BY DEF ClearPrealloc
<1>2. LocalInv(t) /\ UNCHANGED <<avars, cmd, rpcs>>
  BY DEF IInv, ClearPrealloc
<1>5. ~in_ta[t]
  BY <1>1 DEF IInv, StateInv, InBody, Caller
<1>a. CASE rpc_mobj[t] # NoCookie
  <2>1. Rpc(c, t, Request("FREE", "arg", rpc_mobj[t]), to)
    BY <1>1, <1>a
  <2>3. LocalInv(t)'
    BY <1>1, <2>1, <1>2, <1>a, AtRpc DEF LocalInv, CmdInv, ArgInv, RequestInv, Caller, InBody, InCall
  <2>4. SameBuffers(t)
    BY <1>1, <2>1, <1>2, AtRpc DEF SameBuffers, ArgOf, PayOf, PayType
  <2> QED BY <1>1, <1>2, <2>1, <2>3, <2>4, <1>5, RpcStep
<1>b. CASE rpc_mobj[t] = NoCookie
  <2>1. Goto(t, from, to) /\ UNCHANGED <<rpc_arg, rpc_mobj, shm_cache, cmd, rpcs>>
    BY <1>1, <1>2, <1>b DEF avars
  <2>3. LocalInv(t)'
    BY <1>1, <2>1, <1>2, <1>b, AtGoto DEF LocalInv, CmdInv, ArgInv, RequestInv, Caller, InBody, InCall
  <2>4. SameBuffers(t)
    BY <1>1, <2>1, <1>2, <1>b, AtGoto DEF SameBuffers, ArgOf, PayOf, PayType
  <2> QED BY <1>1, <2>1, <2>3, <2>4, <1>5, GotoStep
<1> QED BY <1>a, <1>b

(* The next entry of a cleared cache keeps the invariant.                   *)
LEMMA ClearedStep ==
  ASSUME IInv, NEW t \in Threads, Cleared(t), TypeOK' PROVE IInv'
<1>1. PICK from, to, a : /\ \/ from = "cleared_in" /\ to = "body" /\ a = "supplied"
                            \/ from = "cleared_out" /\ to = "exit" /\ a = "null"
                         /\ Goto(t, from, to) /\ rpc_arg' = [rpc_arg EXCEPT ![t] = a]
  BY DEF Cleared
<1>2. LocalInv(t)
  BY DEF IInv
<1>3. /\ UNCHANGED <<shm_cache, cmd, rpcs>>
      /\ rpc_arg'[t] = a /\ rpc_mobj'[t] = NoCookie
      /\ \A u \in Threads : u # t => rpc_arg'[u] = rpc_arg[u] /\ rpc_mobj'[u] = rpc_mobj[u]
  BY <1>1 DEF Cleared, IInv, TypeOK
<1>4. LocalInv(t)'
  <2>1. CmdInv(t)' BY <1>1, <1>2, <1>3, AtGoto DEF LocalInv, CmdInv, Caller, Other, Command
  <2>2. ArgInv(t)' BY <1>1, <1>2, <1>3, AtGoto DEF LocalInv, ArgInv, Caller, InBody, InCall
  <2>3. RequestInv(t)' BY <1>1, <1>2, <1>3, AtGoto DEF LocalInv, RequestInv
  <2> QED BY <2>1, <2>2, <2>3 DEF LocalInv
<1>5. SameBuffers(t)
  BY <1>1, <1>2, <1>3, AtGoto DEF SameBuffers, ArgOf, PayOf, PayType
<1>6. ~in_ta[t]
  BY <1>1, AtGoto DEF IInv, StateInv, InBody, Caller
<1> QED BY <1>1, <1>3, <1>4, <1>5, <1>6, GotoStep

(* The start of an RPC keeps the invariant.                                 *)
LEMMA RpcCmdStep ==
  ASSUME IInv, NEW t \in Threads, RpcCmd(t), TypeOK' PROVE IInv'
<1>1. /\ Goto(t, "body", "get_arg") /\ UNCHANGED <<rpc_arg, rpc_mobj, shm_cache>>
      /\ cmd'[t] = Other /\ rpcs'[t] = rpcs[t] + 1 /\ rpcs[t] \in Nat
      /\ \A u \in Threads : u # t => cmd'[u] = cmd[u] /\ rpcs'[u] = rpcs[u]
  BY ThreadAssumption DEF RpcCmd, avars, IInv, TypeOK
<1>2. LocalInv(t) /\ cmd[t] = Other
  BY <1>1, AtGoto DEF IInv, LocalInv, CmdInv, Caller
<1>3. LocalInv(t)'
  <2>1. CmdInv(t)' BY <1>1, <1>2, AtGoto DEF LocalInv, CmdInv, Caller, Other, Command
  <2>2. ArgInv(t)' BY <1>1, <1>2, AtGoto DEF LocalInv, ArgInv, Caller, InBody, InCall
  <2>3. RequestInv(t)' BY <1>1, <1>2, AtGoto DEF LocalInv, RequestInv
  <2> QED BY <2>1, <2>2, <2>3 DEF LocalInv
<1>4. SameBuffers(t)
  BY <1>1, <1>2, AtGoto DEF SameBuffers, ArgOf, PayOf, PayType, Other, Command
<1>5. "get_arg" \in InBody /\ cmd'[t].ret = "body"
  BY <1>1 DEF InBody, Caller, Other, Command
<1> QED BY <1>1, <1>3, <1>4, <1>5, GotoStep

(* clear_shm_cache_entry sends the cached payload back. *)
LEMMA ClearEntryStep ==
  ASSUME IInv, NEW t \in Threads, NEW from \in {"body", "tail", "tail_bad"}, NEW ret,
         ClearEntry(t, from, ret), TypeOK',
         \/ from = "body" /\ ret = "alloc" /\ rpcs' = [rpcs EXCEPT ![t] = @ + 1]
         \/ from # "body" /\ ret = from /\ rpcs' = rpcs
  PROVE  IInv'
<1>1. /\ Goto(t, from, "get_arg") /\ UNCHANGED <<rpc_arg, rpc_mobj, shm_cache>>
      /\ cmd'[t] = Command("SHM_FREE", shm_cache[t].type, shm_cache[t].mobj, ret)
      /\ shm_cache[t].mobj # NoCookie
      /\ \A u \in Threads : u # t => cmd'[u] = cmd[u] /\ rpcs'[u] = rpcs[u]
  BY DEF ClearEntry, avars, IInv, TypeOK
<1>a. /\ cmd'[t].op = "SHM_FREE" /\ cmd'[t].bt = shm_cache[t].type
      /\ cmd'[t].cookie = shm_cache[t].mobj /\ cmd'[t].ret = ret
  BY <1>1 DEF Command
<1>b. rpcs'[t] \in {rpcs[t], rpcs[t] + 1} /\ rpcs[t] \in Nat /\ shm_cache[t].type \in Types
  BY ThreadTypes, EntryTypes, ThreadAssumption DEF IInv, TypeOK
<1>2. LocalInv(t) /\ cmd[t] = Other
  BY <1>1, AtGoto DEF IInv, LocalInv, CmdInv, Caller
<1>3. LocalInv(t)'
  <2>1. ArgInv(t)' BY <1>1, <1>2, <1>b, AtGoto DEF LocalInv, ArgInv, Caller, InBody, InCall
  <2>2. CmdInv(t)' BY <1>1, <1>2, <1>a, <1>b, AtGoto DEF LocalInv, CmdInv, ArgInv, Caller
  <2>3. RequestInv(t)' BY <1>1, <1>2, AtGoto DEF LocalInv, RequestInv
  <2> QED BY <2>1, <2>2, <2>3 DEF LocalInv
<1>4. SameBuffers(t)
  BY <1>1, <1>2, <1>a, AtGoto DEF SameBuffers, ArgOf, PayOf, PayType, Other, Command
<1>5. in_ta[t] => "get_arg" \in InBody /\ cmd'[t].ret = "alloc"
  BY <1>1, <1>a, AtGoto DEF IInv, StateInv, InBody, Caller
<1> QED BY <1>1, <1>3, <1>4, <1>5, GotoStep

(* An RPC that finds its buffer in the cache keeps the invariant.           *)
LEMMA ShmCacheAllocStep ==
  ASSUME IInv, NEW t \in Threads, ShmCacheAlloc(t), TypeOK' PROVE IInv'
<1>a. CASE ClearEntry(t, "body", "alloc")
  BY <1>a, ClearEntryStep DEF ShmCacheAlloc
<1>b. CASE ~ClearEntry(t, "body", "alloc")
  <2>1. /\ Goto(t, "body", "alloc") /\ UNCHANGED <<rpc_arg, rpc_mobj, shm_cache, cmd>>
        /\ shm_cache[t].mobj = NoCookie /\ rpcs'[t] = rpcs[t] + 1 /\ rpcs[t] \in Nat
        /\ \A u \in Threads : u # t => rpcs'[u] = rpcs[u]
    BY <1>b, ThreadAssumption DEF ShmCacheAlloc, avars, IInv, TypeOK
  <2>2. LocalInv(t) /\ cmd[t] = Other
    BY <2>1, AtGoto DEF IInv, LocalInv, CmdInv, Caller
  <2>3. LocalInv(t)'
    <3>1. CmdInv(t)' BY <2>1, <2>2, AtGoto DEF LocalInv, CmdInv, Caller, Other, Command
    <3>2. ArgInv(t)' BY <2>1, <2>2, AtGoto DEF LocalInv, ArgInv, Caller, InBody, InCall
    <3>3. RequestInv(t)' BY <2>1, <2>2, AtGoto DEF LocalInv, RequestInv
    <3> QED BY <3>1, <3>2, <3>3 DEF LocalInv
  <2>4. SameBuffers(t)
    BY <2>1, <2>2, AtGoto DEF SameBuffers, ArgOf, PayOf, PayType, Other, Command
  <2>5. "alloc" \in InBody /\ cmd'[t].ret = "body"
    BY <2>1, <2>2 DEF InBody, Caller, Other, Command
  <2> QED BY <2>1, <2>3, <2>4, <2>5, GotoStep
<1> QED BY <1>a, <1>b

(* A request for a payload keeps the invariant.                             *)
LEMMA AllocPayloadStep ==
  ASSUME IInv, NEW t \in Threads, NEW bt \in Types, AllocPayload(t, bt), TypeOK' PROVE IInv'
<1>1. /\ Goto(t, "alloc", "get_arg") /\ UNCHANGED <<rpc_arg, rpc_mobj, shm_cache, rpcs>>
      /\ cmd'[t] = Command("SHM_ALLOC", bt, NoCookie, "body")
      /\ \A u \in Threads : u # t => cmd'[u] = cmd[u]
  BY DEF AllocPayload, avars, IInv, TypeOK
<1>a. /\ cmd'[t].op = "SHM_ALLOC" /\ cmd'[t].bt = bt
      /\ cmd'[t].cookie = NoCookie /\ cmd'[t].ret = "body"
  BY <1>1 DEF Command
<1>2. LocalInv(t) /\ cmd[t] = Other /\ shm_cache[t].mobj = NoCookie
  BY <1>1, AtGoto DEF IInv, LocalInv, CmdInv, ArgInv, Caller
<1>3. LocalInv(t)'
  <2>1. CmdInv(t)' BY <1>1, <1>2, <1>a, AtGoto DEF LocalInv, CmdInv, Caller
  <2>2. ArgInv(t)' BY <1>1, <1>2, AtGoto DEF LocalInv, ArgInv, Caller, InBody, InCall
  <2>3. RequestInv(t)' BY <1>1, <1>2, AtGoto DEF LocalInv, RequestInv
  <2> QED BY <2>1, <2>2, <2>3 DEF LocalInv
<1>4. SameBuffers(t)
  BY <1>1, <1>2, <1>a, AtGoto DEF SameBuffers, ArgOf, PayOf, PayType, Other, Command
<1>5. "get_arg" \in InBody /\ cmd'[t].ret = "body"
  BY <1>a DEF InBody, Caller
<1> QED BY <1>1, <1>3, <1>4, <1>5, GotoStep

(* A command sent to the normal world keeps the invariant.                  *)
LEMMA SendCmdStep ==
  ASSUME IInv, NEW c \in Cores, NEW t \in Threads, SendCmd(c, t), TypeOK' PROVE IInv'
<1>1. pc[t] = "get_arg" /\ UNCHANGED <<avars, cmd, rpcs>>
  BY DEF SendCmd
<1>2. LocalInv(t) /\ cmd[t].op \in Sent
  BY ThreadTypes DEF IInv
<1>a. CASE rpc_arg[t] = "null"
  <2>1. Rpc(c, t, Request("ALLOC", "arg", NoCookie), "alloc_arg")
    BY <1>a DEF SendCmd
  <2>3. LocalInv(t)'
    <3>1. CmdInv(t)' BY <1>1, <1>2, <2>1, AtRpc DEF LocalInv, CmdInv, Caller
    <3>2. ArgInv(t)' BY <1>1, <1>2, <1>a, <2>1, AtRpc DEF LocalInv, ArgInv, Caller, InBody, InCall
    <3>3. RequestInv(t)' BY <1>1, <1>2, <2>1, AtRpc DEF LocalInv, RequestInv
    <3> QED BY <3>1, <3>2, <3>3 DEF LocalInv
  <2>4. SameBuffers(t)
    BY <1>1, <1>2, <1>a, <2>1, AtRpc DEF SameBuffers, ArgOf, PayOf, PayType, LocalInv, CmdInv, ArgInv
  <2>5. "alloc_arg" \in InBody
    BY DEF InBody, Caller
  <2> QED BY <1>1, <2>1, <2>3, <2>4, <2>5, RpcStep
<1>b. CASE rpc_arg[t] # "null"
  <2>1. Rpc(c, t, Request(cmd[t].op, cmd[t].bt, cmd[t].cookie), "sent")
    BY <1>b DEF SendCmd
  <2>2. cmd[t].op # "none" /\ cmd[t].op # "FOREIGN_INTR"
    BY <1>2 DEF Sent
  <2>3. LocalInv(t)'
    <3>1. CmdInv(t)' BY <1>1, <1>2, <2>1, <2>2, AtRpc DEF LocalInv, CmdInv, Caller
    <3>2. ArgInv(t)' BY <1>1, <1>2, <1>b, <2>1, <2>2, AtRpc DEF LocalInv, ArgInv, Caller, InBody, InCall
    <3>3. RequestInv(t)' BY <1>1, <1>2, <2>1, <2>2, AtRpc DEF LocalInv, RequestInv
    <3> QED BY <3>1, <3>2, <3>3 DEF LocalInv
  <2>4. SameBuffers(t)
    BY <1>1, <1>2, <1>b, <2>1, <2>2, AtRpc DEF SameBuffers, ArgOf, PayOf, PayType, LocalInv, CmdInv, ArgInv
  <2>5. "sent" \in InBody
    BY DEF InBody, Caller
  <2> QED BY <1>1, <2>1, <2>3, <2>4, <2>5, RpcStep
<1> QED BY <1>a, <1>b

(* The argument of a thread, allocated keeps the invariant.                 *)
LEMMA AllocArgStep ==
  ASSUME IInv, NEW t \in Threads, AllocArg(t), TypeOK' PROVE IInv'
<1>1. /\ Goto(t, "alloc_arg", "get_arg") /\ UNCHANGED <<shm_cache, cmd, rpcs>>
      /\ regs[t] # NoCookie /\ rpc_arg'[t] = "own" /\ rpc_mobj'[t] = regs[t]
      /\ \A u \in Threads : u # t => rpc_arg'[u] = rpc_arg[u] /\ rpc_mobj'[u] = rpc_mobj[u]
  BY DEF AllocArg, IInv, TypeOK
<1>2. LocalInv(t) /\ regs[t] = request[t].answer
  BY <1>1, AtGoto DEF IInv, LocalInv, RequestInv
<1>3. LocalInv(t)'
  <2>1. CmdInv(t)' BY <1>1, <1>2, AtGoto DEF LocalInv, CmdInv, Caller
  <2>2. ArgInv(t)' BY <1>1, <1>2, AtGoto DEF LocalInv, ArgInv, Caller, InBody, InCall
  <2>3. RequestInv(t)' BY <1>1, <1>2, AtGoto DEF LocalInv, RequestInv
  <2> QED BY <2>1, <2>2, <2>3 DEF LocalInv
<1>4. SameBuffers(t)
  BY <1>1, <1>2, AtGoto DEF SameBuffers, ArgOf, PayOf, PayType, LocalInv, CmdInv, ArgInv
<1>5. in_ta[t] => "get_arg" \in InBody /\ cmd'[t].ret \in {"body", "alloc"}
  BY <1>1 DEF IInv, StateInv, InBody, Caller
<1> QED BY <1>1, <1>3, <1>4, <1>5, GotoStep

(* The argument of a thread, refused keeps the invariant.                   *)
LEMMA AllocArgFailsStep ==
  ASSUME IInv, NEW c \in Cores, NEW t \in Threads, AllocArgFails(c, t), TypeOK' PROVE IInv'
<1>1. pc[t] = "alloc_arg" /\ UNCHANGED <<avars, cmd, rpcs>> /\ Runs(c, t)
  BY DEF AllocArgFails, Rpc
<1>2. LocalInv(t) /\ regs[t] = request[t].answer
  BY <1>1, RunningThread DEF IInv, LocalInv, RequestInv
<1>3. in_ta[t] => "no_arg" \in InBody /\ cmd[t].ret \in {"body", "alloc"}
  BY DEF IInv, StateInv, InBody, Caller
<1>a. CASE regs[t] # NoCookie
  <2>1. Rpc(c, t, Request("FREE", "arg", regs[t]), "no_arg")
    BY <1>a DEF AllocArgFails
  <2>3. LocalInv(t)'
    <3>1. CmdInv(t)' BY <1>1, <1>2, <2>1, AtRpc DEF LocalInv, CmdInv, Caller
    <3>2. ArgInv(t)' BY <1>1, <1>2, <2>1, AtRpc DEF LocalInv, ArgInv, Caller, InBody, InCall
    <3>3. RequestInv(t)' BY <1>1, <1>2, <1>a, <2>1, AtRpc DEF LocalInv, RequestInv
    <3> QED BY <3>1, <3>2, <3>3 DEF LocalInv
  <2>4. SameBuffers(t)
    BY <1>1, <1>2, <2>1, AtRpc DEF SameBuffers, ArgOf, PayOf, PayType, LocalInv, CmdInv, ArgInv
  <2> QED BY <1>1, <2>1, <2>3, <2>4, <1>3, RpcStep
<1>b. CASE regs[t] = NoCookie
  <2>1. Goto(t, "alloc_arg", "no_arg") /\ UNCHANGED <<rpc_arg, rpc_mobj, shm_cache, cmd, rpcs>>
    BY <1>b DEF AllocArgFails, avars
  <2>3. LocalInv(t)'
    <3>1. CmdInv(t)' BY <1>2, <2>1, AtGoto DEF LocalInv, CmdInv, Caller
    <3>2. ArgInv(t)' BY <1>2, <2>1, AtGoto DEF LocalInv, ArgInv, Caller, InBody, InCall
    <3>3. RequestInv(t)' BY <1>2, <2>1, AtGoto DEF LocalInv, RequestInv
    <3> QED BY <3>1, <3>2, <3>3 DEF LocalInv
  <2>4. SameBuffers(t)
    BY <1>2, <1>b, <2>1, AtGoto DEF SameBuffers, ArgOf, PayOf, PayType, LocalInv, CmdInv, ArgInv
  <2> QED BY <2>1, <2>3, <2>4, <1>3, GotoStep
<1> QED BY <1>a, <1>b

(* The answer to a command keeps the invariant.                             *)
LEMMA CmdReturnStep ==
  ASSUME IInv, NEW t \in Threads, NEW from \in {"no_arg", "sent"}, CmdReturn(t, from), TypeOK'
  PROVE  IInv'
<1>1. /\ Goto(t, from, cmd[t].ret) /\ UNCHANGED <<rpc_arg, rpc_mobj, rpcs>>
      /\ from = "no_arg" \/ cmd[t].op # "SHM_ALLOC" \/ request[t].answer = NoCookie
      /\ cmd'[t] = Other
      /\ \A u \in Threads : u # t => cmd'[u] = cmd[u] /\ shm_cache'[u] = shm_cache[u]
  BY DEF CmdReturn, IInv, TypeOK
<1>2. /\ shm_cache'[t].mobj = IF cmd[t].op = "SHM_FREE" THEN NoCookie ELSE shm_cache[t].mobj
      /\ shm_cache'[t].type = shm_cache[t].type
  <2>1. shm_cache[t] \in Entries
    BY ThreadTypes DEF IInv
  <2> QED BY <2>1 DEF CmdReturn, Entries, IInv, TypeOK
<1>a. LocalInv(t) /\ cmd[t].op \in Sent
  BY ThreadTypes DEF IInv
<1>b. cmd[t].ret \in {"body", "alloc", "tail"}
  BY <1>a DEF LocalInv, CmdInv, Sent, Other, Command
<1>c. from = "no_arg" => cmd[t].op # "SHM_FREE"
  BY <1>1, <1>a, AtGoto DEF LocalInv, CmdInv, ArgInv
<1>3. LocalInv(t)'
  <2>1. CmdInv(t)' BY <1>1, <1>a, AtGoto DEF CmdInv, Other, Command
  <2>2. ArgInv(t)'
    <3>1. cmd[t].ret = "alloc" => cmd[t].op = "SHM_FREE"
      BY <1>a DEF LocalInv, CmdInv, Sent, Other, Command
    <3>2. pc[t] = from /\ pc'[t] = cmd[t].ret /\ supplied'[t] = supplied[t] /\ Caching' = Caching
      BY <1>1, AtGoto
    <3> QED BY <1>1, <1>2, <1>a, <1>b, <1>c, <3>1, <3>2
            DEF LocalInv, ArgInv, Caller, InBody, InCall
  <2>3. RequestInv(t)' BY <1>1, <1>a, <1>b, AtGoto DEF LocalInv, RequestInv
  <2> QED BY <2>1, <2>2, <2>3 DEF LocalInv
<1>4. SameBuffers(t)
  BY <1>1, <1>2, <1>a, <1>b, <1>c, AtGoto
  DEF SameBuffers, ArgOf, PayOf, PayType, LocalInv, CmdInv, ArgInv, Other, Command, Sent
<1>5. in_ta[t] => cmd[t].ret \in InBody /\ cmd'[t].ret = "body"
  BY <1>1, <1>b DEF IInv, StateInv, InBody, Caller, Other, Command
<1> QED BY <1>1, <1>b, <1>3, <1>4, <1>5, GotoStep

(* The answer to a request for a payload keeps the invariant.               *)
LEMMA PayloadReturnStep ==
  ASSUME IInv, NEW t \in Threads, PayloadReturn(t), TypeOK' PROVE IInv'
<1>1. /\ UNCHANGED <<rpc_arg, rpc_mobj, rpcs>>
      /\ cmd[t].op = "SHM_ALLOC" /\ request[t].answer # NoCookie
  BY DEF PayloadReturn
<1>2. PICK to \in {"body", "get_arg"} : Goto(t, "sent", to)
  BY DEF PayloadReturn
<1>3. /\ LocalInv(t) /\ cmd[t].bt \in Types /\ shm_cache[t].mobj = NoCookie
      /\ rpc_arg[t] # "null" /\ shm_cache[t].type \in Types
  BY <1>1, <1>2, AtGoto, ThreadTypes, EntryTypes DEF IInv, LocalInv, CmdInv, ArgInv
<1>4. \A u \in Threads : u # t => cmd'[u] = cmd[u] /\ shm_cache'[u] = shm_cache[u]
  BY DEF PayloadReturn, IInv, TypeOK
<1>a. CASE /\ Goto(t, "sent", "body") /\ cmd'[t] = Other
           /\ shm_cache'[t] = [mobj |-> request[t].answer, type |-> cmd[t].bt]
  <2>1. LocalInv(t)'
    <3>1. CmdInv(t)' BY <1>1, <1>a, AtGoto DEF CmdInv, Other, Command
    <3>2. ArgInv(t)' BY <1>1, <1>3, <1>a, AtGoto DEF LocalInv, ArgInv, Caller, InBody, InCall
    <3>3. RequestInv(t)' BY <1>1, <1>3, <1>a, AtGoto DEF LocalInv, RequestInv
    <3> QED BY <3>1, <3>2, <3>3 DEF LocalInv
  <2>2. SameBuffers(t)
    BY <1>1, <1>3, <1>a, AtGoto DEF SameBuffers, ArgOf, PayOf, PayType, Other, Command
  <2>3. "body" \in InBody /\ cmd'[t].ret = "body"
    BY <1>a DEF InBody, Other, Command
  <2> QED BY <1>1, <1>4, <1>a, <2>1, <2>2, <2>3, GotoStep
<1>b. ASSUME NEW bt \in Types, bt = cmd[t].bt \/ MayMisalign, Goto(t, "sent", "get_arg"),
             cmd'[t] = Command("SHM_FREE", bt, request[t].answer, "body"),
             shm_cache' = shm_cache
      PROVE  IInv'
  <2>1. /\ cmd'[t].op = "SHM_FREE" /\ cmd'[t].bt = bt /\ cmd'[t].ret = "body"
        /\ cmd'[t].cookie = request[t].answer
    BY <1>b DEF Command
  <2>2. LocalInv(t)'
    <3>1. CmdInv(t)' BY <1>1, <1>3, <1>b, <2>1, AtGoto DEF CmdInv, Caller
    <3>2. ArgInv(t)' BY <1>1, <1>3, <1>b, AtGoto DEF LocalInv, ArgInv, Caller, InBody, InCall
    <3>3. RequestInv(t)' BY <1>1, <1>3, <1>b, AtGoto DEF LocalInv, RequestInv
    <3> QED BY <3>1, <3>2, <3>3 DEF LocalInv
  <2>3. SameBuffers(t)
    BY <1>1, <1>3, <1>b, <2>1, AtGoto DEF SameBuffers, ArgOf, PayOf, PayType
  <2>4. "get_arg" \in InBody
    BY DEF InBody, Caller
  <2> QED BY <1>1, <1>4, <1>b, <2>1, <2>2, <2>3, <2>4, GotoStep
<1>5. \/ /\ Goto(t, "sent", "body") /\ cmd'[t] = Other
         /\ shm_cache'[t] = [mobj |-> request[t].answer, type |-> cmd[t].bt]
      \/ \E bt \in Types :
           /\ bt = cmd[t].bt \/ MayMisalign
           /\ Goto(t, "sent", "get_arg") /\ shm_cache' = shm_cache
           /\ cmd'[t] = Command("SHM_FREE", bt, request[t].answer, "body")
  BY <1>3 DEF PayloadReturn, IInv, TypeOK
<1> QED BY <1>5, <1>a, <1>b

(* The end of a standard call keeps the invariant.                          *)
LEMMA EntryStdStep ==
  ASSUME IInv, NEW t \in Threads, EntryStd(t), TypeOK' PROVE IInv'
<1>1. PICK to : /\ Goto(t, "body", to)
                /\ to = "tail" \/ (to = "tail_bad" /\ rpcs[t] = 0)
  BY DEF EntryStd
<1>2. ~in_ta[t] /\ UNCHANGED <<rpc_arg, rpc_mobj, shm_cache, cmd, rpcs>>
  BY DEF EntryStd, avars
<1>3. LocalInv(t)
  BY DEF IInv
<1>4. LocalInv(t)'
  <2>1. CmdInv(t)' BY <1>1, <1>2, <1>3, AtGoto DEF LocalInv, CmdInv, Caller
  <2>2. ArgInv(t)' BY <1>1, <1>2, <1>3, AtGoto DEF LocalInv, ArgInv, Caller, InBody, InCall
  <2>3. RequestInv(t)' BY <1>1, <1>2, <1>3, AtGoto DEF LocalInv, RequestInv
  <2> QED BY <2>1, <2>2, <2>3 DEF LocalInv
<1>5. SameBuffers(t)
  BY <1>1, <1>2, AtGoto DEF SameBuffers, ArgOf, PayOf, PayType
<1> QED BY <1>1, <1>2, <1>4, <1>5, GotoStep

(* The end of a call keeps the invariant.                                   *)
LEMMA TailStep ==
  ASSUME IInv, NEW t \in Threads, NEW from \in {"tail", "tail_bad"}, Tail(t, from), TypeOK'
  PROVE  IInv'
<1>a. CASE ClearEntry(t, from, from) /\ UNCHANGED rpcs
  BY <1>a, ClearEntryStep
<1>b. CASE ~(ClearEntry(t, from, from) /\ UNCHANGED rpcs)
  <2> DEFINE to == IF from = "tail" /\ ~Caching THEN "clear_out" ELSE "exit"
  <2>1. /\ Goto(t, from, to) /\ UNCHANGED <<rpc_mobj, cmd, rpcs>>
        /\ shm_cache[t].mobj = NoCookie
        /\ rpc_arg'[t] = IF supplied[t] THEN "null" ELSE rpc_arg[t]
        /\ \A u \in Threads : u # t => rpc_arg'[u] = rpc_arg[u] /\ shm_cache'[u] = shm_cache[u]
    BY <1>b DEF Tail, IInv, TypeOK
  <2>2. shm_cache'[t].mobj = NoCookie
    <3>1. shm_cache[t] \in Entries
      BY ThreadTypes DEF IInv
    <3> QED BY <1>b, <3>1 DEF Tail, Entries, IInv, TypeOK
  <2>3. /\ pc[t] = from /\ supplied'[t] = supplied[t] /\ Caching' = Caching
        /\ pc'[t] = to /\ LocalInv(t) /\ cmd[t] = Other
    BY <2>1, AtGoto DEF IInv, LocalInv, CmdInv, Caller
  <2>4. LocalInv(t)'
    <3>1. CmdInv(t)' BY <2>1, <2>3 DEF CmdInv, Other, Command
    <3>2. ArgInv(t)'
      <4>1. CASE from = "tail" /\ ~Caching
        BY <4>1, <2>1, <2>2, <2>3 DEF LocalInv, ArgInv, Caller, InBody, InCall
      <4>2. CASE ~(from = "tail" /\ ~Caching)
        <5>1. rpc_arg[t] \in {"null", "own", "supplied"} BY DEF IInv, TypeOK
        <5> QED BY <5>1, <4>2, <2>1, <2>2, <2>3 DEF LocalInv, ArgInv, Caller, InBody, InCall
      <4> QED BY <4>1, <4>2
    <3>3. RequestInv(t)' BY <2>1, <2>3, AtGoto DEF LocalInv, RequestInv
    <3> QED BY <3>1, <3>2, <3>3 DEF LocalInv
  <2>5. SameBuffers(t)
    BY <2>1, <2>2, <2>3 DEF SameBuffers, ArgOf, PayOf, Other, Command
  <2>6. ~in_ta[t]
    BY <2>3 DEF IInv, StateInv, InBody, Caller
  <2> QED BY <2>1, <2>4, <2>5, <2>6, GotoStep
<1> QED BY <1>a, <1>b

(* A thread that becomes free keeps the invariant.                          *)
LEMMA ThreadStateFreeStep ==
  ASSUME IInv, NEW c \in Cores, NEW t \in Threads, ThreadStateFree(c, t), TypeOK' PROVE IInv'
<1>1. Runs(c, t) /\ pc[t] = "exit"
  BY DEF ThreadStateFree
<1>2. /\ \A d \in Cores : n[d] # t
      /\ \A d \in Cores : d # c => curr_thread[d] # t
      /\ user_map[c] = IF in_ta[t] THEN t ELSE THREAD_ID_INVALID
      /\ ~Outstanding(t)
  BY <1>1, RunningThread
<1>3. ~in_ta[t]
  BY <1>1 DEF IInv, StateInv, InBody, Caller
<1>4. /\ state'[t] = "FREE" /\ ~copy_args'[t] /\ pc'[t] = "none" /\ cmd'[t] = Other
      /\ ~supplied'[t] /\ rpcs'[t] = 0 /\ request'[t] = NoRequest
      /\ at'[c] = "nsec" /\ curr_thread'[c] = THREAD_ID_INVALID
      /\ UNCHANGED <<have_user_map, rpc_arg, rpc_mobj, shm_cache, prealloc, user_map, n, in_ta, shm>>
      /\ \A d \in Cores : d # c => at'[d] = at[d] /\ curr_thread'[d] = curr_thread[d]
  BY DEF ThreadStateFree, avars, IInv, TypeOK
<1>5. \A u \in Threads : u # t => Same(u)
  BY DEF ThreadStateFree, avars, IInv, TypeOK, Same
<1>6. CoreInv'
  <2> SUFFICES ASSUME NEW d \in Cores PROVE CoreInv!(d)'
    BY DEF CoreInv
  <2>1. CASE d = c
    BY <2>1, <1>1, <1>2, <1>3, <1>4 DEF IInv, CoreInv, Runs
  <2>2. CASE d # c
    BY <2>2, <1>2, <1>4, <1>5 DEF IInv, CoreInv, Same
  <2> QED BY <2>1, <2>2
<1>7. OwnerInv'
  <2>1. Owned(c) = t /\ Owned(c)' = THREAD_ID_INVALID
    BY <1>1, <1>4 DEF IInv, CoreInv, Owned, Runs
  <2>2. \A d \in Cores : d # c => Owned(d)' = Owned(d)
    BY <1>4 DEF Owned
  <2>3. (\A d, e \in Cores : Owned(d) = Owned(e) /\ Owned(d) \in Threads => d = e)'
    BY <2>1, <2>2, InvalidIsNoThread DEF IInv, OwnerInv
  <2>4. ASSUME NEW u \in Threads, state'[u] = "ACTIVE" PROVE \E d \in Cores : Owned(d)' = u
    BY <2>4, <1>4, <1>5, <2>1, <2>2 DEF IInv, OwnerInv, Same
  <2> QED BY <2>3, <2>4 DEF OwnerInv
<1>8. StateInv'
  BY <1>3, <1>4, <1>5 DEF IInv, StateInv, Same
<1>9. LocalInv(t) /\ cmd[t] = Other /\ shm_cache[t].mobj = NoCookie
  BY <1>1 DEF IInv, LocalInv, CmdInv, ArgInv, Caller, InCall, InBody
<1>10. ~Outstanding(t)' /\ Caching' = Caching
  BY <1>4 DEF Outstanding, Caching, NoRequest, Request
<1>11. LocalInv(t)'
  <2>1. CmdInv(t)' BY <1>4 DEF CmdInv, Other, Command
  <2>2. ArgInv(t)' BY <1>1, <1>4, <1>9, <1>10 DEF LocalInv, ArgInv, Caller, InBody, InCall
  <2>3. RequestInv(t)' BY <1>4, <1>10 DEF RequestInv
  <2> QED BY <2>1, <2>2, <2>3 DEF LocalInv
<1>12. SameBuffers(t)
  BY <1>1, <1>4, <1>9 DEF SameBuffers, ArgOf, PayOf, Other, Command
<1>13. (\A u \in Threads : LocalInv(u)') /\ BufferInv'
  BY <1>4, <1>5, <1>11, <1>12, OneThreadStep
<1> QED BY <1>6, <1>7, <1>8, <1>13 DEF IInv

(* A switch of the user mapping keeps the invariant.                        *)
LEMMA SwitchTaStep ==
  ASSUME IInv, NEW c \in Cores, NEW t \in Threads, SwitchTa(c, t), TypeOK' PROVE IInv'
<1>1. /\ Runs(c, t) /\ pc[t] = "body"
      /\ UNCHANGED <<state, copy_args, have_user_map, prealloc, curr_thread, at, n, pc, cmd, shm>>
  BY DEF SwitchTa, tvars, nvars
<1>2. state[t] = "ACTIVE" /\ \A d \in Cores : n[d] # t /\ (d # c => curr_thread[d] # t)
  BY <1>1, RunningThread
<1>3. /\ in_ta'[t] = ~in_ta[t] /\ \A u \in Threads : u # t => in_ta'[u] = in_ta[u]
      /\ user_map'[c] = IF in_ta[t] THEN THREAD_ID_INVALID ELSE t
      /\ \A d \in Cores : d # c => user_map'[d] = user_map[d]
  BY DEF SwitchTa, IInv, TypeOK
<1>4. \A u \in Threads : Same(u)
  BY DEF SwitchTa, tvars, avars, nvars, Same
<1>5. cmd[t] = Other
  BY <1>1 DEF IInv, LocalInv, CmdInv, Caller
<1>6. CoreInv'
  <2> SUFFICES ASSUME NEW d \in Cores PROVE CoreInv!(d)'
    BY DEF CoreInv
  <2>1. CASE d = c
    BY <2>1, <1>1, <1>2, <1>3 DEF IInv, CoreInv, Runs
  <2>2. CASE d # c
    BY <2>2, <1>1, <1>2, <1>3 DEF IInv, CoreInv
  <2> QED BY <2>1, <2>2
<1>7. OwnerInv'
  BY <1>1 DEF IInv, OwnerInv, Owned
<1>8. StateInv'
  BY <1>1, <1>2, <1>3, <1>5 DEF IInv, StateInv, InBody, Other, Command
<1>9. \A u \in Threads : LocalInv(u)' /\ SameBuffers(u)
  BY <1>1, <1>4, SameKeeps DEF IInv
<1> QED BY <1>1, <1>6, <1>7, <1>8, <1>9, BuffersKept DEF IInv

----------------------------------------------------------------------------
(* Entry, resumption and interrupts. *)

(* The choice of a free thread keeps the invariant.                         *)
LEMMA AllocThreadStep ==
  ASSUME IInv, NEW c \in Cores, NEW s \in BOOLEAN, AllocThread(c, s), TypeOK' PROVE IInv'
<1>1. PICK t \in Threads : /\ state[t] = "FREE" /\ at[c] = "nsec"
                           /\ state' = [state EXCEPT ![t] = "ACTIVE"]
                           /\ n' = [n EXCEPT ![c] = t]
                           /\ supplied' = [supplied EXCEPT ![t] = s]
                           /\ at' = [at EXCEPT ![c] = "alloc"]
  BY DEF AllocThread
<1>2. /\ UNCHANGED <<copy_args, regs, have_user_map, rpc_arg, rpc_mobj, shm_cache, prealloc,
                     curr_thread, user_map, pc, cmd, in_ta, rpcs, request, shm>>
      /\ state'[t] = "ACTIVE" /\ n'[c] = t /\ at'[c] = "alloc"
      /\ \A d \in Cores : d # c => n'[d] = n[d] /\ at'[d] = at[d]
  BY <1>1 DEF AllocThread, avars, nvars, IInv, TypeOK
<1>3. \A u \in Threads : u # t => Same(u)
  BY <1>1, <1>2 DEF IInv, TypeOK, Same
<1>4. /\ pc[t] = "none" /\ curr_thread[c] = THREAD_ID_INVALID /\ user_map[c] = THREAD_ID_INVALID
      /\ LocalInv(t) /\ ~Outstanding(t)
  BY <1>1 DEF IInv, StateInv, CoreInv, LocalInv, RequestInv
<1>5. \A d \in Cores : Owned(d) # t
  <2>1. ASSUME NEW d \in Cores, Owned(d) = t PROVE FALSE
    <3>1. at[d] \in {"nsec", "alloc", "resume", "thread"}
      BY DEF IInv, TypeOK
    <3> QED BY <2>1, <3>1, <1>1, InvalidIsNoThread DEF IInv, CoreInv, Owned
  <2> QED BY <2>1
<1>6. CoreInv'
  <2> SUFFICES ASSUME NEW d \in Cores PROVE CoreInv!(d)'
    BY DEF CoreInv
  <2>1. CASE d = c
    BY <2>1, <1>2, <1>4 DEF CoreInv
  <2>2. CASE d # c
    <3>1. \A u \in Threads : state[u] = "ACTIVE" => state'[u] = "ACTIVE"
      BY <1>2, <1>3 DEF Same
    <3> QED BY <2>2, <1>2, <3>1 DEF IInv, CoreInv
  <2> QED BY <2>1, <2>2
<1>7. OwnerInv'
  <2>1. Owned(c)' = t /\ Owned(c) = THREAD_ID_INVALID
    BY <1>1, <1>2 DEF Owned, IInv, CoreInv
  <2>2. \A d \in Cores : d # c => Owned(d)' = Owned(d)
    BY <1>2 DEF Owned
  <2>3. (\A d, e \in Cores : Owned(d) = Owned(e) /\ Owned(d) \in Threads => d = e)'
    BY <2>1, <2>2, <1>5 DEF IInv, OwnerInv
  <2>4. ASSUME NEW u \in Threads, state'[u] = "ACTIVE" PROVE \E d \in Cores : Owned(d)' = u
    <3>1. CASE u = t BY <3>1, <2>1
    <3>2. CASE u # t BY <3>2, <2>4, <1>3, <2>1, <2>2, InvalidIsNoThread DEF IInv, OwnerInv, Same
    <3> QED BY <3>1, <3>2
  <2> QED BY <2>3, <2>4 DEF OwnerInv
<1>8. StateInv'
  BY <1>2, <1>3 DEF IInv, StateInv, Same
<1>9. Caching' = Caching /\ Outstanding(t)' = Outstanding(t)
  BY <1>2 DEF Caching, Outstanding
<1>10. LocalInv(t)'
  <2>1. CmdInv(t)' BY <1>2, <1>4 DEF LocalInv, CmdInv
  <2>2. ArgInv(t)' BY <1>2, <1>4, <1>9 DEF LocalInv, ArgInv, Caller, InBody, InCall
  <2>3. RequestInv(t)' BY <1>2, <1>4, <1>9 DEF LocalInv, RequestInv
  <2> QED BY <2>1, <2>2, <2>3 DEF LocalInv
<1>11. SameBuffers(t)
  BY <1>2, <1>4 DEF SameBuffers, ArgOf, PayOf, PayType
<1> QED BY <1>2, <1>3, <1>6, <1>7, <1>8, <1>10, <1>11, OneThreadStep DEF IInv

(* A claimed thread starts to run on the core that claimed it. *)
LEMMA RunCores ==
  ASSUME IInv, NEW c \in Cores, NEW t \in Threads, n[c] = t,
         at[c] \in {"alloc", "resume"}, state' = state, have_user_map' = have_user_map,
         in_ta' = in_ta, cmd' = cmd,
         pc'[t] # "none", ~copy_args'[t],
         \A u \in Threads : u # t => pc'[u] = pc[u] /\ copy_args'[u] = copy_args[u],
         in_ta[t] => pc'[t] = pc[t],
         curr_thread' = [curr_thread EXCEPT ![c] = t],
         user_map' = [user_map EXCEPT ![c] = IF in_ta[t] THEN t ELSE @],
         at' = [at EXCEPT ![c] = "thread"], n' = [n EXCEPT ![c] = THREAD_ID_INVALID]
  PROVE  CoreInv' /\ OwnerInv' /\ StateInv'
<1>1. /\ curr_thread'[c] = t /\ at'[c] = "thread" /\ n'[c] = THREAD_ID_INVALID
      /\ user_map'[c] = IF in_ta[t] THEN t ELSE user_map[c]
      /\ \A d \in Cores : d # c => /\ curr_thread'[d] = curr_thread[d] /\ at'[d] = at[d]
                                   /\ n'[d] = n[d] /\ user_map'[d] = user_map[d]
  BY DEF IInv, TypeOK
<1>2. /\ state[t] = "ACTIVE" /\ user_map[c] = THREAD_ID_INVALID /\ Owned(c) = t
  BY DEF IInv, CoreInv, Owned
<1>3. \A d \in Cores : d # c => Owned(d) # t
  BY <1>2 DEF IInv, OwnerInv
<1>4. CoreInv'
  <2> SUFFICES ASSUME NEW d \in Cores PROVE CoreInv!(d)'
    BY DEF CoreInv
  <2>1. CASE d = c
    BY <2>1, <1>1, <1>2 DEF CoreInv
  <2>2. CASE d # c
    <3>1. at[d] \in {"nsec", "alloc", "resume", "thread"}
      BY DEF IInv, TypeOK
    <3> QED BY <2>2, <3>1, <1>1, <1>3, InvalidIsNoThread DEF IInv, CoreInv, Owned
  <2> QED BY <2>1, <2>2
<1>5. OwnerInv'
  <2>1. \A d \in Cores : Owned(d)' = Owned(d)
    BY <1>1, <1>2 DEF Owned
  <2> QED BY <2>1 DEF IInv, OwnerInv
<1>6. StateInv'
  BY <1>2 DEF IInv, StateInv
<1> QED BY <1>4, <1>5, <1>6

(* The start of a chosen thread keeps the invariant.                        *)
LEMMA AllocRunStep ==
  ASSUME IInv, NEW c \in Cores, AllocRun(c), TypeOK' PROVE IInv'
<1> DEFINE t == n[c]
<1>1. /\ t \in Threads /\ state[t] = "ACTIVE" /\ pc[t] = "none" /\ ~in_ta[t] /\ LocalInv(t)
  BY DEF AllocRun, IInv, CoreInv, StateInv, InBody, Caller
<1>a. PICK k \in Threads : n[c] = k
  BY <1>1
<1>2. /\ UNCHANGED <<state, regs, have_user_map, rpc_arg, rpc_mobj, shm_cache, prealloc,
                     user_map, cmd, supplied, in_ta, rpcs, request, shm>>
      /\ curr_thread' = [curr_thread EXCEPT ![c] = k] /\ at' = [at EXCEPT ![c] = "thread"]
      /\ n' = [n EXCEPT ![c] = THREAD_ID_INVALID]
      /\ pc'[k] = "entry" /\ ~copy_args'[k]
      /\ \A u \in Threads : u # k => pc'[u] = pc[u] /\ copy_args'[u] = copy_args[u]
  BY <1>a DEF AllocRun, avars, nvars, IInv, TypeOK
<1>3. CoreInv' /\ OwnerInv' /\ StateInv'
  <2>1. user_map' = [user_map EXCEPT ![c] = IF in_ta[k] THEN k ELSE @]
    BY <1>1, <1>2, <1>a DEF IInv, TypeOK
  <2> QED BY <1>1, <1>2, <1>a, <2>1, RunCores DEF AllocRun
<1>4. Caching' = Caching /\ ~Outstanding(k) /\ ~Outstanding(k)'
  BY <1>1, <1>2, <1>a DEF Caching, Outstanding, LocalInv, RequestInv
<1>5. LocalInv(k)'
  <2>1. CmdInv(k)' BY <1>1, <1>a, <1>2 DEF LocalInv, CmdInv, Caller
  <2>2. ArgInv(k)' BY <1>1, <1>a, <1>2, <1>4 DEF LocalInv, ArgInv, Caller, InBody, InCall
  <2>3. RequestInv(k)' BY <1>2, <1>4 DEF RequestInv
  <2> QED BY <2>1, <2>2, <2>3 DEF LocalInv
<1>6. SameBuffers(k)
  BY <1>1, <1>a, <1>2 DEF SameBuffers, ArgOf, PayOf, PayType
<1>7. \A u \in Threads : u # k => Same(u)
  BY <1>2 DEF Same
<1> QED BY <1>2, <1>3, <1>5, <1>6, <1>7, OneThreadStep DEF IInv

(* The choice of a suspended thread keeps the invariant.                    *)
LEMMA ResumeFromRpcStep ==
  ASSUME IInv, NEW c \in Cores, NEW t \in Threads, ResumeFromRpc(c, t), TypeOK' PROVE IInv'
<1>1. at[c] = "nsec" /\ request[t].done /\ state[t] = "SUSPENDED"
  BY DEF ResumeFromRpc
<1>2. /\ UNCHANGED <<copy_args, regs, have_user_map, rpc_arg, rpc_mobj, shm_cache, prealloc,
                     curr_thread, user_map, pc, cmd, supplied, in_ta, rpcs, request, shm>>
      /\ state'[t] = "ACTIVE" /\ n'[c] = t /\ at'[c] = "resume"
      /\ \A d \in Cores : d # c => n'[d] = n[d] /\ at'[d] = at[d]
      /\ \A u \in Threads : u # t => state'[u] = state[u]
  BY DEF ResumeFromRpc, avars, nvars, pvars, IInv, TypeOK
<1>3. \A u \in Threads : u # t => Same(u)
  BY <1>2 DEF Same
<1>4. /\ pc[t] # "none" /\ (have_user_map[t] <=> in_ta[t])
      /\ curr_thread[c] = THREAD_ID_INVALID /\ user_map[c] = THREAD_ID_INVALID
      /\ LocalInv(t) /\ ~Outstanding(t) /\ ~Outstanding(t)' /\ Caching' = Caching
  BY <1>1, <1>2 DEF IInv, StateInv, CoreInv, Outstanding, Caching
<1>5. \A d \in Cores : Owned(d) # t
  <2>1. ASSUME NEW d \in Cores, Owned(d) = t PROVE FALSE
    <3>1. at[d] \in {"nsec", "alloc", "resume", "thread"}
      BY DEF IInv, TypeOK
    <3> QED BY <2>1, <3>1, <1>1, InvalidIsNoThread DEF IInv, CoreInv, Owned
  <2> QED BY <2>1
<1>6. CoreInv'
  <2> SUFFICES ASSUME NEW d \in Cores PROVE CoreInv!(d)'
    BY DEF CoreInv
  <2>1. CASE d = c
    BY <2>1, <1>2, <1>4 DEF CoreInv
  <2>2. CASE d # c
    <3>1. \A u \in Threads : state[u] = "ACTIVE" => state'[u] = "ACTIVE"
      BY <1>2
    <3> QED BY <2>2, <1>2, <3>1 DEF IInv, CoreInv
  <2> QED BY <2>1, <2>2
<1>7. OwnerInv'
  <2>1. Owned(c)' = t /\ Owned(c) = THREAD_ID_INVALID
    BY <1>1, <1>2 DEF Owned, IInv, CoreInv
  <2>2. \A d \in Cores : d # c => Owned(d)' = Owned(d)
    BY <1>2 DEF Owned
  <2>3. (\A d, e \in Cores : Owned(d) = Owned(e) /\ Owned(d) \in Threads => d = e)'
    BY <2>1, <2>2, <1>5 DEF IInv, OwnerInv
  <2>4. ASSUME NEW u \in Threads, state'[u] = "ACTIVE" PROVE \E d \in Cores : Owned(d)' = u
    <3>1. CASE u = t BY <3>1, <2>1
    <3>2. CASE u # t BY <3>2, <2>4, <1>3, <2>1, <2>2, InvalidIsNoThread DEF IInv, OwnerInv, Same
    <3> QED BY <3>1, <3>2
  <2> QED BY <2>3, <2>4 DEF OwnerInv
<1>8. StateInv'
  BY <1>2 DEF IInv, StateInv
<1>9. LocalInv(t)'
  <2>1. CmdInv(t)' BY <1>2, <1>4 DEF LocalInv, CmdInv
  <2>2. ArgInv(t)' BY <1>2, <1>4 DEF LocalInv, ArgInv
  <2>3. RequestInv(t)' BY <1>2, <1>4 DEF LocalInv, RequestInv
  <2> QED BY <2>1, <2>2, <2>3 DEF LocalInv
<1>10. SameBuffers(t)
  BY <1>2, <1>4 DEF SameBuffers, ArgOf, PayOf, PayType
<1> QED BY <1>2, <1>3, <1>6, <1>7, <1>8, <1>9, <1>10, OneThreadStep DEF IInv

(* The start of a resumed thread keeps the invariant.                       *)
LEMMA ResumeRunStep ==
  ASSUME IInv, NEW c \in Cores, ResumeRun(c), TypeOK' PROVE IInv'
<1>1. PICK k \in Threads : n[c] = k
  BY DEF ResumeRun, IInv, CoreInv
<1>2. /\ state[k] = "ACTIVE" /\ pc[k] # "none" /\ (have_user_map[k] <=> in_ta[k])
      /\ LocalInv(k) /\ ~Outstanding(k)
  BY <1>1 DEF ResumeRun, IInv, CoreInv, LocalInv, RequestInv
<1>3. /\ UNCHANGED <<state, have_user_map, rpc_arg, rpc_mobj, shm_cache, prealloc,
                     pc, cmd, supplied, in_ta, rpcs, request, shm>>
      /\ curr_thread' = [curr_thread EXCEPT ![c] = k] /\ at' = [at EXCEPT ![c] = "thread"]
      /\ n' = [n EXCEPT ![c] = THREAD_ID_INVALID]
      /\ user_map' = [user_map EXCEPT ![c] = IF have_user_map[k] THEN k ELSE @]
      /\ ~copy_args'[k] /\ regs'[k] = IF copy_args[k] THEN ReturnArgs(k) ELSE regs[k]
      /\ \A u \in Threads : u # k => copy_args'[u] = copy_args[u] /\ regs'[u] = regs[u]
  BY <1>1 DEF ResumeRun, avars, nvars, pvars, IInv, TypeOK
<1>4. CoreInv' /\ OwnerInv' /\ StateInv'
  <2>1. user_map' = [user_map EXCEPT ![c] = IF in_ta[k] THEN k ELSE @]
    BY <1>2, <1>3
  <2>2. /\ at[c] \in {"alloc", "resume"} /\ state' = state /\ have_user_map' = have_user_map
        /\ in_ta' = in_ta /\ cmd' = cmd /\ pc'[k] # "none" /\ (in_ta[k] => pc'[k] = pc[k])
        /\ \A u \in Threads : u # k => pc'[u] = pc[u] /\ copy_args'[u] = copy_args[u]
    BY <1>2, <1>3 DEF ResumeRun
  <2> QED BY <1>1, <1>3, <2>1, <2>2, RunCores
<1>5. Caching' = Caching /\ ~Outstanding(k)'
  BY <1>2, <1>3 DEF Caching, Outstanding
<1>6. LocalInv(k)'
  <2>1. CmdInv(k)' BY <1>2, <1>3 DEF LocalInv, CmdInv
  <2>2. ArgInv(k)' BY <1>2, <1>3, <1>5 DEF LocalInv, ArgInv
  <2>3. pc[k] = "alloc_arg" => regs'[k] = request[k].answer
    BY <1>2, <1>3 DEF LocalInv, RequestInv, ReturnArgs
  <2>4. RequestInv(k)' BY <1>3, <1>5, <2>3 DEF RequestInv
  <2> QED BY <2>1, <2>2, <2>4 DEF LocalInv
<1>7. SameBuffers(k)
  BY <1>2, <1>3, <1>5 DEF SameBuffers, ArgOf, PayOf, PayType
<1>8. \A u \in Threads : u # k => Same(u)
  BY <1>3 DEF Same
<1> QED BY <1>3, <1>4, <1>6, <1>7, <1>8, OneThreadStep DEF IInv

(* A foreign interrupt keeps the invariant.                                 *)
LEMMA ForeignIntrStep ==
  ASSUME IInv, NEW c \in Cores, NEW t \in Threads, ForeignIntr(c, t), TypeOK' PROVE IInv'
<1>1. /\ Runs(c, t) /\ Suspend(c, t, FALSE) /\ pc[t] \notin Masked
      /\ UNCHANGED <<rpc_arg, rpc_mobj, shm_cache, pc, cmd, rpcs>>
  BY DEF ForeignIntr, avars
<1>2. ~copy_args[t] /\ ~Outstanding(t) /\ LocalInv(t) /\ pc[t] # "none"
  BY <1>1, RunningThread DEF IInv
<1>3. /\ request'[t].op = "FOREIGN_INTR" /\ request'[t].done
      /\ request'[t].answer = request[t].answer /\ request'[t].cookie = request[t].cookie
      /\ \A u \in Threads : u # t => request'[u] = request[u]
  <2>1. request[t] \in Requests
    BY ThreadTypes DEF IInv
  <2> QED BY <2>1 DEF ForeignIntr, Requests, IInv, TypeOK
<1>4. /\ UNCHANGED <<regs, prealloc, supplied, in_ta, shm>>
      /\ state'[t] = "SUSPENDED" /\ ~copy_args'[t]
      /\ \A u \in Threads : u # t => state'[u] = state[u] /\ copy_args'[u] = copy_args[u]
  BY <1>1, <1>2 DEF Suspend, IInv, TypeOK
<1>5. CoreInv' /\ OwnerInv' /\ StateInv'
  <2>1. pc' = [pc EXCEPT ![t] = pc[t]] /\ (in_ta[t] => pc[t] \in InBody)
    BY <1>1 DEF IInv, TypeOK, StateInv
  <2> QED BY <1>1, <1>2, <2>1, SuspendCores
<1>6. \A u \in Threads : u # t => Same(u)
  BY <1>1, <1>3, <1>4 DEF Same
<1>7. Caching' = Caching /\ ~Outstanding(t)'
  BY <1>3, <1>4 DEF Caching, Outstanding
<1>8. LocalInv(t)'
  <2>1. CmdInv(t)' BY <1>1, <1>2 DEF LocalInv, CmdInv
  <2>2. ArgInv(t)' BY <1>1, <1>2, <1>4, <1>7 DEF LocalInv, ArgInv
  <2>3. RequestInv(t)' BY <1>1, <1>2, <1>3, <1>4, <1>7 DEF LocalInv, RequestInv
  <2> QED BY <2>1, <2>2, <2>3 DEF LocalInv
<1>9. SameBuffers(t)
  BY <1>1, <1>2, <1>3, <1>7 DEF SameBuffers, ArgOf, PayOf, PayType
<1> QED BY <1>4, <1>5, <1>6, <1>8, <1>9, OneThreadStep DEF IInv

----------------------------------------------------------------------------
(* The normal world, and the fast calls. *)

(* What a thread has is a buffer or nothing. *)
LEMMA BufferIsCookie ==
  ASSUME TypeOK, NEW t \in Threads
  PROVE  ArgOf(t) \in MaybeCookie /\ PayOf(t) \in MaybeCookie
<1>1. /\ rpc_mobj[t] \in MaybeCookie /\ request[t].answer \in MaybeCookie
      /\ request[t].cookie \in MaybeCookie /\ cmd[t].cookie \in MaybeCookie
      /\ shm_cache[t].mobj \in MaybeCookie /\ NoCookie \in MaybeCookie
  BY ThreadTypes, RequestTypes, EntryTypes DEF MaybeCookie
<1> QED BY <1>1 DEF ArgOf, PayOf

(* The normal world gives a buffer to t, in one role ... *)
LEMMA BufferGiven ==
  ASSUME IInv, NEW t \in Threads, NEW k \in Cookies, NEW bt, shm[k] = "none",
         shm' = [shm EXCEPT ![k] = bt],
         \A u \in Threads : u # t => SameBuffers(u),
         \/ /\ bt = "arg" /\ ArgOf(t) = NoCookie /\ ArgOf(t)' = k
            /\ PayOf(t)' = PayOf(t) /\ PayType(t)' = PayType(t)
         \/ /\ bt \in Types /\ PayOf(t) = NoCookie /\ PayOf(t)' = k
            /\ PayType(t)' = bt /\ ArgOf(t)' = ArgOf(t)
  PROVE  BufferInv'
<1>1. /\ \A u \in Threads : ArgOf(u) \in Cookies \cup {NoCookie}
      /\ \A u \in Threads : PayOf(u) \in Cookies \cup {NoCookie}
      /\ NoCookie \notin Cookies /\ "none" \notin Types /\ "arg" \notin Types
  BY BufferIsCookie, ThreadAssumption DEF MaybeCookie, IInv
<1>2. shm'[k] = bt /\ \A j \in Cookies : j # k => shm'[j] = shm[j]
  BY DEF IInv, TypeOK
<1>3. \A u \in Threads : ArgOf(u) # k /\ PayOf(u) # k
  BY <1>1 DEF IInv, BufferInv
<1>4. \A u \in Threads : u # t =>
        /\ ArgOf(u)' = ArgOf(u) /\ PayOf(u)' = PayOf(u)
        /\ PayOf(u) # NoCookie /\ ~MayMisalign => PayType(u)' = PayType(u)
  BY DEF SameBuffers
<1>5. BufferInv
  BY DEF IInv
<1>6. ASSUME NEW u \in Threads, ArgOf(u)' # NoCookie PROVE shm'[ArgOf(u)'] = "arg"
  BY <1>1, <1>2, <1>3, <1>4, <1>5, <1>6 DEF BufferInv
<1>7. ASSUME NEW u \in Threads, PayOf(u)' # NoCookie
      PROVE  shm'[PayOf(u)'] \in Types /\ (~MayMisalign => shm'[PayOf(u)'] = PayType(u)')
  BY <1>1, <1>2, <1>3, <1>4, <1>5, <1>7 DEF BufferInv
<1>8. ASSUME NEW u \in Threads, NEW v \in Threads, ArgOf(u)' = ArgOf(v)', ArgOf(u)' # NoCookie
      PROVE  u = v
  BY <1>3, <1>4, <1>5, <1>8 DEF BufferInv
<1>9. ASSUME NEW u \in Threads, NEW v \in Threads, PayOf(u)' = PayOf(v)', PayOf(u)' # NoCookie
      PROVE  u = v
  BY <1>3, <1>4, <1>5, <1>9 DEF BufferInv
<1>10. ASSUME NEW j \in Cookies, shm'[j] # "none"
       PROVE  \E u \in Threads : j \in {ArgOf(u)', PayOf(u)'}
  <2>1. CASE j = k BY <2>1
  <2>2. CASE j # k
    <3>1. PICK u \in Threads : j \in {ArgOf(u), PayOf(u)}
      BY <2>2, <1>2, <1>5, <1>10 DEF BufferInv
    <3>2. CASE u = t BY <3>1, <3>2, <1>1, <2>2
    <3>3. CASE u # t BY <3>1, <3>3, <1>4
    <3> QED BY <3>2, <3>3
  <2> QED BY <2>1, <2>2
<1> QED BY <1>6, <1>7, <1>8, <1>9, <1>10 DEF BufferInv

(* ... or takes it back. *)
LEMMA BufferTaken ==
  ASSUME IInv, NEW t \in Threads, NEW k \in Cookies,
         shm' = [j \in Cookies |-> IF j = k THEN "none" ELSE shm[j]],
         \A u \in Threads : u # t => SameBuffers(u),
         \/ /\ ArgOf(t) = k /\ ArgOf(t)' = NoCookie
            /\ PayOf(t)' = PayOf(t) /\ PayType(t)' = PayType(t)
         \/ PayOf(t) = k /\ PayOf(t)' = NoCookie /\ ArgOf(t)' = ArgOf(t)
  PROVE  BufferInv'
<1>1. /\ \A u \in Threads : ArgOf(u) \in Cookies \cup {NoCookie}
      /\ \A u \in Threads : PayOf(u) \in Cookies \cup {NoCookie}
      /\ NoCookie \notin Cookies /\ "none" \notin Types /\ "arg" \notin Types
  BY BufferIsCookie, ThreadAssumption DEF MaybeCookie, IInv
<1>2. shm'[k] = "none" /\ \A j \in Cookies : j # k => shm'[j] = shm[j]
  OBVIOUS
<1>4. \A u \in Threads : u # t =>
        /\ ArgOf(u)' = ArgOf(u) /\ PayOf(u)' = PayOf(u)
        /\ PayOf(u) # NoCookie /\ ~MayMisalign => PayType(u)' = PayType(u)
  BY DEF SameBuffers
<1>5. BufferInv
  BY DEF IInv
<1>3. \A u \in Threads : ArgOf(u)' # k /\ PayOf(u)' # k
  <2>1. \A u \in Threads : u # t => ArgOf(u) # k /\ PayOf(u) # k
    BY <1>1, <1>5 DEF BufferInv
  <2>2. ArgOf(t) # PayOf(t) \/ ArgOf(t) = NoCookie
    BY <1>1, <1>5 DEF BufferInv
  <2> QED BY <2>1, <2>2, <1>1, <1>4
<1>6. ASSUME NEW u \in Threads, ArgOf(u)' # NoCookie PROVE shm'[ArgOf(u)'] = "arg"
  BY <1>1, <1>2, <1>3, <1>4, <1>5, <1>6 DEF BufferInv
<1>7. ASSUME NEW u \in Threads, PayOf(u)' # NoCookie
      PROVE  shm'[PayOf(u)'] \in Types /\ (~MayMisalign => shm'[PayOf(u)'] = PayType(u)')
  BY <1>1, <1>2, <1>3, <1>4, <1>5, <1>7 DEF BufferInv
<1>8. ASSUME NEW u \in Threads, NEW v \in Threads, ArgOf(u)' = ArgOf(v)', ArgOf(u)' # NoCookie
      PROVE  u = v
  BY <1>3, <1>4, <1>5, <1>8 DEF BufferInv
<1>9. ASSUME NEW u \in Threads, NEW v \in Threads, PayOf(u)' = PayOf(v)', PayOf(u)' # NoCookie
      PROVE  u = v
  BY <1>3, <1>4, <1>5, <1>9 DEF BufferInv
<1>10. ASSUME NEW j \in Cookies, shm'[j] # "none"
       PROVE  \E u \in Threads : j \in {ArgOf(u)', PayOf(u)'}
  <2>1. j # k BY <1>2, <1>10
  <2>2. PICK u \in Threads : j \in {ArgOf(u), PayOf(u)}
    BY <2>1, <1>2, <1>5, <1>10 DEF BufferInv
  <2>3. CASE u = t BY <2>1, <2>2, <2>3
  <2>4. CASE u # t BY <2>2, <2>4, <1>4
  <2> QED BY <2>3, <2>4
<1> QED BY <1>6, <1>7, <1>8, <1>9, <1>10 DEF BufferInv

(* A request served by the normal world keeps the invariant.                *)
LEMMA ServeStep ==
  ASSUME IInv, NEW t \in Threads, Serve(t), TypeOK' PROVE IInv'
<1>1. /\ UNCHANGED <<state, copy_args, have_user_map, regs, rpc_arg, rpc_mobj, shm_cache,
                     prealloc, curr_thread, user_map, at, n, pc, cmd, supplied, in_ta, rpcs>>
      /\ Outstanding(t)
  BY DEF Serve, tvars, avars, cvars, pvars, Outstanding
<1>0. \/ \E k \in Cookies : /\ request[t].op \in {"ALLOC", "SHM_ALLOC"} /\ shm[k] = "none"
                           /\ shm' = [shm EXCEPT ![k] = request[t].bt]
                           /\ request' = [request EXCEPT ![t].answer = k, ![t].done = TRUE]
      \/ /\ request' = [request EXCEPT ![t].done = TRUE]
         /\ shm' = [k \in Cookies |->
                      IF request[t].op \in {"FREE", "SHM_FREE"} /\ k = request[t].cookie
                      THEN "none" ELSE shm[k]]
  BY DEF Serve
<1>2. \A u \in Threads : u # t => request'[u] = request[u]
  <2>1. DOMAIN request = Threads BY DEF IInv, TypeOK
  <2>2. CASE request' = [request EXCEPT ![t].done = TRUE]
    BY <2>1, <2>2
  <2>3. ASSUME NEW k, request' = [request EXCEPT ![t].answer = k, ![t].done = TRUE]
        PROVE  \A u \in Threads : u # t => request'[u] = request[u]
    BY <2>1, <2>3
  <2> QED BY <1>0, <2>2, <2>3
<1>3. /\ request'[t].op = request[t].op /\ request'[t].bt = request[t].bt
      /\ request'[t].cookie = request[t].cookie /\ request'[t].done
  <2>1. request[t] \in Requests
    BY ThreadTypes DEF IInv
  <2>2. \/ request'[t] = [request[t] EXCEPT !.done = TRUE]
        \/ \E k : request'[t] = [request[t] EXCEPT !.answer = k, !.done = TRUE]
    <3>1. t \in DOMAIN request BY DEF IInv, TypeOK
    <3>2. CASE request' = [request EXCEPT ![t].done = TRUE]
      BY <3>1, <3>2
    <3>3. ASSUME NEW k, request' = [request EXCEPT ![t].answer = k, ![t].done = TRUE]
          PROVE  request'[t] = [request[t] EXCEPT !.answer = k, !.done = TRUE]
      BY <3>1, <3>3
    <3> QED BY <1>0, <3>2, <3>3
  <2> QED BY <2>1, <2>2 DEF Requests
<1>4. CoreInv' /\ OwnerInv' /\ StateInv'
  BY <1>1 DEF IInv, CoreInv, OwnerInv, StateInv, Owned
<1>5. LocalInv(t) /\ Caching' = Caching /\ ~Outstanding(t)'
  BY <1>1, <1>3 DEF IInv, Caching, Outstanding
<1>6. LocalInv(t)'
  <2>1. CmdInv(t)' BY <1>1, <1>5 DEF LocalInv, CmdInv
  <2>2. ArgInv(t)' BY <1>1, <1>5 DEF LocalInv, ArgInv
  <2>3. copy_args[t] BY <1>1, <1>5 DEF LocalInv, RequestInv
  <2>4. RequestInv(t)' BY <1>1, <1>3, <1>5, <2>3 DEF LocalInv, RequestInv
  <2> QED BY <2>1, <2>2, <2>4 DEF LocalInv
<1>7. \A u \in Threads : u # t => LocalInv(u)' /\ SameBuffers(u)
  <2>1. \A u \in Threads : u # t => Same(u)
    BY <1>1, <1>2 DEF Same
  <2> QED BY <1>1, <2>1, SameKeeps DEF IInv
<1>8. PayType(t)' = PayType(t)
  BY <1>1 DEF PayType
<1>a. CASE \E k \in Cookies : /\ request[t].op \in {"ALLOC", "SHM_ALLOC"} /\ shm[k] = "none"
                              /\ shm' = [shm EXCEPT ![k] = request[t].bt]
                              /\ request' = [request EXCEPT ![t].answer = k, ![t].done = TRUE]
  <2>1. PICK k \in Cookies : /\ request[t].op \in {"ALLOC", "SHM_ALLOC"} /\ shm[k] = "none"
                             /\ shm' = [shm EXCEPT ![k] = request[t].bt]
                             /\ request' = [request EXCEPT ![t].answer = k, ![t].done = TRUE]
    BY <1>a
  <2>2. request'[t].answer = k
    <3>1. request[t] \in Requests
      BY ThreadTypes DEF IInv
    <3> QED BY <3>1, <2>1 DEF Requests, IInv, TypeOK
  <2>3. request[t].answer = NoCookie
    BY <1>1, <1>5 DEF LocalInv, RequestInv
  <2>4. ASSUME request[t].op = "ALLOC" PROVE BufferInv'
    <3>1. pc[t] = "alloc_arg" /\ request[t].bt = "arg"
      <4>1. cmd[t].op # "ALLOC" BY ThreadTypes DEF IInv, Sent
      <4> QED BY <4>1, <2>4, <1>1, <1>5 DEF LocalInv, RequestInv
    <3>2. ArgOf(t) = NoCookie /\ ArgOf(t)' = k /\ PayOf(t)' = PayOf(t)
      BY <3>1, <2>2, <2>3, <1>1 DEF ArgOf, PayOf
    <3> QED BY <3>1, <3>2, <2>1, <1>7, <1>8, BufferGiven
  <2>5. ASSUME request[t].op = "SHM_ALLOC" PROVE BufferInv'
    <3>1. pc[t] = "sent" /\ cmd[t].op = "SHM_ALLOC" /\ request[t].bt = cmd[t].bt
      BY <2>5, <1>1, <1>5 DEF LocalInv, RequestInv
    <3>2. cmd[t].bt \in Types /\ PayType(t) = cmd[t].bt
      BY <3>1, <1>5 DEF LocalInv, CmdInv, PayType
    <3>3. PayOf(t) = NoCookie /\ PayOf(t)' = k /\ ArgOf(t)' = ArgOf(t)
      BY <3>1, <2>2, <2>3, <1>1 DEF ArgOf, PayOf
    <3> QED BY <3>1, <3>2, <3>3, <2>1, <1>7, <1>8, BufferGiven
  <2>6. BufferInv'
    BY <2>1, <2>4, <2>5
  <2> QED BY <2>6, <1>4, <1>6, <1>7 DEF IInv
<1>b. CASE /\ request' = [request EXCEPT ![t].done = TRUE]
           /\ shm' = [k \in Cookies |->
                        IF request[t].op \in {"FREE", "SHM_FREE"} /\ k = request[t].cookie
                        THEN "none" ELSE shm[k]]
  <2>1. request'[t].answer = request[t].answer
    <3>1. request[t] \in Requests
      BY ThreadTypes DEF IInv
    <3> QED BY <3>1, <1>b DEF Requests, IInv, TypeOK
  <2>2. request[t].answer = NoCookie
    BY <1>1, <1>5 DEF LocalInv, RequestInv
  <2>a. request[t].cookie \in Cookies \cup {NoCookie} /\ cmd[t].op \in Sent
    BY ThreadTypes, RequestTypes DEF IInv, MaybeCookie
  <2>3. ASSUME request[t].op = "FREE" PROVE BufferInv'
    <3>1. /\ pc[t] \in {"no_arg", "cleared_in", "cleared_out"} /\ request[t].cookie # NoCookie
          /\ pc[t] # "no_arg" => request[t].cookie = rpc_mobj[t]
      BY <2>a, <2>3, <1>1, <1>5 DEF LocalInv, RequestInv, Sent
    <3>2. ArgOf(t) = request[t].cookie /\ ArgOf(t)' = NoCookie /\ PayOf(t)' = PayOf(t)
      BY <3>1, <1>1, <1>5 DEF ArgOf, PayOf
    <3>3. shm' = [k \in Cookies |-> IF k = request[t].cookie THEN "none" ELSE shm[k]]
      BY <1>b, <2>3
    <3> QED BY <3>1, <3>2, <3>3, <2>a, <1>7, <1>8, BufferTaken
  <2>4. ASSUME request[t].op = "SHM_FREE" PROVE BufferInv'
    <3>1. pc[t] = "sent" /\ cmd[t].op = "SHM_FREE" /\ request[t].cookie = cmd[t].cookie
      BY <2>4, <1>1, <1>5 DEF LocalInv, RequestInv
    <3>2. request[t].cookie # NoCookie
      BY <3>1, <1>5 DEF LocalInv, CmdInv
    <3>3. PayOf(t) = request[t].cookie /\ PayOf(t)' = NoCookie /\ ArgOf(t)' = ArgOf(t)
      BY <3>1, <1>1, <1>5 DEF ArgOf, PayOf
    <3>4. shm' = [k \in Cookies |-> IF k = request[t].cookie THEN "none" ELSE shm[k]]
      BY <1>b, <2>4
    <3> QED BY <3>2, <3>3, <3>4, <2>a, <1>7, BufferTaken
  <2>5. ASSUME request[t].op \notin {"FREE", "SHM_FREE"} PROVE BufferInv'
    <3>1. shm' = shm
      BY <1>b, <2>5 DEF IInv, TypeOK
    <3>2. pc[t] = "alloc_arg" \/ (pc[t] = "sent" /\ cmd[t].op # "SHM_FREE")
      BY <2>5, <1>1, <1>5 DEF LocalInv, RequestInv
    <3>3. ArgOf(t)' = ArgOf(t) /\ PayOf(t)' = PayOf(t)
      BY <3>2, <2>1, <1>1 DEF ArgOf, PayOf
    <3>4. \A u \in Threads : SameBuffers(u)
      BY <3>3, <1>7, <1>8 DEF SameBuffers
    <3> QED BY <3>1, <3>4, BuffersKept DEF IInv
  <2>6. BufferInv'
    BY <2>3, <2>4, <2>5
  <2> QED BY <2>6, <1>4, <1>6, <1>7 DEF IInv
<1> QED BY <1>0, <1>a, <1>b

(* The fast calls work while no thread is in use: every program is at rest. *)
LEMMA AllAtRest ==
  ASSUME IInv, AllFree, NEW u \in Threads
  PROVE  /\ pc[u] = "none" /\ LocalInv(u) /\ ~Outstanding(u) /\ cmd[u] = Other
         /\ ArgOf(u) = rpc_mobj[u] /\ PayOf(u) = NoCookie
         /\ rpc_arg[u] # "supplied" /\ (rpc_arg[u] = "own" <=> rpc_mobj[u] # NoCookie)
<1>1. pc[u] = "none" /\ LocalInv(u) /\ state[u] = "FREE"
  BY DEF AllFree, IInv, StateInv
<1>2. ~Outstanding(u) /\ cmd[u] = Other
  BY <1>1 DEF LocalInv, RequestInv, CmdInv, Caller
<1>3. /\ rpc_arg[u] # "supplied" /\ (rpc_arg[u] = "own" <=> rpc_mobj[u] # NoCookie)
      /\ shm_cache[u].mobj = NoCookie
  BY <1>1 DEF LocalInv, ArgInv, InCall, InBody, Caller
<1> QED BY <1>1, <1>2, <1>3 DEF ArgOf, PayOf

(* A step that changes no thread but the argument buffers it has at rest.   *)
LEMMA RestStep ==
  ASSUME IInv, AllFree, TypeOK', UNCHANGED <<tvars, regs, shm_cache, cvars, pvars, request>>,
         \A u \in Threads : rpc_arg'[u] \in {"null", "own"}
                            /\ (rpc_arg'[u] = "own" <=> rpc_mobj'[u] # NoCookie),
         ~Caching' => \A u \in Threads : rpc_arg'[u] = "null",
         BufferInv'
  PROVE  IInv'
<1>1. /\ UNCHANGED <<state, copy_args, have_user_map, regs, shm_cache, curr_thread, user_map,
                     at, n, pc, cmd, supplied, in_ta, rpcs, request>>
  BY DEF tvars, cvars, pvars
<1>2. CoreInv' /\ OwnerInv' /\ StateInv'
  BY <1>1 DEF IInv, CoreInv, OwnerInv, StateInv, Owned
<1>3. ASSUME NEW u \in Threads PROVE LocalInv(u)'
  <2>1. pc[u] = "none" /\ LocalInv(u) /\ ~Outstanding(u) /\ cmd[u] = Other
    BY AllAtRest
  <2>2. ~Outstanding(u)'
    BY <1>1, <2>1 DEF Outstanding
  <2>3. CmdInv(u)' BY <1>1, <2>1 DEF CmdInv, Other, Command
  <2>4. ArgInv(u)'
    <3>1. rpc_arg'[u] \in {"null", "own"} /\ (rpc_arg'[u] = "own" <=> rpc_mobj'[u] # NoCookie)
          /\ (~Caching' => rpc_arg'[u] = "null")
      OBVIOUS
    <3> QED BY <3>1, <1>1, <2>1 DEF LocalInv, ArgInv, Caller, InBody, InCall
  <2>5. RequestInv(u)' BY <1>1, <2>1, <2>2 DEF LocalInv, RequestInv
  <2> QED BY <2>3, <2>4, <2>5 DEF LocalInv
<1> QED BY <1>2, <1>3 DEF IInv

(* The cache is disabled: the invariant is kept.                            *)
LEMMA DisableCacheStep ==
  ASSUME IInv, NEW c \in Cores, DisableCache(c), TypeOK' PROVE IInv'
<1>1. AllFree /\ UNCHANGED <<tvars, regs, shm_cache, cvars, pvars, request>>
  BY DEF DisableCache
<1>2. \A u \in Threads : /\ rpc_arg[u] \in {"null", "own"} /\ pc[u] = "none"
                         /\ (rpc_arg[u] = "own" <=> rpc_mobj[u] # NoCookie)
                         /\ cmd[u] = Other /\ LocalInv(u)
                         /\ ArgOf(u) = rpc_mobj[u] /\ PayOf(u) = NoCookie
  BY <1>1, AllAtRest DEF IInv, TypeOK
<1>3. \A u \in Threads : ArgOf(u)' = rpc_mobj'[u] /\ PayOf(u)' = PayOf(u) /\ PayType(u)' = PayType(u)
  BY <1>1, <1>2 DEF ArgOf, PayOf, PayType, pvars, Other, Command
<1>a. CASE Prealloc /\ \E t \in Threads : rpc_arg[t] # "null"
  <2>1. PICK t \in Threads :
          /\ rpc_arg[t] # "null"
          /\ shm' = [k \in Cookies |-> IF k = rpc_mobj[t] THEN "none" ELSE shm[k]]
          /\ rpc_arg' = [rpc_arg EXCEPT ![t] = "null"]
          /\ rpc_mobj' = [rpc_mobj EXCEPT ![t] = NoCookie]
          /\ prealloc' = prealloc
    BY <1>a DEF DisableCache
  <2>2. /\ rpc_arg'[t] = "null" /\ rpc_mobj'[t] = NoCookie
        /\ \A u \in Threads : u # t => rpc_arg'[u] = rpc_arg[u] /\ rpc_mobj'[u] = rpc_mobj[u]
    BY <2>1 DEF IInv, TypeOK
  <2>3. rpc_mobj[t] \in Cookies
    BY <1>2, <2>1 DEF IInv, TypeOK, MaybeCookie
  <2>4. BufferInv'
    <3>1. \A u \in Threads : u # t => SameBuffers(u)
      BY <1>2, <1>3, <2>2 DEF SameBuffers
    <3>2. ArgOf(t) = rpc_mobj[t] /\ ArgOf(t)' = NoCookie /\ PayOf(t)' = PayOf(t)
          /\ PayType(t)' = PayType(t)
      BY <1>2, <1>3, <2>2
    <3> QED BY <2>1, <2>3, <3>1, <3>2, BufferTaken
  <2>5. Caching' = Caching
    BY <2>1 DEF Caching
  <2>6. ~Caching => \A u \in Threads : rpc_arg[u] = "null"
    BY <1>2 DEF LocalInv, ArgInv
  <2>7. \A u \in Threads : rpc_arg'[u] \in {"null", "own"}
                           /\ (rpc_arg'[u] = "own" <=> rpc_mobj'[u] # NoCookie)
    BY <1>2, <2>2
  <2>8. ~Caching' => \A u \in Threads : rpc_arg'[u] = "null"
    BY <2>2, <2>5, <2>6
  <2> QED BY <1>1, <2>4, <2>7, <2>8, RestStep
<1>b. CASE ~(Prealloc /\ \E t \in Threads : rpc_arg[t] # "null")
  <2>1. prealloc' = FALSE /\ rpc_arg' = rpc_arg /\ rpc_mobj' = rpc_mobj /\ shm' = shm
    BY <1>b DEF DisableCache
  <2>2. BufferInv'
    BY <1>2, <1>3, <2>1, BuffersKept DEF SameBuffers, IInv
  <2>3. \A u \in Threads : rpc_arg'[u] = "null"
    <3>1. ~Prealloc => \A u \in Threads : rpc_arg[u] = "null"
      BY <1>2 DEF LocalInv, ArgInv, Caching
    <3> QED BY <3>1, <1>b, <2>1
  <2> QED BY <1>1, <1>2, <2>1, <2>2, <2>3, RestStep
<1> QED BY <1>a, <1>b

(* The cache is enabled: the invariant is kept.                             *)
LEMMA EnableCacheStep ==
  ASSUME IInv, NEW c \in Cores, EnableCache(c), TypeOK' PROVE IInv'
<1>1. /\ AllFree /\ Caching' /\ UNCHANGED <<tvars, regs, shm_cache, cvars, pvars, request>>
      /\ rpc_arg' = rpc_arg /\ rpc_mobj' = rpc_mobj /\ shm' = shm
  BY DEF EnableCache, Caching, avars, nvars
<1>2. \A u \in Threads : /\ rpc_arg[u] \in {"null", "own"}
                         /\ (rpc_arg[u] = "own" <=> rpc_mobj[u] # NoCookie)
                         /\ pc[u] = "none" /\ cmd[u] = Other
  BY <1>1, AllAtRest DEF IInv, TypeOK
<1>3. \A u \in Threads : SameBuffers(u)
  BY <1>1, <1>2 DEF SameBuffers, ArgOf, PayOf, PayType, pvars, Other, Command
<1>4. BufferInv'
  BY <1>1, <1>3, BuffersKept DEF IInv
<1> QED BY <1>1, <1>2, <1>4, RestStep

----------------------------------------------------------------------------
(* The invariant. *)

(* Nothing runs and nothing is allocated at first. *)
LEMMA InitInv == Init => IInv
<1> SUFFICES ASSUME Init PROVE IInv
  OBVIOUS
<1>1. TypeOK
  <2>1. Other \in Commands /\ NoRequest \in Requests
        /\ [mobj |-> NoCookie, type |-> DefaultType] \in Entries
    BY RecordTypes, ThreadAssumption DEF Entries, MaybeCookie
  <2>2. /\ NoCookie \in MaybeCookie /\ THREAD_ID_INVALID \in MaybeThread /\ 0 \in 0 .. MaxRpc
        /\ "none" \in Places /\ "none" \in BufferTypes
    BY ThreadAssumption DEF MaybeCookie, MaybeThread, Places, Masked, BufferTypes
  <2> QED BY <2>1, <2>2 DEF Init, TypeOK
<1>2. CoreInv
  BY DEF Init, CoreInv
<1>3. OwnerInv
  BY InvalidIsNoThread DEF Init, OwnerInv, Owned
<1>4. StateInv
  BY DEF Init, StateInv
<1>5. ASSUME NEW t \in Threads PROVE LocalInv(t) /\ ArgOf(t) = NoCookie /\ PayOf(t) = NoCookie
  <2>1. /\ pc[t] = "none" /\ cmd[t] = Other /\ rpc_arg[t] = "null" /\ rpc_mobj[t] = NoCookie
        /\ shm_cache[t].mobj = NoCookie /\ ~copy_args[t] /\ request[t] = NoRequest
    BY DEF Init
  <2>2. ~Outstanding(t)
    BY <2>1 DEF Outstanding, NoRequest, Request
  <2>3. CmdInv(t) BY <2>1 DEF CmdInv, Other, Command
  <2>4. ArgInv(t) BY <2>1 DEF ArgInv, Caller, InBody, InCall
  <2>5. RequestInv(t) BY <2>1, <2>2 DEF RequestInv
  <2> QED BY <2>1, <2>3, <2>4, <2>5 DEF LocalInv, ArgOf, PayOf
<1>6. BufferInv
  BY <1>5 DEF BufferInv, Init
<1> QED BY <1>1, <1>2, <1>3, <1>4, <1>5, <1>6 DEF IInv

(* Every step of a thread's program keeps the invariant. *)
LEMMA ProgramInv ==
  ASSUME IInv, NEW c \in Cores, NEW t \in Threads, Program(c, t) PROVE IInv'
<1>1. TypeOK'
  BY ProgramType
<1> QED BY <1>1, EntryFailsStep, EntryStep, ClearPreallocStep, ClearedStep, RpcCmdStep,
           ShmCacheAllocStep, AllocPayloadStep, SendCmdStep, AllocArgStep, AllocArgFailsStep,
           CmdReturnStep, PayloadReturnStep, EntryStdStep, TailStep, ThreadStateFreeStep,
           SwitchTaStep DEF Program

(* ... and so does every other step, and a step that changes nothing. *)
LEMMA NextInv == IInv /\ [Next]_vars => IInv'
<1> SUFFICES ASSUME IInv, [Next]_vars PROVE IInv'
  OBVIOUS
<1>1. ASSUME NEW c \in Cores, NEW t \in Threads,
             ResumeFromRpc(c, t) \/ ForeignIntr(c, t) \/ Program(c, t)
      PROVE  IInv'
  <2>1. CASE ResumeFromRpc(c, t)
    BY <2>1, OtherType, ResumeFromRpcStep
  <2>2. CASE ForeignIntr(c, t)
    BY <2>2, OtherType, ForeignIntrStep
  <2>3. CASE Program(c, t)
    BY <2>3, ProgramInv
  <2> QED BY <1>1, <2>1, <2>2, <2>3
<1>2. ASSUME NEW c \in Cores, NEW s \in BOOLEAN,
             AllocThread(c, s) \/ AllocRun(c) \/ ResumeRun(c) \/ DisableCache(c) \/ EnableCache(c)
      PROVE  IInv'
  BY <1>2, OtherType, AllocThreadStep, AllocRunStep, ResumeRunStep, DisableCacheStep,
     EnableCacheStep
<1>3. ASSUME NEW t \in Threads, Serve(t) PROVE IInv'
  BY <1>3, OtherType, ServeStep
<1>4. CASE UNCHANGED vars
  <2>1. /\ UNCHANGED <<state, copy_args, have_user_map, regs, rpc_arg, rpc_mobj, shm_cache,
                       prealloc, curr_thread, user_map, at, n, pc, cmd, supplied, in_ta, rpcs,
                       request, shm>>
    BY <1>4 DEF vars, tvars, avars, cvars, pvars, nvars
  <2>2. TypeOK' BY <2>1 DEF IInv, TypeOK
  <2>3. CoreInv' /\ OwnerInv' /\ StateInv'
    BY <2>1 DEF IInv, CoreInv, OwnerInv, StateInv, Owned
  <2>4. \A u \in Threads : LocalInv(u)' /\ SameBuffers(u)
    BY <2>1, SameKeeps DEF Same, IInv
  <2> QED BY <2>1, <2>2, <2>3, <2>4, BuffersKept DEF IInv
<1>5. TRUE \in BOOLEAN
  OBVIOUS
<1> QED BY <1>1, <1>2, <1>3, <1>4, <1>5 DEF Next

(* The inductive invariant holds in every reachable state. *)
LEMMA AlwaysInv == Spec => []IInv
<1>1. Init => IInv
  BY InitInv
<1>2. IInv /\ [Next]_vars => IInv'
  BY NextInv
<1> QED BY <1>1, <1>2, PTL DEF Spec

(* Whatever doubled returns and foreign interrupts do, an active thread has *)
(* exactly one core that runs or has claimed it, and another thread has     *)
(* none (thread_resume_from_rpc, alloc_thread).                             *)
THEOREM OneCore == Spec => []OneCorePerThread
<1>1. ASSUME IInv PROVE OneCorePerThread
  <2> SUFFICES ASSUME NEW t \in Threads
               PROVE  Cardinality(Owners(t)) = IF state[t] = "ACTIVE" THEN 1 ELSE 0
    BY DEF OneCorePerThread
  <2>1. ASSUME NEW c \in Cores PROVE c \in Owners(t) <=> Owned(c) = t
    <3>1. at[c] \in {"nsec", "alloc", "resume", "thread"}
      BY <1>1 DEF IInv, TypeOK
    <3> QED BY <1>1, <3>1, InvalidIsNoThread DEF IInv, CoreInv, Owners, Owned
  <2>2. CASE state[t] = "ACTIVE"
    <3>1. PICK c \in Cores : Owned(c) = t
      BY <1>1, <2>2 DEF IInv, OwnerInv
    <3>2. \A d \in Cores : Owned(d) = t => d = c
      BY <1>1, <3>1 DEF IInv, OwnerInv
    <3>3. Owners(t) = {c}
      BY <2>1, <3>1, <3>2 DEF Owners
    <3>4. Cardinality({c}) = 1
      BY FS_Singleton
    <3> QED BY <2>2, <3>3, <3>4
  <2>3. CASE state[t] # "ACTIVE"
    <3>1. ASSUME NEW c \in Cores PROVE Owned(c) # t
      <4>1. at[c] \in {"nsec", "alloc", "resume", "thread"}
        BY <1>1 DEF IInv, TypeOK
      <4> QED BY <1>1, <2>3, <4>1, InvalidIsNoThread DEF IInv, CoreInv, Owned
    <3>2. Owners(t) = {}
      BY <2>1, <3>1 DEF Owners
    <3> QED BY <2>3, <3>2, FS_EmptySet
  <2> QED BY <2>2, <2>3
<1>2. IInv => OneCorePerThread
  BY <1>1
<1> QED BY <1>2, AlwaysInv, PTL

(* A core has a user mapping active exactly while it runs its thread inside *)
(* a TA, wherever the thread was suspended and resumed                      *)
(* (thread_state_suspend, thread_resume_from_rpc).                          *)
THEOREM UserMapCorrect == Spec => []UserMapFollowsThread
<1>1. IInv => UserMapFollowsThread
  BY DEF IInv, CoreInv, UserMapFollowsThread
<1> QED BY <1>1, AlwaysInv, PTL

(* A command never travels in a buffer that is freed or is not the          *)
(* thread's: get_rpc_arg and the prealloc cache keep rpc_arg and rpc_mobj   *)
(* in step with what the normal world has allocated.                        *)
THEOREM CommandsCarried == Spec => []CommandHasBuffer
<1>1. ASSUME IInv PROVE CommandHasBuffer
  <2> SUFFICES ASSUME NEW t \in Threads, Outstanding(t), request[t].op \in Sent
               PROVE  IF supplied[t] THEN rpc_arg[t] = "supplied" /\ rpc_mobj[t] = NoCookie
                      ELSE /\ rpc_arg[t] = "own" /\ rpc_mobj[t] # NoCookie
                           /\ shm[rpc_mobj[t]] = "arg"
    BY DEF CommandHasBuffer
  <2>1. pc[t] = "sent"
    BY <1>1 DEF IInv, LocalInv, RequestInv, Sent
  <2>2. /\ rpc_arg[t] \in {"own", "supplied"} /\ (rpc_arg[t] = "own" <=> rpc_mobj[t] # NoCookie)
        /\ (rpc_arg[t] = "supplied" <=> supplied[t])
    BY <1>1, <2>1 DEF IInv, TypeOK, LocalInv, ArgInv, InCall, InBody, Caller
  <2>3. rpc_mobj[t] # NoCookie => shm[rpc_mobj[t]] = "arg"
    BY <1>1, <2>1 DEF IInv, BufferInv, ArgOf
  <2> QED BY <2>2, <2>3
<1>2. IInv => CommandHasBuffer
  BY <1>1
<1> QED BY <1>2, AlwaysInv, PTL

(* When no call is under way the normal world has nothing allocated but one *)
(* cached argument buffer per thread, and nothing once the cache is off     *)
(* (thread_disable_prealloc_rpc_cache, clear_prealloc_rpc_cache).           *)
THEOREM NoLeak == Spec => []NothingLeaked
<1>1. ASSUME IInv PROVE NothingLeaked
  <2> SUFFICES ASSUME AllFree
               PROVE  /\ Allocated = {rpc_mobj[t] : t \in Threads} \ {NoCookie}
                      /\ \A t, u \in Threads : t # u /\ rpc_mobj[t] = rpc_mobj[u]
                                                 => rpc_mobj[t] = NoCookie
                      /\ ~prealloc => Allocated = {}
    BY DEF NothingLeaked
  <2>1. \A t \in Threads : ArgOf(t) = rpc_mobj[t] /\ PayOf(t) = NoCookie
    BY <1>1, AllAtRest
  <2>2. \A t \in Threads : rpc_mobj[t] \in Cookies \cup {NoCookie}
    BY <1>1 DEF IInv, TypeOK, MaybeCookie
  <2>3. BufferInv
    BY <1>1 DEF IInv
  <2>4. ASSUME NEW k PROVE k \in Allocated <=> k \in {rpc_mobj[t] : t \in Threads} \ {NoCookie}
    BY <2>1, <2>2, <2>3, ThreadAssumption DEF Allocated, BufferInv
  <2>5. \A t, u \in Threads : t # u /\ rpc_mobj[t] = rpc_mobj[u] => rpc_mobj[t] = NoCookie
    BY <2>1, <2>3 DEF BufferInv
  <2>6. ASSUME ~prealloc PROVE Allocated = {}
    <3>1. \A t \in Threads : rpc_mobj[t] = NoCookie
      <4>1. \A t \in Threads : LocalInv(t) /\ pc[t] = "none"
        BY <1>1, AllAtRest
      <4>2. ~Caching
        BY <2>6 DEF Caching
      <4> QED BY <4>1, <4>2 DEF LocalInv, ArgInv
    <3> QED BY <3>1, <2>4
  <2> QED BY <2>4, <2>5, <2>6
<1>2. IInv => NothingLeaked
  BY <1>1
<1> QED BY <1>2, AlwaysInv, PTL

(* Unless a payload can be unusable for its alignment, a buffer is freed    *)
(* only while it is allocated, and as the type it was allocated as          *)
(* (clear_shm_cache_entry, get_rpc_alloc_res).                              *)
THEOREM FreesMatch == ASSUME ~MayMisalign PROVE Spec => []FreedAsAllocated
<1>1. ASSUME IInv PROVE FreedAsAllocated
  <2> SUFFICES ASSUME NEW t \in Threads, Outstanding(t), request[t].op \in {"FREE", "SHM_FREE"}
               PROVE  /\ request[t].cookie # NoCookie
                      /\ shm[request[t].cookie] = request[t].bt
    BY DEF FreedAsAllocated
  <2>1. LocalInv(t) /\ BufferInv /\ cmd[t].op \in Sent
    BY <1>1, ThreadTypes DEF IInv
  <2>2. CASE request[t].op = "FREE"
    <3>1. /\ pc[t] \in {"no_arg", "cleared_in", "cleared_out"}
          /\ request[t].bt = "arg" /\ request[t].cookie # NoCookie
          /\ pc[t] # "no_arg" => request[t].cookie = rpc_mobj[t]
      BY <2>1, <2>2 DEF LocalInv, RequestInv, Sent
    <3>2. ArgOf(t) = request[t].cookie
      BY <3>1 DEF ArgOf
    <3> QED BY <3>1, <3>2, <2>1 DEF BufferInv
  <2>3. CASE request[t].op = "SHM_FREE"
    <3>1. /\ pc[t] = "sent" /\ cmd[t].op = "SHM_FREE" /\ request[t].bt = cmd[t].bt
          /\ request[t].cookie = cmd[t].cookie
      BY <2>1, <2>3 DEF LocalInv, RequestInv
    <3>2. PayOf(t) = cmd[t].cookie /\ PayType(t) = cmd[t].bt /\ cmd[t].cookie # NoCookie
      BY <2>1, <3>1 DEF PayOf, PayType, LocalInv, CmdInv
    <3> QED BY <3>1, <3>2, <2>1 DEF BufferInv
  <2> QED BY <2>2, <2>3
<1>2. IInv => FreedAsAllocated
  BY <1>1
<1> QED BY <1>2, AlwaysInv, PTL
=============================================================================
