------------------------------- MODULE DynShm -------------------------------
(***************************************************************************)
(* Registered shared memory (mobj_dyn_shm.c): buffers of the normal world  *)
(* that the core knows by a cookie.  A call looks a buffer up, maps it,    *)
(* uses it, unmaps it and puts it back, while another call unregisters it  *)
(* and waits for its last user.  A buffer passed with one call only is     *)
(* registered with a guard, which keeps it from being unregistered, and    *)
(* freed when that call puts it.                                           *)
(*                                                                         *)
(* What a spin lock protects is one step.  The reference counts are atomic *)
(* variables, changed outside the locks.                                   *)
(***************************************************************************)
EXTENDS Naturals, FiniteSets

CONSTANTS
  Threads,    \* threads of the core
  Cookies,    \* cookies the normal world gives its buffers
  MaxReg,     \* bound: registrations in a behaviour
  LateLookup, \* the normal world passes a buffer that it is unregistering
  NoOne       \* shm_mu is free

VARIABLES
  buf,      \* reg_shm_list, by cookie
  th,       \* what each thread does, and to which buffer
  mu,       \* the owner of shm_mu
  waiters,  \* shm_release_waiters
  asleep,   \* the threads that wait on shm_cv
  panicked, \* mobj_get found a count of zero
  regs      \* registrations so far

vars == <<buf, th, mu, waiters, asleep, panicked, regs>>

ASSUME DynShmAssumption ==
  /\ IsFiniteSet(Threads) /\ NoOne \notin Threads
  /\ Cookies # {} /\ MaxReg \in Nat /\ LateLookup \in BOOLEAN

(* struct mobj_reg_shm; a buffer that is not listed does not exist.         *)
Unlisted == [listed |-> FALSE, refc |-> 0, mapcount |-> 0, mm |-> FALSE,
             guarded |-> FALSE, releasing |-> FALSE, releaseFrees |-> FALSE]

Holding == {"got", "initmap", "mapped", "unmap", "unmapped", "free"}

Releasing == {"drop", "lastdrop", "notify", "enter", "check", "wait", "wake"}

PCs == {"idle", "register", "broadcast"} \cup Holding \cup Releasing

(* Types of the buffers, the threads and the release queue.                 *)
TypeOK ==
  /\ buf \in [Cookies -> [listed : BOOLEAN, refc : Nat, mapcount : Nat,
                          mm : BOOLEAN, guarded : BOOLEAN,
                          releasing : BOOLEAN, releaseFrees : BOOLEAN]]
  /\ th \in [Threads -> [pc : PCs, k : Cookies]]
  /\ mu \in Threads \cup {NoOne}
  /\ waiters \in 0 .. Cardinality(Threads)
  /\ asleep \subseteq Threads
  /\ panicked \in BOOLEAN

Init ==
  /\ buf = [k \in Cookies |-> Unlisted]
  /\ th \in [Threads -> [pc : {"idle"}, k : {CHOOSE k \in Cookies : TRUE}]]
  /\ mu = NoOne
  /\ waiters = 0
  /\ asleep = {}
  /\ panicked = FALSE
  /\ regs = 0

Goto(t, pc) == th' = [th EXCEPT ![t].pc = pc]

(***************************************************************************)
(* mobj_reg_shm_alloc, for the call that registers a buffer and for one    *)
(* that carries it (entry_std.c, thread_optee_smc.c); mobj_reg_shm_unguard.*)
(***************************************************************************)
Alloc(t, k) ==
  /\ th[t].pc = "idle"
  /\ ~buf[k].listed
  /\ regs < MaxReg
  /\ regs' = regs + 1
  /\ buf' = [buf EXCEPT ![k] = [Unlisted EXCEPT !.listed = TRUE, !.refc = 1,
                                                !.guarded = TRUE]]
  /\ \E pc \in {"register", "got"} : th' = [th EXCEPT ![t] = [pc |-> pc, k |-> k]]
  /\ UNCHANGED <<mu, waiters, asleep, panicked>>

\* mutant: the call that registers a buffer puts it when it is done
UnguardPut(t) ==
  /\ th[t].pc = "register"
  /\ buf' = [buf EXCEPT ![th[t].k].guarded = FALSE, ![th[t].k].refc = 0]
  /\ Goto(t, "idle")
  /\ UNCHANGED <<mu, waiters, asleep, panicked, regs>>

Unguard(t) ==
  /\ th[t].pc = "register"
  /\ buf' = [buf EXCEPT ![th[t].k].guarded = FALSE]
  /\ Goto(t, "idle")
  /\ UNCHANGED <<mu, waiters, asleep, panicked, regs>>

(* The normal world is told of a buffer when its registration is done, and  *)
(* has no call use it once it unregisters it.                               *)
Known(k) == /\ ~buf[k].guarded
            /\ LateLookup \/ ~buf[k].releasing

(* mobj_reg_shm_get_by_cookie, and the panic of mobj_get on a count of zero *)
GetByCookie(t, k) ==
  /\ th[t].pc = "idle"
  /\ buf[k].listed
  /\ Known(k)
  /\ IF buf[k].refc = 0
     THEN panicked' = TRUE /\ UNCHANGED <<buf, th>>
     ELSE /\ buf' = [buf EXCEPT ![k].refc = @ + 1]
          /\ th' = [th EXCEPT ![t] = [pc |-> "got", k |-> k]]
          /\ UNCHANGED panicked
  /\ UNCHANGED <<mu, waiters, asleep, regs>>

(***************************************************************************)
(* mobj_reg_shm_inc_map: refcount_inc succeeds on a count that is not zero.*)
(* Else the mapping is made under the lock, or found there, or the call    *)
(* starts again because another one was faster.                            *)
(***************************************************************************)
IncMap(t) ==
  LET k == th[t].k IN
  /\ th[t].pc = "got"
  /\ IF buf[k].mapcount > 0
     THEN buf' = [buf EXCEPT ![k].mapcount = @ + 1] /\ Goto(t, "mapped")
     ELSE UNCHANGED buf /\ Goto(t, "initmap")
  /\ UNCHANGED <<mu, waiters, asleep, panicked, regs>>

InitMap(t) ==
  LET k == th[t].k IN
  /\ th[t].pc = "initmap"
  /\ IF buf[k].mapcount > 0
     THEN UNCHANGED buf /\ Goto(t, "got")
     ELSE /\ buf' = [buf EXCEPT ![k].mapcount = 1, ![k].mm = TRUE]
          /\ Goto(t, "mapped")
  /\ UNCHANGED <<mu, waiters, asleep, panicked, regs>>

(* No room for the mapping.                                                 *)
MapFails(t) ==
  /\ th[t].pc = "initmap"
  /\ buf[th[t].k].mapcount = 0 /\ ~buf[th[t].k].mm
  /\ Goto(t, "unmapped")
  /\ UNCHANGED <<buf, mu, waiters, asleep, panicked, regs>>

(***************************************************************************)
(* mobj_reg_shm_dec_map: the count first, the lock and a second look after *)
(***************************************************************************)
DecMap(t) ==
  LET k == th[t].k IN
  /\ th[t].pc = "mapped"
  /\ buf' = [buf EXCEPT ![k].mapcount = @ - 1]
  /\ Goto(t, IF buf[k].mapcount = 1 THEN "unmap" ELSE "unmapped")
  /\ UNCHANGED <<mu, waiters, asleep, panicked, regs>>

\* mutant: the second look is left out
UnmapBlind(t) ==
  /\ th[t].pc = "unmap"
  /\ buf' = [buf EXCEPT ![th[t].k].mm = FALSE]
  /\ Goto(t, "unmapped")
  /\ UNCHANGED <<mu, waiters, asleep, panicked, regs>>

Unmap(t) ==
  LET k == th[t].k IN
  /\ th[t].pc = "unmap"
  /\ buf' = [buf EXCEPT ![k].mm = @ /\ buf[k].mapcount > 0]
  /\ Goto(t, "unmapped")
  /\ UNCHANGED <<mu, waiters, asleep, panicked, regs>>

(***************************************************************************)
(* mobj_put by a user.  The call that brought a guarded buffer along puts  *)
(* it with its mapping in place.                                           *)
(***************************************************************************)
Put(t) ==
  LET k == th[t].k IN
  /\ \/ th[t].pc \in {"got", "unmapped"}
     \/ th[t].pc = "mapped" /\ buf[k].guarded
  /\ buf' = [buf EXCEPT ![k].refc = @ - 1]
  /\ Goto(t, IF buf[k].refc = 1 THEN "free" ELSE "idle")
  /\ UNCHANGED <<mu, waiters, asleep, panicked, regs>>

\* mutant: the last user of any buffer frees it
FreedAlways(k) == buf' = [buf EXCEPT ![k] = Unlisted]

(* mobj_reg_shm_free: free the buffer, with its mapping, or leave that to   *)
(* the thread that unregisters it.                                          *)
Freed(k) ==
  buf' = [buf EXCEPT ![k] = IF @.guarded /\ ~@.releasing THEN Unlisted
                            ELSE [@ EXCEPT !.releaseFrees = TRUE]]

Free(t) ==
  LET k == th[t].k IN
  /\ th[t].pc \in {"free", "lastdrop"}
  /\ Freed(k)
  /\ Goto(t, IF buf[k].guarded /\ ~buf[k].releasing THEN "idle"
             ELSE IF th[t].pc = "free" THEN "broadcast" ELSE "notify")
  /\ UNCHANGED <<mu, waiters, asleep, panicked, regs>>

(* mobj_reg_shm_free tells those who wait.  The buffer may be gone by now.  *)
Notify(t) ==
  /\ th[t].pc \in {"broadcast", "notify"}
  /\ mu = NoOne
  /\ asleep' = IF waiters > 0 THEN {} ELSE asleep
  /\ th' = [u \in Threads |->
             IF u = t THEN [th[t] EXCEPT !.pc = IF @ = "notify" THEN "enter"
                                                ELSE "idle"]
             ELSE IF u \in asleep /\ waiters > 0 THEN [th[u] EXCEPT !.pc = "wake"]
             ELSE th[u]]
  /\ UNCHANGED <<buf, mu, waiters, panicked, regs>>

(***************************************************************************)
(* mobj_reg_shm_release_by_cookie.  A buffer that is guarded, or being     *)
(* released already, is refused.                                           *)
(***************************************************************************)
Release(t, k) ==
  /\ th[t].pc = "idle"
  /\ buf[k].listed /\ ~buf[k].guarded /\ ~buf[k].releasing
  /\ buf' = [buf EXCEPT ![k].releasing = TRUE]
  /\ th' = [th EXCEPT ![t] = [pc |-> "drop", k |-> k]]
  /\ UNCHANGED <<mu, waiters, asleep, panicked, regs>>

Drop(t) ==
  LET k == th[t].k IN
  /\ th[t].pc = "drop"
  /\ buf' = [buf EXCEPT ![k].refc = @ - 1]
  /\ Goto(t, IF buf[k].refc = 1 THEN "lastdrop" ELSE "enter")
  /\ UNCHANGED <<mu, waiters, asleep, panicked, regs>>

\* mutant: a thread is counted as waiting only once it goes to sleep
EnterUncounted(t) ==
  /\ th[t].pc \in {"enter", "wake"}
  /\ mu = NoOne
  /\ mu' = t
  /\ Goto(t, "check")
  /\ UNCHANGED <<buf, waiters, asleep, panicked, regs>>

Enter(t) ==
  /\ th[t].pc \in {"enter", "wake"}
  /\ mu = NoOne
  /\ mu' = t
  /\ waiters' = IF th[t].pc = "enter" THEN waiters + 1 ELSE waiters
  /\ Goto(t, "check")
  /\ UNCHANGED <<buf, asleep, panicked, regs>>

(* The loop under shm_mu: free the buffer and leave, or sleep; condvar_wait *)
(* gives the mutex up and is woken by any broadcast after that.             *)
Check(t) ==
  LET k == th[t].k IN
  /\ th[t].pc = "check"
  /\ IF buf[k].releaseFrees
     THEN /\ buf' = [buf EXCEPT ![k] = Unlisted]
          /\ waiters' = waiters - 1
          /\ Goto(t, "idle")
          /\ UNCHANGED asleep
     ELSE /\ asleep' = asleep \cup {t}
          /\ Goto(t, "wait")
          /\ UNCHANGED <<buf, waiters>>
  /\ mu' = NoOne
  /\ UNCHANGED <<panicked, regs>>

Step(t) == \/ Unguard(t) \/ IncMap(t) \/ InitMap(t) \/ DecMap(t) \/ Unmap(t)
           \/ Put(t) \/ Free(t) \/ Notify(t) \/ Drop(t) \/ Enter(t) \/ Check(t)

(* The normal world has no more buffers, and makes no more calls.           *)
Over == /\ regs = MaxReg
        /\ \A t \in Threads : th[t].pc = "idle"
        /\ UNCHANGED vars

Next == \/ \E t \in Threads :
             \/ \E k \in Cookies :
                  Alloc(t, k) \/ GetByCookie(t, k) \/ Release(t, k)
             \/ MapFails(t)
             \/ Step(t)
        \/ Over

(* A thread that is in a call goes on with it.                              *)
Spec == Init /\ [][Next]_vars /\ \A t \in Threads : WF_vars(Step(t))

(***************************************************************************)
(* Properties                                                              *)
(***************************************************************************)
(* While a call has the buffer mapped (mobj_inc_map returned success, and   *)
(* mobj_dec_map was not called), there is a mapping: mobj_reg_shm_get_va    *)
(* finds one, although others unmap the same buffer without a lock.         *)
MappedWhileUsed ==
  \A t \in Threads : th[t].pc = "mapped" =>
    buf[th[t].k].mm /\ buf[th[t].k].mapcount > 0

(* No buffer is freed while a user still holds it or the thread that        *)
(* unregisters it still looks at it: mobj_reg_shm_free and the loop of      *)
(* mobj_reg_shm_release_by_cookie free it once between them.                *)
NoUseAfterFree ==
  \A t \in Threads :
    th[t].pc \in Holding \cup (Releasing \ {"notify"}) \cup {"register"} =>
      buf[th[t].k].listed

(* The core does not panic on a buffer that the normal world uses as it     *)
(* should (mobj_get), whatever else is registered or released meanwhile.    *)
NoPanic == ~panicked

(* A call that unregisters a buffer ends: the last mobj_put is not missed,  *)
(* on whichever side of the waiter's look it falls.                         *)
ReleaseEnds ==
  \A t \in Threads : th[t].pc \in Releasing ~> th[t].pc \notin Releasing
=============================================================================
