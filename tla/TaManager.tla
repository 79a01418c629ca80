----------------------------- MODULE TaManager -----------------------------
(***************************************************************************)
(* OP-TEE's TA manager (tee_ta_manager.c, user_ta.c): sessions and TA      *)
(* contexts with their reference counts, the session lock, the busy flag   *)
(* and the global single-instance lock, TA panics and their clean-up.      *)
(*                                                                         *)
(* A section under tee_ta_mutex is one step, up to a condvar_wait; the     *)
(* mutex and its condition variables are those of RwMutex.  A thread's     *)
(* calls form a stack of frames, because a TA may call another TA.  The    *)
(* normal world only passes session ids it was given (the Linux driver     *)
(* checks them).  Pseudo TAs, StMM, statistics, profiling and secure data  *)
(* path memory are left out.                                               *)
(***************************************************************************)
EXTENDS Integers, Sequences, FiniteSets

CONSTANTS
    Threads, NoThread,
    Tas, NoTa,      \* TA UUIDs
    Flags,          \* the TA_FLAG_... in each TA's header
    Calls,          \* <<a, b>>: TA a opens sessions to TA b
    Panics,         \* the TAs that may panic
    MayFail,        \* loading or entering a TA may fail
    MaxId,          \* bound: session ids are 1 .. MaxId and wrap
    MaxCtx,         \* bound: contexts the heap has room for
    MaxDepth        \* bound on nested calls

ASSUME ManagerAssumption ==
    /\ NoThread \notin Threads /\ NoTa \notin Tas
    /\ Flags \in [Tas -> SUBSET {"SINGLE_INSTANCE", "MULTI_SESSION",
                                 "KEEP_ALIVE", "KEEP_CRASHED"}]
    /\ Calls \subseteq Tas \X Tas /\ Panics \subseteq Tas
    /\ MayFail \in BOOLEAN
    /\ MaxId \in Nat \ {0} /\ MaxCtx \in Nat \ {0} /\ MaxDepth \in Nat \ {0}

VARIABLES
    open_sessions,  \* tee_open_sessions (0) and each context's list, of ids
    sess,           \* struct tee_ta_session, by list and id
    ctx,            \* struct tee_ta_ctx
    tee_ctxes,      \* the registered contexts, in order
    si_thread,      \* tee_ta_single_instance_thread
    si_count,       \* tee_ta_single_instance_count
    wq,             \* threads asleep on condition variables, in order
    stack,          \* each thread's calls
    known,          \* the ids the normal world holds
    panic           \* the core called panic()

vars == <<open_sessions, sess, ctx, tee_ctxes, si_thread, si_count, wq, stack,
          known, panic>>
locks == <<si_thread, si_count>>

Ids == 1 .. MaxId
Ctxs == 1 .. MaxCtx
Lists == 0 .. MaxCtx
Keys == Lists \X Ids

NoSess == [ctx |-> 0, ref_count |-> 0, lock_thread |-> NoThread, unlink |-> FALSE]
NoCtx == [ta |-> NoTa, ref_count |-> 0, busy |-> FALSE, is_initializing |-> FALSE,
          is_releasing |-> FALSE, panicked |-> FALSE]

Init ==
    /\ open_sessions = [l \in Lists |-> << >>]
    /\ sess = [k \in Keys |-> NoSess]
    /\ ctx = [x \in Ctxs |-> NoCtx]
    /\ tee_ctxes = << >>
    /\ si_thread = NoThread /\ si_count = 0
    /\ wq = << >>
    /\ stack = [t \in Threads |-> << >>]
    /\ known = {}
    /\ panic = FALSE

----------------------------------------------------------------------------
(* Frames.  A frame is one call of the manager's interface; key is the     *)
(* session, x the context, held tells that the frame set the busy flag.    *)
(* An open that fails goes on as the close it calls.                       *)

Frame(op, ta, key, pc) ==
    [op |-> op, ta |-> ta, key |-> key, x |-> 0, pc |-> pc, held |-> FALSE]

Top(t) == stack[t][Len(stack[t])]
At(t, pc) == stack[t] # << >> /\ Top(t).pc = pc

Become(t, f) == stack' = [stack EXCEPT ![t][Len(stack[t])] = f]
Goto(t, pc) == Become(t, [Top(t) EXCEPT !.pc = pc])
Push(t, f) == stack' = [stack EXCEPT ![t] = Append(@, f)]
Return(t) == stack' = [stack EXCEPT ![t] = SubSeq(@, 1, Len(@) - 1)]

Elements(q) == {q[i] : i \in 1 .. Len(q)}
(* TAILQ_REMOVE: an element is on a list once. *)
Without(q, e) ==
    IF e \notin Elements(q) THEN q
    ELSE LET i == CHOOSE i \in 1 .. Len(q) : q[i] = e
         IN SubSeq(q, 1, i - 1) \o SubSeq(q, i + 1, Len(q))

(* Condition variables: wait, signal the first waiter, signal all.  Each   *)
(* works on the queue so that one step can do several.                     *)
Awake(t) == \A i \in 1 .. Len(wq) : wq[i].thread # t
Wait(t, cv) == wq' = Append(wq, [thread |-> t, cv |-> cv])
Waiters(q, cv) == {i \in 1 .. Len(q) : q[i].cv = cv}
Signal(q, cv) ==
    IF Waiters(q, cv) = {} THEN q
    ELSE LET i == CHOOSE i \in Waiters(q, cv) : \A j \in Waiters(q, cv) : i <= j
         IN SubSeq(q, 1, i - 1) \o SubSeq(q, i + 1, Len(q))
Broadcast(q, cv) ==
    LET kept[i \in 0 .. Len(q)] ==
            IF i = 0 THEN << >>
            ELSE IF q[i].cv = cv THEN kept[i - 1] ELSE Append(kept[i - 1], q[i])
    IN kept[Len(q)]

SiCv == <<"single_instance", 0, 0>>
InitCv == <<"init", 0, 0>>
BusyCv(x) == <<"busy", x, 0>>
LockCv(k) == <<"lock", k[1], k[2]>>
RefcCv(k) == <<"refc", k[1], k[2]>>

Has(x, flag) == flag \in Flags[ctx[x].ta]
KeepAlive(x) == Has(x, "SINGLE_INSTANCE") /\ Has(x, "KEEP_ALIVE")
KeepCrashed(x) == KeepAlive(x) /\ Has(x, "KEEP_CRASHED")

----------------------------------------------------------------------------
(* The session list.                                                       *)

Exists(k) == k[2] \in Elements(open_sessions[k[1]])

(* new_session_id: the first free id after the last session's, wrapping;   *)
(* 0 when all are taken.                                                   *)
NewSessionId(l) ==
    LET last == IF open_sessions[l] = << >> THEN 0
                ELSE open_sessions[l][Len(open_sessions[l])]
        After(i) == ((last + i) % MaxId) + 1
        free == {i \in 0 .. MaxId - 1 : ~Exists(<<l, After(i)>>)}
    IN IF free = {} THEN 0 ELSE After(CHOOSE i \in free : \A j \in free : i <= j)

(* dec_session_ref_count and the wakeup it sends. *)
DecRef(k, q) == IF sess[k].ref_count = 2 THEN Signal(q, RefcCv(k)) ELSE q

(* tee_ta_get_session: look the session up and take a reference; take its  *)
(* lock too, or wait for it, unless the call is a cancel.                  *)
GetSession(t) ==
    LET f == Top(t)
        k == f.key
    IN /\ At(t, "get")
       /\ IF ~Exists(k) \/ sess[k].unlink
          THEN Return(t) /\ UNCHANGED <<sess, wq>>
          ELSE IF f.op = "cancel"
          THEN /\ sess' = [sess EXCEPT ![k].ref_count = @ + 1]
               /\ Goto(t, "put") /\ UNCHANGED wq
          ELSE IF sess[k].lock_thread = NoThread
          THEN /\ sess' = [sess EXCEPT ![k].ref_count = @ + 1, ![k].lock_thread = t]
               /\ Become(t, [f EXCEPT !.x = sess[k].ctx,
                                      !.pc = IF f.op = "close" THEN "close" ELSE "busy"])
               /\ UNCHANGED wq
          ELSE /\ sess' = [sess EXCEPT ![k].ref_count = @ + 1]
               /\ Goto(t, "lock") /\ Wait(t, LockCv(k))
       /\ UNCHANGED <<open_sessions, ctx, tee_ctxes, locks, known, panic>>

(* Mutant: the reference is kept when the session is going. *)
LockSessionKeepsRef(t) ==
    LET f == Top(t)
        k == f.key
    IN /\ At(t, "lock") /\ Awake(t)
       /\ IF sess[k].unlink
          THEN Return(t) /\ UNCHANGED <<sess, wq>>
          ELSE IF sess[k].lock_thread # NoThread
          THEN Wait(t, LockCv(k)) /\ UNCHANGED <<sess, stack>>
          ELSE /\ sess' = [sess EXCEPT ![k].lock_thread = t]
               /\ Become(t, [f EXCEPT !.x = sess[k].ctx,
                                      !.pc = IF f.op = "close" THEN "close" ELSE "busy"])
               /\ UNCHANGED wq
       /\ UNCHANGED <<open_sessions, ctx, tee_ctxes, locks, known, panic>>

(* Woken: the session is going, is still locked, or can be locked. *)
LockSession(t) ==
    LET f == Top(t)
        k == f.key
    IN /\ At(t, "lock") /\ Awake(t)
       /\ IF sess[k].unlink
          THEN /\ sess' = [sess EXCEPT ![k].ref_count = @ - 1]
               /\ wq' = DecRef(k, wq)
               /\ Return(t)
          ELSE IF sess[k].lock_thread # NoThread
          THEN Wait(t, LockCv(k)) /\ UNCHANGED <<sess, stack>>
          ELSE /\ sess' = [sess EXCEPT ![k].lock_thread = t]
               /\ Become(t, [f EXCEPT !.x = sess[k].ctx,
                                      !.pc = IF f.op = "close" THEN "close" ELSE "busy"])
               /\ UNCHANGED wq
       /\ UNCHANGED <<open_sessions, ctx, tee_ctxes, locks, known, panic>>

(* tee_ta_put_session; an open then tells its caller the id. *)
PutSession(t) ==
    LET k == Top(t).key
    IN /\ At(t, "put")
       /\ sess' = [sess EXCEPT ![k].ref_count = @ - 1,
                               ![k].lock_thread = IF @ = t THEN NoThread ELSE @]
       /\ wq' = DecRef(k, IF sess[k].lock_thread = t THEN Signal(wq, LockCv(k)) ELSE wq)
       /\ known' = known \cup (IF Top(t).op = "open" /\ k[1] = 0 THEN {k[2]} ELSE {})
       /\ Return(t)
       /\ UNCHANGED <<open_sessions, ctx, tee_ctxes, locks, panic>>

(* tee_ta_unlink_session and free: with everybody else gone. *)
FreeSession(t) ==
    LET f == Top(t)
        k == f.key
    IN /\ open_sessions' = [open_sessions EXCEPT ![k[1]] = Without(@, k[2])]
       /\ sess' = [sess EXCEPT ![k] = NoSess]
       /\ Become(t, [f EXCEPT !.key = <<k[1], 0>>, !.pc = IF f.held THEN "clear" ELSE "drop"])

(* Mutant: it is freed without waiting for the other references. *)
UnlinkSessionNow(t) ==
    /\ At(t, "unlink")
    /\ FreeSession(t)
    /\ wq' = Broadcast(wq, LockCv(Top(t).key))
    /\ UNCHANGED <<ctx, tee_ctxes, locks, known, panic>>

UnlinkSession(t) ==
    LET k == Top(t).key
        q == Broadcast(wq, LockCv(k))
    IN /\ At(t, "unlink")
       /\ IF sess[k].ref_count = 1
          THEN FreeSession(t) /\ wq' = q
          ELSE /\ sess' = [sess EXCEPT ![k].unlink = TRUE]
               /\ wq' = Append(q, [thread |-> t, cv |-> RefcCv(k)])
               /\ Goto(t, "unlinking")
               /\ UNCHANGED open_sessions
       /\ UNCHANGED <<ctx, tee_ctxes, locks, known, panic>>

UnlinkWoken(t) ==
    LET k == Top(t).key
    IN /\ At(t, "unlinking") /\ Awake(t)
       /\ IF sess[k].ref_count = 1
          THEN FreeSession(t) /\ UNCHANGED wq
          ELSE Wait(t, RefcCv(k)) /\ UNCHANGED <<open_sessions, sess, stack>>
       /\ UNCHANGED <<ctx, tee_ctxes, locks, known, panic>>

----------------------------------------------------------------------------
(* Opening a session: tee_ta_init_session.                                 *)

(* tee_ta_context_find. *)
Registered(ta) == {i \in 1 .. Len(tee_ctxes) : ctx[tee_ctxes[i]].ta = ta}
ContextOf(ta) ==
    IF Registered(ta) = {} THEN 0
    ELSE tee_ctxes[CHOOSE i \in Registered(ta) : \A j \in Registered(ta) : i <= j]

(* tee_ta_init_user_ta_session: a context of its own, or no memory. *)
NewContext(t, f) ==
    LET free == {x \in Ctxs : ctx[x].ta = NoTa}
        x == CHOOSE y \in free : \A z \in free : y <= z
    IN IF free = {}
       THEN Become(t, [f EXCEPT !.pc = "init_fail"]) /\ UNCHANGED <<ctx, tee_ctxes>>
       ELSE /\ ctx' = [ctx EXCEPT ![x] = [NoCtx EXCEPT !.ta = f.ta, !.ref_count = 1,
                                                       !.is_initializing = TRUE]]
            /\ tee_ctxes' = Append(tee_ctxes, x)
            /\ Become(t, [f EXCEPT !.x = x, !.pc = "load"])

(* Mutant: a context that is still being initialized is taken as it is,    *)
(* with no flags yet.                                                      *)
FindContextEarly(t, f) ==
    LET x == ContextOf(f.ta)
    IN IF x = 0 \/ ctx[x].is_initializing \/ ~Has(x, "SINGLE_INSTANCE")
       THEN NewContext(t, f) /\ UNCHANGED wq
       ELSE IF ~Has(x, "MULTI_SESSION") /\ ctx[x].ref_count > 0
       THEN Become(t, [f EXCEPT !.pc = "init_fail"]) /\ UNCHANGED <<ctx, tee_ctxes, wq>>
       ELSE /\ ctx' = [ctx EXCEPT ![x].ref_count = @ + 1]
            /\ Become(t, [f EXCEPT !.x = x, !.pc = "busy"])
            /\ UNCHANGED <<tee_ctxes, wq>>

(* Mutant: a loaded multi-instance TA is taken as well. *)
FindContextShares(t, f) ==
    LET x == ContextOf(f.ta)
    IN IF x = 0 THEN NewContext(t, f) /\ UNCHANGED wq
       ELSE IF ctx[x].is_initializing
       THEN /\ Become(t, [f EXCEPT !.pc = "find"]) /\ Wait(t, InitCv)
            /\ UNCHANGED <<ctx, tee_ctxes>>
       ELSE /\ ctx' = [ctx EXCEPT ![x].ref_count = @ + 1]
            /\ Become(t, [f EXCEPT !.x = x, !.pc = "busy"])
            /\ UNCHANGED <<tee_ctxes, wq>>

(* tee_ta_init_session_with_context and what follows when it finds none. *)
FindContext(t, f) ==
    LET x == ContextOf(f.ta)
    IN IF x = 0 THEN NewContext(t, f) /\ UNCHANGED wq
       ELSE IF ctx[x].is_initializing
       THEN /\ Become(t, [f EXCEPT !.pc = "find"]) /\ Wait(t, InitCv)
            /\ UNCHANGED <<ctx, tee_ctxes>>
       ELSE IF ~Has(x, "SINGLE_INSTANCE")
       THEN NewContext(t, f) /\ UNCHANGED wq
       ELSE IF ~Has(x, "MULTI_SESSION") /\ ctx[x].ref_count > 0
       THEN Become(t, [f EXCEPT !.pc = "init_fail"]) /\ UNCHANGED <<ctx, tee_ctxes, wq>>
       ELSE /\ ctx' = [ctx EXCEPT ![x].ref_count = @ + 1]
            /\ Become(t, [f EXCEPT !.x = x, !.pc = "busy"])
            /\ UNCHANGED <<tee_ctxes, wq>>

(* s->ts_sess.ctx follows the frame's context. *)
InitSession(t) ==
    LET f == Top(t)
        l == f.key[1]
        id == NewSessionId(l)
    IN /\ At(t, "init")
       /\ IF id = 0
          THEN Return(t) /\ UNCHANGED <<open_sessions, sess, ctx, tee_ctxes, wq>>
          ELSE /\ open_sessions' = [open_sessions EXCEPT ![l] = Append(@, id)]
               /\ FindContext(t, [f EXCEPT !.key = <<l, id>>])
               /\ sess' = [sess EXCEPT ![<<l, id>>] =
                             [ctx |-> stack'[t][Len(stack'[t])].x, ref_count |-> 1,
                              lock_thread |-> t, unlink |-> FALSE]]
       /\ UNCHANGED <<locks, known, panic>>

FindAgain(t) ==
    /\ At(t, "find") /\ Awake(t)
    /\ FindContext(t, Top(t))
    /\ sess' = [sess EXCEPT ![Top(t).key].ctx = stack'[t][Len(stack'[t])].x]
    /\ UNCHANGED <<open_sessions, locks, known, panic>>

(* Mutant: waiters hear of a successful load only. *)
LoadFailsSilent(t) ==
    LET f == Top(t)
    IN /\ At(t, "load") /\ MayFail
       /\ ctx' = [ctx EXCEPT ![f.x] = NoCtx]
       /\ tee_ctxes' = Without(tee_ctxes, f.x)
       /\ sess' = [sess EXCEPT ![f.key].ctx = 0]
       /\ Become(t, [f EXCEPT !.x = 0, !.pc = "init_fail"])
       /\ UNCHANGED <<open_sessions, wq, locks, known, panic>>

(* tee_ta_complete_user_ta_session: ldelf has loaded the TA, or failed. *)
LoadDone(t) ==
    /\ At(t, "load")
    /\ ctx' = [ctx EXCEPT ![Top(t).x].is_initializing = FALSE]
    /\ wq' = Broadcast(wq, InitCv)
    /\ Goto(t, "busy")
    /\ UNCHANGED <<open_sessions, sess, tee_ctxes, locks, known, panic>>

LoadFails(t) ==
    LET f == Top(t)
    IN /\ At(t, "load") /\ MayFail
       /\ ctx' = [ctx EXCEPT ![f.x] = NoCtx]
       /\ tee_ctxes' = Without(tee_ctxes, f.x)
       /\ sess' = [sess EXCEPT ![f.key].ctx = 0]
       /\ wq' = Broadcast(wq, InitCv)
       /\ Become(t, [f EXCEPT !.x = 0, !.pc = "init_fail"])
       /\ UNCHANGED <<open_sessions, locks, known, panic>>

InitFails(t) ==
    LET k == Top(t).key
    IN /\ At(t, "init_fail")
       /\ open_sessions' = [open_sessions EXCEPT ![k[1]] = Without(@, k[2])]
       /\ sess' = [sess EXCEPT ![k] = NoSess]
       /\ Return(t)
       /\ UNCHANGED <<ctx, tee_ctxes, locks, wq, known, panic>>

----------------------------------------------------------------------------
(* Entering a TA: the busy flag and the single-instance lock.              *)

(* tee_ta_try_set_busy has succeeded: open and invoke leave a panicked TA  *)
(* alone; one whose memory is gone, or that cannot be mapped, is not       *)
(* entered and the call fails (user_ta_enter).                             *)
Fail(f) ==
    IF f.op = "close" THEN [f EXCEPT !.pc = "unlink"]
    ELSE [f EXCEPT !.pc = "clear", !.op = IF @ = "open" THEN "close" ELSE @]
Dead(f) ==
    IF f.op = "close" THEN [f EXCEPT !.pc = "unlink"]
    ELSE [f EXCEPT !.pc = "release", !.op = IF @ = "open" THEN "close" ELSE @]

Entered(t, f) ==
    IF f.op # "close" /\ ctx[f.x].panicked THEN Become(t, Dead(f))
    ELSE IF ctx[f.x].is_releasing THEN Become(t, Fail(f))
    ELSE \E g \in {[f EXCEPT !.pc = "ta"]} \cup (IF MayFail THEN {Fail(f)} ELSE {}) :
            Become(t, g)

(* Busy, and waiting would be for oneself: an open fails, the others take  *)
(* tee_ta_set_busy, which panics.                                          *)
Refused(t) ==
    LET f == Top(t)
    IN IF f.op = "open"
       THEN /\ Become(t, [f EXCEPT !.op = "close", !.pc = "close"])
            /\ UNCHANGED panic
       ELSE panic' = TRUE /\ UNCHANGED stack

(* Mutant: holding the single-instance lock is not looked at. *)
SetBusyWaits(t) ==
    LET f == Top(t)
        x == f.x
        single == Has(x, "SINGLE_INSTANCE")
    IN /\ At(t, "busy") /\ Awake(t)
       /\ IF ctx[x].busy
          THEN Wait(t, BusyCv(x)) /\ UNCHANGED <<ctx, locks, stack, panic>>
          ELSE /\ ctx' = [ctx EXCEPT ![x].busy = TRUE]
               /\ si_thread' = IF single THEN t ELSE si_thread
               /\ si_count' = IF single THEN si_count + 1 ELSE si_count
               /\ Entered(t, [f EXCEPT !.held = TRUE])
               /\ UNCHANGED <<wq, panic>>
       /\ UNCHANGED <<open_sessions, sess, tee_ctxes, known>>

SetBusy(t) ==
    LET f == Top(t)
        x == f.x
        single == Has(x, "SINGLE_INSTANCE")
    IN /\ At(t, "busy") /\ Awake(t)
       /\ IF single /\ si_thread \notin {t, NoThread}
          THEN Wait(t, SiCv) /\ UNCHANGED <<ctx, locks, stack, panic>>
          ELSE IF ctx[x].busy /\ (single \/ si_thread = t)
          THEN /\ Refused(t)
               /\ wq' = IF single /\ si_count = 0 THEN Signal(wq, SiCv) ELSE wq
               /\ UNCHANGED <<ctx, locks>>
          ELSE IF ctx[x].busy
          THEN Wait(t, BusyCv(x)) /\ UNCHANGED <<ctx, locks, stack, panic>>
          ELSE /\ ctx' = [ctx EXCEPT ![x].busy = TRUE]
               /\ si_thread' = IF single THEN t ELSE si_thread
               /\ si_count' = IF single THEN si_count + 1 ELSE si_count
               /\ Entered(t, [f EXCEPT !.held = TRUE])
               /\ UNCHANGED <<wq, panic>>
       /\ UNCHANGED <<open_sessions, sess, tee_ctxes, known>>

(* The TA calls another TA, on its own list of sessions (tee_svc.c). *)
TaCall(t) ==
    LET x == Top(t).x
    IN /\ At(t, "ta") /\ Len(stack[t]) < MaxDepth
       /\ \E f \in {Frame("open", c[2], <<x, 0>>, "init") :
                         c \in {d \in Calls : d[1] = ctx[x].ta}}
                  \cup {Frame(op, NoTa, <<x, id>>, "get") :
                         op \in {"invoke", "close"}, id \in Elements(open_sessions[x])} :
            Push(t, f)
       /\ UNCHANGED <<open_sessions, sess, ctx, tee_ctxes, locks, wq, known, panic>>

(* The TA returns with a result, or panics; either way the unwinding code  *)
(* writes ctx->panicked.                                                   *)
TaReturn(t) ==
    LET f == Top(t)
    IN /\ At(t, "ta")
       /\ \E g \in {Fail(f)} \cup
                    (IF f.op = "open" THEN {[f EXCEPT !.pc = "clear"]} ELSE {}) :
            Become(t, g)
       /\ ctx' = [ctx EXCEPT ![f.x].panicked = FALSE]
       /\ UNCHANGED <<open_sessions, sess, tee_ctxes, locks, wq, known, panic>>

TaPanic(t) ==
    LET f == Top(t)
    IN /\ At(t, "ta") /\ f.x # 0 /\ ctx[f.x].ta \in Panics
       /\ Become(t, Dead(f))
       /\ ctx' = [ctx EXCEPT ![f.x].panicked = TRUE]
       /\ UNCHANGED <<open_sessions, sess, tee_ctxes, locks, wq, known, panic>>

(* maybe_release_ta_ctx: unless crashed TAs of its kind are kept. *)
Release(t) ==
    LET x == Top(t).x
    IN /\ At(t, "release")
       /\ IF KeepCrashed(x) \/ ctx[x].is_releasing
          THEN Goto(t, "clear") /\ UNCHANGED <<ctx, tee_ctxes>>
          ELSE /\ ctx' = [ctx EXCEPT ![x].is_releasing = TRUE]
               /\ tee_ctxes' = Without(tee_ctxes, x)
               /\ Goto(t, "release_state")
       /\ UNCHANGED <<open_sessions, sess, locks, wq, known, panic>>

(* release_utc_state closes the TA's own sessions, the oldest first. *)
CloseFirst(t, x) == Push(t, Frame("close", NoTa, <<x, Head(open_sessions[x])>>, "get"))

ReleaseState(t) ==
    LET x == Top(t).x
    IN /\ At(t, "release_state")
       /\ IF open_sessions[x] = << >> THEN Goto(t, "clear") ELSE CloseFirst(t, x)
       /\ UNCHANGED <<open_sessions, sess, ctx, tee_ctxes, locks, wq, known, panic>>

(* What follows in the open, the invoke or the close. *)
AfterClear(f) ==
    IF f.op # "close" THEN "put" ELSE IF f.key[2] = 0 THEN "drop" ELSE "close"

(* tee_ta_clear_busy. *)
ClearBusy(t) ==
    LET f == Top(t)
        x == f.x
        last == Has(x, "SINGLE_INSTANCE") /\ si_count = 1
    IN /\ At(t, "clear")
       /\ ctx' = [ctx EXCEPT ![x].busy = FALSE]
       /\ si_count' = IF Has(x, "SINGLE_INSTANCE") THEN si_count - 1 ELSE si_count
       /\ si_thread' = IF last THEN NoThread ELSE si_thread
       /\ wq' = LET q == Signal(wq, BusyCv(x)) IN IF last THEN Signal(q, SiCv) ELSE q
       /\ Become(t, [f EXCEPT !.held = FALSE, !.pc = AfterClear(f)])
       /\ UNCHANGED <<open_sessions, sess, tee_ctxes, known, panic>>

----------------------------------------------------------------------------
(* close_session.                                                          *)

(* ctx->panicked is read without the mutex. *)
CloseSession(t) ==
    /\ At(t, "close")
    /\ Goto(t, IF ctx[Top(t).x].panicked THEN "unlink" ELSE "busy")
    /\ UNCHANGED <<open_sessions, sess, ctx, tee_ctxes, locks, wq, known, panic>>

(* Mutant: any context without references goes. *)
UnusedAny(x) == ctx[x].ref_count = 1

(* The last reference is going and the context is not one to keep. *)
Unused(x) ==
    /\ ctx[x].ref_count = 1
    /\ (ctx[x].panicked /\ ~KeepCrashed(x)) \/ ~KeepAlive(x)

(* Mutant: a released context is not counted down. *)
DropReleased(t) ==
    LET x == Top(t).x
    IN /\ At(t, "drop")
       /\ ctx' = [ctx EXCEPT ![x].ref_count = IF ctx[x].is_releasing THEN @ ELSE @ - 1,
                             ![x].is_releasing = @ \/ Unused(x)]
       /\ tee_ctxes' = IF Unused(x) THEN Without(tee_ctxes, x) ELSE tee_ctxes
       /\ IF Unused(x) THEN Goto(t, "destroy") ELSE Return(t)
       /\ panic' = (ctx[x].ref_count <= 0 \/ (Unused(x) /\ Waiters(wq, BusyCv(x)) # {}))
       /\ UNCHANGED <<open_sessions, sess, locks, wq, known>>

(* condvar_destroy panics if somebody waits for the context. *)
Drop(t) ==
    LET x == Top(t).x
    IN /\ At(t, "drop")
       /\ ctx' = [ctx EXCEPT ![x].ref_count = @ - 1,
                             ![x].is_releasing = @ \/ Unused(x)]
       /\ tee_ctxes' = IF Unused(x) THEN Without(tee_ctxes, x) ELSE tee_ctxes
       /\ IF Unused(x) THEN Goto(t, "destroy") ELSE Return(t)
       /\ panic' = (ctx[x].ref_count <= 0 \/ (Unused(x) /\ Waiters(wq, BusyCv(x)) # {}))
       /\ UNCHANGED <<open_sessions, sess, locks, wq, known>>

(* Mutant: the context is freed with its sessions open. *)
DestroyOnly(t) ==
    LET x == Top(t).x
    IN /\ At(t, "destroy")
       /\ ctx' = [ctx EXCEPT ![x] = NoCtx]
       /\ Return(t)
       /\ UNCHANGED <<open_sessions, sess, tee_ctxes, locks, wq, known, panic>>

(* user_ta_ctx_destroy. *)
Destroy(t) ==
    LET x == Top(t).x
    IN /\ At(t, "destroy")
       /\ IF open_sessions[x] = << >>
          THEN ctx' = [ctx EXCEPT ![x] = NoCtx] /\ Return(t)
          ELSE CloseFirst(t, x) /\ UNCHANGED ctx
       /\ UNCHANGED <<open_sessions, sess, tee_ctxes, locks, wq, known, panic>>

----------------------------------------------------------------------------
(* Calls from the normal world.  An id is given up with its close, which   *)
(* is made when the other calls on the session have looked it up: an id    *)
(* may be handed out again at once.                                        *)

Arrived(id) == \A t \in Threads : stack[t] # << >> =>
                   ~(stack[t][1].key = <<0, id>> /\ stack[t][1].pc = "get")

EntryOpenSession(t) ==
    /\ stack[t] = << >>
    /\ \E a \in Tas : Push(t, Frame("open", a, <<0, 0>>, "init"))
    /\ UNCHANGED <<open_sessions, sess, ctx, tee_ctxes, locks, wq, known, panic>>

EntryInvokeCommand(t) ==
    /\ stack[t] = << >>
    /\ \E id \in known : Push(t, Frame("invoke", NoTa, <<0, id>>, "get"))
    /\ UNCHANGED <<open_sessions, sess, ctx, tee_ctxes, locks, wq, known, panic>>

EntryCloseSession(t) ==
    /\ stack[t] = << >>
    /\ \E id \in known : /\ Arrived(id)
                         /\ Push(t, Frame("close", NoTa, <<0, id>>, "get"))
                         /\ known' = known \ {id}
    /\ UNCHANGED <<open_sessions, sess, ctx, tee_ctxes, locks, wq, panic>>

EntryCancel(t) ==
    /\ stack[t] = << >>
    /\ \E id \in known : Push(t, Frame("cancel", NoTa, <<0, id>>, "get"))
    /\ UNCHANGED <<open_sessions, sess, ctx, tee_ctxes, locks, wq, known, panic>>

Entry(t) ==
    \/ EntryOpenSession(t) \/ EntryInvokeCommand(t)
    \/ EntryCloseSession(t) \/ EntryCancel(t)

Step(t) ==
    \/ GetSession(t) \/ LockSession(t) \/ PutSession(t)
    \/ UnlinkSession(t) \/ UnlinkWoken(t)
    \/ InitSession(t) \/ FindAgain(t) \/ LoadDone(t) \/ InitFails(t)
    \/ SetBusy(t) \/ Release(t) \/ ReleaseState(t) \/ ClearBusy(t)
    \/ CloseSession(t) \/ Drop(t) \/ Destroy(t)

Next ==
    /\ ~panic
    /\ \E t \in Threads : \/ Step(t) \/ Entry(t) \/ LoadFails(t)
                         \/ TaCall(t) \/ TaReturn(t) \/ TaPanic(t)

Spec == Init /\ [][Next]_vars

----------------------------------------------------------------------------
(* Properties.                                                             *)

Pcs == {"get", "lock", "put", "unlink", "unlinking", "init", "find", "load", "init_fail",
        "busy", "ta", "release", "release_state", "clear", "close", "drop", "destroy"}

(* The types; at most one entry per thread in the wait queue, and no       *)
(* repetition in the lists (the TAILQs link an element once).              *)
TypeOK ==
    /\ \A l \in Lists : Elements(open_sessions[l]) \subseteq Ids
    /\ sess \in [Keys -> [ctx : 0 .. MaxCtx, ref_count : Nat,
                          lock_thread : Threads \cup {NoThread}, unlink : BOOLEAN]]
    /\ ctx \in [Ctxs -> [ta : Tas \cup {NoTa}, ref_count : Nat, busy : BOOLEAN,
                         is_initializing : BOOLEAN, is_releasing : BOOLEAN,
                         panicked : BOOLEAN]]
    /\ Elements(tee_ctxes) \subseteq Ctxs /\ Cardinality(Elements(tee_ctxes)) = Len(tee_ctxes)
    /\ si_thread \in Threads \cup {NoThread} /\ si_count \in Nat
    /\ \A i, j \in 1 .. Len(wq) : wq[i].thread = wq[j].thread => i = j
    /\ \A t \in Threads : \A i \in 1 .. Len(stack[t]) : stack[t][i].pc \in Pcs
    /\ known \subseteq Ids /\ panic \in BOOLEAN

Frames == UNION {{<<t, i>> : i \in 1 .. Len(stack[t])} : t \in Threads}
F(p) == stack[p[1]][p[2]]

(* A frame holds a reference to its session between the get or the init    *)
(* and the put or the unlink.                                              *)
HoldsSession(f) == f.key[2] # 0 /\ f.pc # "get"

(* Nobody uses freed memory: the session and the context a call works on,  *)
(* the context whose list the session is on, and the context of every      *)
(* session on a list are all there (tee_ta_unlink_session waits for other  *)
(* references, close_session destroys a context only with the last).       *)
NoUseAfterFree ==
    /\ \A p \in Frames :
          /\ HoldsSession(F(p)) => Exists(F(p).key)
          /\ F(p).x # 0 => ctx[F(p).x].ta # NoTa
          /\ F(p).key[1] # 0 => ctx[F(p).key[1]].ta # NoTa
    /\ \A k \in Keys : Exists(k) /\ sess[k].ctx # 0 => ctx[sess[k].ctx].ta # NoTa

(* A reference for every call on the session, no more: an idle session has *)
(* none and is unlocked, so that it can be used and closed.                *)
SessionRefsExact ==
    \A k \in Keys :
        LET users == {p \in Frames : F(p).key = k /\ HoldsSession(F(p))}
        IN /\ sess[k].ref_count = Cardinality(users)
           /\ sess[k].lock_thread # NoThread =>
                 \E p \in users : p[1] = sess[k].lock_thread

(* A reference for every session of a context, counted down with the       *)
(* session that goes; a context without any is one that is kept alive.     *)
CtxRefsExact ==
    \A x \in Ctxs :
        /\ ctx[x].ref_count =
              Cardinality({k \in Keys : Exists(k) /\ sess[k].ctx = x})
              + Cardinality({p \in Frames : F(p).x = x /\ F(p).key[2] = 0
                                           /\ F(p).pc \in {"clear", "drop"}})
        /\ ctx[x].ta # NoTa /\ ctx[x].ref_count = 0 =>
              KeepAlive(x) \/ \E p \in Frames : F(p).x = x /\ F(p).pc = "destroy"

(* A single-instance TA has one instance: of its contexts all but one are  *)
(* on their way out (tee_ta_init_session_with_context waits for one that   *)
(* is being initialized).                                                  *)
OneInstance ==
    \A x, y \in Ctxs :
        /\ x # y /\ ctx[x].ta = ctx[y].ta /\ ctx[x].ta # NoTa
        /\ "SINGLE_INSTANCE" \in Flags[ctx[x].ta]
        => ctx[x].is_releasing \/ ctx[y].is_releasing

(* A context runs one call at a time, and all single-instance TAs together *)
(* run on one thread (the single-instance lock), counted right.            *)
Exclusive ==
    /\ \A x \in Ctxs :
          Cardinality({p \in Frames : F(p).x = x /\ F(p).held}) = IF ctx[x].busy THEN 1 ELSE 0
    /\ LET single == {p \in Frames : F(p).held /\ Has(F(p).x, "SINGLE_INSTANCE")}
       IN /\ \A p \in single : p[1] = si_thread
          /\ si_count = Cardinality(single)
          /\ si_thread = NoThread <=> si_count = 0

(* A context that is gone owns no session: they were closed when it was    *)
(* released or destroyed (release_utc_state).                              *)
GoneOwnsNothing ==
    \A x \in Ctxs : ctx[x].ta = NoTa => open_sessions[x] = << >>

(* The core does not panic: no busy flag a thread would wait for itself,   *)
(* no reference count below zero, no condition variable destroyed under a  *)
(* waiter.                                                                 *)
NoPanic == ~panic

(* What it rests on: no single-instance TA reaches itself through the TAs  *)
(* it calls.  One that does is entered while it is busy with that call.    *)
NoReentry ==
    \E reach \in SUBSET (Tas \X Tas) :
        /\ Calls \subseteq reach
        /\ \A a, b, c \in Tas : <<a, b>> \in reach /\ <<b, c>> \in reach => <<a, c>> \in reach
        /\ \A a \in Tas : "SINGLE_INSTANCE" \in Flags[a] => <<a, a>> \notin reach

(* A keep-alive instance goes only after it panicked, a keep-crashed one   *)
(* never (close_session, maybe_release_ta_ctx), unless it never loaded.    *)
KeptAlive ==
    [][\A x \in Ctxs :
         ctx[x].ta # NoTa /\ KeepAlive(x) /\ ctx'[x].ta = NoTa =>
             \/ ctx[x].is_initializing
             \/ ctx[x].panicked /\ ~KeepCrashed(x)]_vars

(* The threads a sleeper waits for: who holds what it wants, or, if it is  *)
(* free, who has been woken to take it.                                    *)
Asleep == {wq[i].thread : i \in 1 .. Len(wq)}
CvOf(t) == (CHOOSE e \in Elements(wq) : e.thread = t).cv
Takes(u, pc) == u \notin Asleep /\ At(u, pc)
WaitsFor(t) ==
    LET cv == CvOf(t)
        k == <<cv[2], cv[3]>>
        Holds(u) ==
            CASE cv[1] = "single_instance" ->
                   si_thread = u \/ (si_thread = NoThread /\ Takes(u, "busy"))
              [] cv[1] = "busy" ->
                   \/ \E i \in 1 .. Len(stack[u]) : stack[u][i].x = cv[2] /\ stack[u][i].held
                   \/ ~ctx[cv[2]].busy /\ Takes(u, "busy") /\ Top(u).x = cv[2]
              [] cv[1] = "lock" ->
                   \/ sess[k].lock_thread = u
                   \/ sess[k].lock_thread = NoThread /\ Takes(u, "lock") /\ Top(u).key = k
              [] cv[1] = "refc" ->
                   \E i \in 1 .. Len(stack[u]) : HoldsSession(stack[u][i]) /\ stack[u][i].key = k
              [] cv[1] = "init" ->
                   \E i \in 1 .. Len(stack[u]) :
                       stack[u][i].pc = "load" /\ stack[u][i].ta = Top(t).ta
    IN {u \in Threads \ {t} : Holds(u)}

(* No wakeup is lost and nobody waits for itself through others: among any *)
(* threads asleep on condition variables, one waits for a thread outside.  *)
WaitsEnd ==
    \A S \in SUBSET Asleep : S # {} => \E t \in S : ~(WaitsFor(t) \subseteq S)
============================================================================
