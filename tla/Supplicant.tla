----------------------------- MODULE Supplicant -----------------------------
(***************************************************************************)
(* The threads of tee-supplicant (tee_supplicant.c).  Every thread runs a  *)
(* loop that receives a request of the secure world, serves it and answers *)
(* it.  Serving one request may take for ever, or until another request is *)
(* served, so a thread that takes the last place in front of the driver    *)
(* starts a new thread before it serves what it got.                       *)
(***************************************************************************)
EXTENDS Naturals, Sequences, FiniteSets, SequencesExt

CONSTANTS
  Threads,  \* bound: threads the process can have
  Main,     \* the thread main() runs on
  Requests, \* requests the secure world can have waiting or served at once
  Nothing   \* no request

VARIABLES
  pending,    \* the requests in the driver's queue
  pc,         \* where each thread is
  req,        \* the request each thread serves
  numWaiters, \* thread_arg.num_waiters
  abort       \* thread_arg.abort

vars == <<pending, pc, req, numWaiters, abort>>

ASSUME SupplicantAssumption ==
  Main \in Threads /\ IsFiniteSet(Threads) /\ Nothing \notin Requests

PCs == {"none", "start", "loop", "read", "got", "spawn", "create", "serve",
        "failed", "ended"}

(* Types of the queue, the threads and the shared counter.                  *)
TypeOK ==
  /\ pending \in Seq(Requests)
  /\ pc \in [Threads -> PCs]
  /\ req \in [Threads -> Requests \cup {Nothing}]
  /\ numWaiters \in Nat
  /\ abort \in BOOLEAN

Init ==
  /\ pending = <<>>
  /\ pc = [t \in Threads |-> IF t = Main THEN "loop" ELSE "none"]
  /\ req = [t \in Threads |-> Nothing]
  /\ numWaiters = 0
  /\ abort = FALSE

Goto(t, to) == pc' = [pc EXCEPT ![t] = to]

(* A core thread asks for something; the driver queues it.                  *)
Request(r) ==
  /\ r \notin ToSet(pending)
  /\ \A t \in Threads : req[t] # r
  /\ pending' = Append(pending, r)
  /\ UNCHANGED <<pc, req, numWaiters, abort>>

(* thread_main takes back what spawn_thread counted for it.                 *)
Start(t) ==
  /\ pc[t] = "start"
  /\ numWaiters' = numWaiters - 1
  /\ Goto(t, "loop")
  /\ UNCHANGED <<pending, req, abort>>

(* The loop of thread_main, and num_waiters_inc of process_one_request.     *)
Loop(t) ==
  /\ pc[t] = "loop"
  /\ ~abort
  /\ numWaiters' = numWaiters + 1
  /\ Goto(t, "read")
  /\ UNCHANGED <<pending, req, abort>>

(* The loop ends; the process ends with the loop of main().                 *)
End(t) ==
  /\ pc[t] = "loop"
  /\ abort
  /\ pc' = [u \in Threads |-> IF u = t \/ t = Main THEN "ended" ELSE pc[u]]
  /\ UNCHANGED <<pending, req, numWaiters, abort>>

(* read_request: the driver hands out the oldest request.                   *)
Receive(t) ==
  /\ pc[t] = "read"
  /\ pending # <<>>
  /\ req' = [req EXCEPT ![t] = Head(pending)]
  /\ pending' = Tail(pending)
  /\ Goto(t, "got")
  /\ UNCHANGED <<numWaiters, abort>>

\* mutant: the thread that leaves one behind counts itself as the last
CountDownEarly(t) ==
  /\ pc[t] = "got"
  /\ numWaiters' = numWaiters - 1
  /\ Goto(t, IF numWaiters = 2 THEN "spawn" ELSE "serve")
  /\ UNCHANGED <<pending, req, abort>>

(* num_waiters_dec; a driver that can have several requests served at once  *)
(* sends a meta parameter with each.                                        *)
CountDown(t) ==
  /\ pc[t] = "got"
  /\ numWaiters' = numWaiters - 1
  /\ Goto(t, IF numWaiters = 1 THEN "spawn" ELSE "serve")
  /\ UNCHANGED <<pending, req, abort>>

\* mutant: the new thread is not counted before it runs
SpawnUncounted(t) ==
  /\ pc[t] = "spawn"
  /\ Goto(t, "create")
  /\ UNCHANGED <<pending, req, numWaiters, abort>>

(* spawn_thread counts the thread it is about to create.                    *)
Spawn(t) ==
  /\ pc[t] = "spawn"
  /\ numWaiters' = numWaiters + 1
  /\ Goto(t, "create")
  /\ UNCHANGED <<pending, req, abort>>

Create(t) ==
  /\ pc[t] = "create"
  /\ \E u \in Threads : pc[u] = "none"
  /\ LET new == CHOOSE u \in Threads : pc[u] = "none"
     IN  pc' = [pc EXCEPT ![t] = "serve", ![new] = "start"]
  /\ UNCHANGED <<pending, req, numWaiters, abort>>

CreateFails(t) ==
  /\ pc[t] = "create"
  /\ numWaiters' = numWaiters - 1
  /\ Goto(t, "failed")
  /\ UNCHANGED <<pending, req, abort>>

(* The request is served, in its own time, and answered.                    *)
Answer(t) ==
  /\ pc[t] = "serve"
  /\ req' = [req EXCEPT ![t] = Nothing]
  /\ Goto(t, "loop")
  /\ UNCHANGED <<pending, numWaiters, abort>>

(* An ioctl fails, or the request is malformed: process_one_request returns *)
(* false where it is, and thread_main stops the process's loops.            *)
Fails(t) ==
  /\ pc[t] \in {"read", "got", "serve"}
  /\ Goto(t, "failed")
  /\ UNCHANGED <<pending, req, numWaiters, abort>>

Abort(t) ==
  /\ pc[t] = "failed"
  /\ abort' = TRUE
  /\ req' = [req EXCEPT ![t] = Nothing]
  /\ Goto(t, "loop")
  /\ UNCHANGED <<pending, numWaiters>>

Next ==
  \/ \E r \in Requests : Request(r)
  \/ \E t \in Threads :
       \/ Start(t) \/ Loop(t) \/ End(t) \/ Receive(t) \/ CountDown(t)
       \/ Spawn(t) \/ Create(t) \/ CreateFails(t) \/ Answer(t) \/ Fails(t) \/ Abort(t)

(* Every thread runs; nothing is assumed of the time a request takes.       *)
Spec ==
  /\ Init /\ [][Next]_vars
  /\ \A t \in Threads :
       WF_vars(Start(t) \/ Loop(t) \/ Receive(t) \/ CountDown(t) \/ Spawn(t)
               \/ Create(t) \/ Abort(t))

(***************************************************************************)
(* Properties                                                              *)
(***************************************************************************)
(* The threads that are in front of the driver, or counted on the way there *)
Waiters == {t \in Threads : pc[t] \in {"start", "read", "got", "create"}}

(* num_waiters is the number of those threads as long as nothing failed,    *)
(* and never less, so that no decrement meets zero: the assertion of        *)
(* num_waiters_dec.                                                         *)
WaitersExact ==
  /\ numWaiters >= Cardinality(Waiters)
  /\ ~abort /\ (\A t \in Threads : pc[t] # "failed") =>
       numWaiters = Cardinality(Waiters)

(* A request that waits in the driver is received, even when every request  *)
(* before it is served for ever, unless the process gives up: the loops     *)
(* never run dry (spawn_thread).                                            *)
RequestsReceived ==
  \A r \in Requests : r \in ToSet(pending) ~> (r \notin ToSet(pending) \/ abort)
=============================================================================
