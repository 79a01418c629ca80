------------------------------- MODULE SwLog -------------------------------
(***************************************************************************)
(* The secure-world log ring of the Raspberry Pi 5 port: trace_ext.c       *)
(* serialises whole lines, sw_log.c stores them byte by byte into a ring   *)
(* in normal-world RAM, and tools/optee-sw-log.c drains that ring from     *)
(* Linux without taking any lock.                                          *)
(*                                                                         *)
(* A byte is identified by its number in the order in which sw_log_putc    *)
(* commits to a slot (1, 2, ...); 0 stands for whatever the ring held      *)
(* before.  A context is a core together with the mode it traces in.       *)
(***************************************************************************)
EXTENDS Integers, FiniteSets

CONSTANTS
    Contexts,        \* set of <<core, mode>>, mode in {"thread", "irq"}
    DataSize,        \* sw_log_size - RPI5_SW_LOG_HDR_SIZE
    LineLen,         \* characters of one traced line
    MaxBytes,        \* bound: characters traced in a behaviour
    Builds,          \* values of CFG_CONSOLE_MASK_INTERRUPTS to consider
    StoresInOrder,   \* whether the reader sees the stores in program order
    RetainedPos      \* write_pos values a warm reboot may have left behind

ASSUME SwLogAssumption ==
    /\ IsFiniteSet(Contexts) /\ \A c \in Contexts : c[2] \in {"thread", "irq"}
    /\ DataSize \in Nat \ {0} /\ LineLen \in Nat \ {0} /\ MaxBytes \in Nat
    /\ Builds \subseteq BOOLEAN /\ StoresInOrder \in BOOLEAN
    /\ RetainedPos \subseteq 0 .. DataSize - 1 /\ RetainedPos # {}

NoCtx == <<"nobody", "none">>
Slots == 0 .. DataSize - 1
Mode(c) == c[2]

VARIABLES
    mask_interrupts,                 \* CFG_CONSOLE_MASK_INTERRUPTS
    data, write_pos, generation,     \* the ring, shared with Linux
    sw_log_lock,                     \* holder of the per-byte spinlock
    puts_lock,                       \* holder of the per-line spinlock
    trace_busy,                      \* thread_trace_busy and itr_trace_busy
    pc, left, pos, gen, pending,     \* each context inside trace_ext_puts
    rpc, read_pos, read_gen, wp, rg, \* the reader
    total,                           \* history: bytes committed to slots
    last                             \* history: last byte the reader emitted

ring == <<data, write_pos, generation>>
locks == <<sw_log_lock, puts_lock, trace_busy>>
writers == <<pc, left, pos, gen, pending>>
reader == <<rpc, read_pos, read_gen, wp, rg, last>>
vars == <<mask_interrupts, ring, locks, writers, reader, total>>

Init ==
    \* rpi5_sw_log_init: a ring whose magic survived keeps its position
    /\ data = [s \in Slots |-> 0]
    /\ write_pos \in RetainedPos /\ generation = 0
    /\ sw_log_lock = NoCtx /\ puts_lock = NoCtx
    /\ trace_busy = [m \in {"thread", "irq"} |-> FALSE]
    /\ pc = [c \in Contexts |-> "idle"]
    /\ left = [c \in Contexts |-> 0]
    /\ pos = [c \in Contexts |-> 0] /\ gen = [c \in Contexts |-> 0]
    /\ pending = [c \in Contexts |-> {}]
    /\ rpc = "map_pos" /\ read_pos = 0 /\ read_gen = 0 /\ wp = 0 /\ rg = 0
    /\ total = 0 /\ last = 0
    /\ mask_interrupts \in Builds

(* An interrupt taken on a core stops the thread context of that core. *)
Preempted(c) ==
    \E d \in Contexts : d[1] = c[1] /\ Mode(c) = "thread" /\ Mode(d) = "irq"
                        /\ pc[d] # "idle"

(* Whether context c can run: an interrupt context can only start when the *)
(* thread it would interrupt has not masked exceptions.                    *)
Runs(c) == ~Preempted(c)
CanArrive(c) ==
    mask_interrupts =>
      \A d \in Contexts : d # c /\ d[1] = c[1] => pc[d] = "idle"

(* A line needs LineLen bytes of the bound MaxBytes. *)
Budget == total + LineLen + Cardinality({c \in Contexts : pc[c] # "idle"}) * LineLen
            <= MaxBytes

(* trace_ext_puts up to plat_trace_ext_puts: wait_if_trace_contended. *)
TraceBegin(c) ==
    /\ pc[c] = "idle" /\ Runs(c) /\ CanArrive(c) /\ Budget
    /\ pc' = [pc EXCEPT ![c] = "contend"]
    /\ left' = [left EXCEPT ![c] = LineLen]
    /\ UNCHANGED <<mask_interrupts, ring, locks, pos, gen, pending, reader, total>>

(* Mutant: neither puts_lock nor the busy flag is waited for. *)
TraceAcquireNoWait(c) ==
    /\ pc[c] = "contend" /\ Runs(c)
    /\ pc' = [pc EXCEPT ![c] = "puts"]
    /\ UNCHANGED <<mask_interrupts, ring, locks, left, pos, gen, pending, reader, total>>

TraceAcquire(c) ==
    /\ pc[c] = "contend" /\ Runs(c)
    /\ IF mask_interrupts
       THEN /\ puts_lock = NoCtx
            /\ puts_lock' = c
            /\ pc' = [pc EXCEPT ![c] = "puts"]
            /\ UNCHANGED trace_busy
       ELSE /\ ~trace_busy[Mode(c)]
            /\ trace_busy' = [trace_busy EXCEPT ![Mode(c)] = TRUE]
            /\ pc' = [pc EXCEPT ![c] =
                        IF Mode(c) = "thread" THEN "defer" ELSE "puts"]
            /\ UNCHANGED puts_lock
    /\ UNCHANGED <<mask_interrupts, ring, sw_log_lock, left, pos, gen, pending, reader, total>>

(* A thread does not start inside an interrupt trace. *)
TraceDefer(c) ==
    /\ pc[c] = "defer" /\ Runs(c) /\ ~trace_busy["irq"]
    /\ pc' = [pc EXCEPT ![c] = "puts"]
    /\ UNCHANGED <<mask_interrupts, ring, locks, left, pos, gen, pending, reader, total>>

(* Mutant: the generation is counted a byte late. *)
WrapGenKept(p, g) == IF p > DataSize THEN g + 1 ELSE g

Wrap(p) == IF p >= DataSize THEN 0 ELSE p
WrapGen(p, g) == IF p >= DataSize THEN g + 1 ELSE g

(* sw_log_putc: take the lock, read the header and compute what to store. *)
PutcLock(c) ==
    /\ pc[c] = "puts" /\ left[c] > 0 /\ Runs(c)
    /\ sw_log_lock = NoCtx
    /\ sw_log_lock' = c
    /\ pos' = [pos EXCEPT ![c] = Wrap(write_pos)]
    /\ gen' = [gen EXCEPT ![c] = WrapGen(write_pos, generation)]
    /\ pending' = [pending EXCEPT ![c] = {"data", "generation", "write_pos"}]
    /\ pc' = [pc EXCEPT ![c] = "store"]
    /\ total' = total + 1
    /\ UNCHANGED <<mask_interrupts, ring, puts_lock, trace_busy, left, reader>>

Before(s) == CASE s = "data" -> {}
               [] s = "generation" -> {"data"}
               [] s = "write_pos" -> {"data", "generation"}

(* One of the three stores of sw_log_putc becomes visible.  They are plain *)
(* volatile stores: the architecture keeps no order between them.          *)
PutcStore(c, s) ==
    /\ pc[c] = "store" /\ Runs(c) /\ s \in pending[c]
    /\ StoresInOrder => Before(s) \cap pending[c] = {}
    /\ pending' = [pending EXCEPT ![c] = @ \ {s}]
    /\ data' = IF s = "data" THEN [data EXCEPT ![pos[c]] = total] ELSE data
    /\ generation' = IF s = "generation" THEN WrapGen(pos[c] + 1, gen[c])
                                         ELSE generation
    /\ write_pos' = IF s = "write_pos" THEN Wrap(pos[c] + 1) ELSE write_pos
    /\ UNCHANGED <<mask_interrupts, locks, pc, left, pos, gen, reader, total>>

(* cpu_spin_unlock: a store-release, so all three stores are visible. *)
PutcUnlock(c) ==
    /\ pc[c] = "store" /\ Runs(c) /\ pending[c] = {}
    /\ sw_log_lock' = NoCtx
    /\ left' = [left EXCEPT ![c] = @ - 1]
    /\ pc' = [pc EXCEPT ![c] = "puts"]
    /\ UNCHANGED <<mask_interrupts, ring, puts_lock, trace_busy, pos, gen, pending, reader, total>>

(* Mutant: the line ends with the serialisation still held. *)
TraceReleaseNone(c) ==
    /\ pc[c] = "puts" /\ left[c] = 0 /\ Runs(c)
    /\ pc' = [pc EXCEPT ![c] = "idle"]
    /\ UNCHANGED <<mask_interrupts, ring, locks, left, pos, gen, pending, reader, total>>

(* release_trace_contention *)
TraceRelease(c) ==
    /\ pc[c] = "puts" /\ left[c] = 0 /\ Runs(c)
    /\ pc' = [pc EXCEPT ![c] = "idle"]
    /\ puts_lock' = IF mask_interrupts THEN NoCtx ELSE puts_lock
    /\ trace_busy' = IF mask_interrupts THEN trace_busy
                     ELSE [trace_busy EXCEPT ![Mode(c)] = FALSE]
    /\ UNCHANGED <<mask_interrupts, ring, sw_log_lock, left, pos, gen, pending, reader, total>>

(* The bytes write_pos accounts for: a byte being stored may not be one. *)
Visible == total - Cardinality({c \in Contexts : "write_pos" \in pending[c]})

(* map_log: where the reader starts, read in two loads. *)
MapPos ==
    /\ rpc = "map_pos"
    /\ read_pos' = write_pos
    /\ last' = Visible
    /\ rpc' = "map_gen"
    /\ UNCHANGED <<mask_interrupts, ring, locks, writers, read_gen, wp, rg, total>>

MapGen ==
    /\ rpc = "map_gen"
    /\ read_gen' = generation
    /\ rpc' = "top"
    /\ UNCHANGED <<mask_interrupts, ring, locks, writers, read_pos, wp, rg, last, total>>

(* drain_new: the two loads of the header, the comparison, the emission.   *)
(* The break and the usleep of the follow loop lead back to the first load.*)
DrainPos ==
    /\ rpc = "top"
    /\ wp' = write_pos
    /\ rpc' = "gen"
    /\ UNCHANGED <<mask_interrupts, ring, locks, writers, read_pos, read_gen, rg, last, total>>

DrainGen ==
    /\ rpc = "gen"
    /\ rg' = generation
    /\ rpc' = IF read_pos = wp /\ read_gen = generation THEN "top" ELSE "emit"
    /\ UNCHANGED <<mask_interrupts, ring, locks, writers, read_pos, read_gen, wp, last, total>>

(* Mutant: the reader wraps without adopting the ring's generation. *)
DrainEmitKeepsGen ==
    /\ rpc = "emit"
    /\ last' = data[read_pos]
    /\ read_pos' = Wrap(read_pos + 1)
    /\ rpc' = "top"
    /\ UNCHANGED <<mask_interrupts, ring, locks, writers, read_gen, wp, rg, total>>

DrainEmit ==
    /\ rpc = "emit"
    /\ last' = data[read_pos]
    /\ read_pos' = Wrap(read_pos + 1)
    /\ read_gen' = IF read_pos + 1 >= DataSize THEN rg ELSE read_gen
    /\ rpc' = "top"
    /\ UNCHANGED <<mask_interrupts, ring, locks, writers, wp, rg, total>>

(* What a context does once it has a line to trace. *)
Finish(c) ==
    \/ TraceAcquire(c) \/ TraceDefer(c)
    \/ PutcLock(c) \/ PutcUnlock(c) \/ TraceRelease(c)
    \/ \E s \in {"data", "generation", "write_pos"} : PutcStore(c, s)

Reader == MapPos \/ MapGen \/ DrainPos \/ DrainGen \/ DrainEmit

Next == Reader \/ \E c \in Contexts : TraceBegin(c) \/ Finish(c)

(* Linux schedules the reader and every core runs; no core has to trace. *)
Spec == Init /\ [][Next]_vars /\ WF_vars(Reader)
             /\ \A c \in Contexts : WF_vars(Finish(c))

----------------------------------------------------------------------------
(* Types of the ring, of the locks and of every context. *)
TypeOK ==
    /\ mask_interrupts \in Builds
    /\ data \in [Slots -> Nat] /\ write_pos \in Slots
    /\ generation \in Nat /\ total \in Nat
    /\ sw_log_lock \in Contexts \cup {NoCtx} /\ puts_lock \in Contexts \cup {NoCtx}
    /\ trace_busy \in [{"thread", "irq"} -> BOOLEAN]
    /\ pc \in [Contexts -> {"idle", "contend", "defer", "puts", "store"}]
    /\ left \in [Contexts -> 0 .. LineLen]
    /\ pos \in [Contexts -> Slots] /\ gen \in [Contexts -> Nat]
    /\ pending \in [Contexts -> SUBSET {"data", "generation", "write_pos"}]
    /\ rpc \in {"map_pos", "map_gen", "top", "gen", "emit"}
    /\ read_pos \in Slots /\ read_gen \in Nat /\ wp \in Slots /\ rg \in Nat
    /\ last \in Nat

(* Whenever no byte is being stored, the slots before write_pos hold the   *)
(* most recent bytes in the order they were traced, and position and       *)
(* generation together count every byte: no core's byte is lost or         *)
(* overwrites another's (the spinlock and the wraps of sw_log_putc).       *)
TailIntact ==
    sw_log_lock = NoCtx =>
      /\ \A k \in 0 .. DataSize - 1 :
            k < total => data[(write_pos - 1 - k) % DataSize] = total - k
      /\ generation * DataSize + write_pos - total \in RetainedPos

(* Two lines never mix in the ring when interrupts are masked; otherwise   *)
(* only a thread's line and an interrupt's line may ("Don't mix thread     *)
(* traces, don't mix interrupt traces").                                   *)
LinesNotMixed ==
    \A c, d \in Contexts :
        c # d /\ {pc[c], pc[d]} \subseteq {"puts", "store"}
          => ~mask_interrupts /\ Mode(c) # Mode(d)

(* In the default build, which masks interrupts while a line is traced,    *)
(* every line that starts is traced to its end: no context spins forever   *)
(* on puts_lock, the busy flags or sw_log_lock.                            *)
MaskedLineEnds ==
    mask_interrupts => \A c \in Contexts : pc[c] = "contend" ~> pc[c] = "idle"

(* Once tracing stops, drain_new comes to rest at the end of the ring,     *)
(* whatever torn or lapped headers it sampled before.                      *)
ReaderComesToRest ==
    <>[](\A c \in Contexts : pc[c] = "idle")
      => <>[](read_pos = write_pos /\ read_gen = generation)

(* The follow mode streams new bytes: unless the writers have lapped the   *)
(* reader, the byte it emits is newer than the one it emitted before.      *)
EmitsNewBytes ==
    [][rpc = "emit" /\ rpc' = "top" /\ total - last < DataSize
         => last' > last]_vars

=============================================================================
