---------------------------- MODULE AtomicFile ----------------------------
(***************************************************************************)
(* What a file of the secure storage promises to the layer above: a saved  *)
(* content that changes only when the working content is committed, as a   *)
(* whole, and a working content that reads back what was written.  Losing  *)
(* the working content (power loss, a failed request, a close) leaves the  *)
(* saved one as it was.  A content is a function from 0 .. length-1.       *)
(***************************************************************************)
EXTENDS Integers

CONSTANTS None,      \* there is no such file / the file is not open
          Values     \* what may be written

VARIABLES saved, work

\* One value is written to a range of units; the file grows when the range
\* reaches past its end, unless the write stops early.
Write(old, new) ==
    LET changed == {u \in DOMAIN new : u \in DOMAIN old => new[u] # old[u]}
    IN  /\ DOMAIN old \subseteq DOMAIN new
        /\ \E w \in Values : \A u \in DOMAIN new :
              (\E a, b \in changed : a <= u /\ u <= b) => new[u] = w

Shrink(old, new) ==
    /\ DOMAIN new \subseteq DOMAIN old
    /\ \A u \in DOMAIN new : new[u] = old[u]

Init == saved = None /\ work = None

\* A file that does not exist yet is started empty; it is not saved so far.
Create == saved = None /\ work = None /\ work' = [u \in {} |-> 0]

Open == work = None /\ saved # None /\ work' = saved

Change ==
    /\ work # None /\ work' # None
    /\ \E old \in {work}, new \in {work'} : Write(old, new) \/ Shrink(old, new)

Lose == work' = None

Commit == work # None /\ work' = work /\ saved' = work

Next ==
    \/ saved' = saved /\ (Change \/ Lose \/ Create \/ Open)
    \/ Commit

Spec == Init /\ [][Next]_<<saved, work>>
===========================================================================
