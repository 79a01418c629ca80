---------------------------- MODULE ObjectStore ----------------------------
(***************************************************************************)
(* What the secure storage of a trusted application promises: a map from   *)
(* object names to contents.  An object is put under a name, taken away or *)
(* moved to a free name, each in one step that touches nothing else.       *)
(***************************************************************************)
CONSTANTS Names,    \* object identifiers of one trusted application
          Contents, \* what an object can hold
          None      \* there is no object of that name

VARIABLE store

Init == store = [n \in Names |-> None]

(* An object is created, replaced or written.                               *)
Put(old, new, n) == /\ new[n] # old[n] /\ new[n] \in Contents
                    /\ new = [old EXCEPT ![n] = new[n]]

Delete(old, new, n) == /\ old[n] # None /\ new[n] = None
                       /\ new = [old EXCEPT ![n] = None]

Move(old, new, n, m) == /\ old[n] # None /\ new[n] = None /\ old[m] = None
                        /\ new = [old EXCEPT ![n] = None, ![m] = old[n]]

Next ==
  \E old \in {store}, new \in {store'}, n \in Names :
    \/ Put(old, new, n) \/ Delete(old, new, n)
    \/ \E m \in Names : Move(old, new, n, m)

Spec == Init /\ [][Next]_store
=============================================================================
