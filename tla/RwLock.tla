------------------------------- MODULE RwLock -------------------------------
(* What mutex.c promises its callers: one writer, or any number of readers.  *)
EXTENDS FiniteSets

CONSTANT Threads

VARIABLES writers, readers

vars == <<writers, readers>>

Init == writers = {} /\ readers = {}

AcquireWrite(t) ==
    /\ writers = {} /\ readers = {}
    /\ writers' = {t} /\ UNCHANGED readers

AcquireRead(t) ==
    /\ writers = {} /\ t \notin readers
    /\ readers' = readers \cup {t} /\ UNCHANGED writers

ReleaseWrite(t) ==
    /\ t \in writers
    /\ writers' = writers \ {t} /\ UNCHANGED readers

ReleaseRead(t) ==
    /\ t \in readers
    /\ readers' = readers \ {t} /\ UNCHANGED writers

Next == \E t \in Threads :
    AcquireWrite(t) \/ AcquireRead(t) \/ ReleaseWrite(t) \/ ReleaseRead(t)

Spec == Init /\ [][Next]_vars
=============================================================================
