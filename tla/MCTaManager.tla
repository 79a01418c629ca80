---------------------------- MODULE MCTaManager ----------------------------
(* Instances of TaManager for TLC. *)
EXTENDS TaManager, TLC

CONSTANTS A, B

SingleMulti == {"SINGLE_INSTANCE", "MULTI_SESSION"}
FlagsNested == A :> SingleMulti \cup {"KEEP_ALIVE"} @@ B :> {}

CallsNested == {<<A, B>>}

(* The hypothesis under which the core is proved not to panic. *)
ASSUME CallsAssumption == NoReentry

Symmetric == Permutations(Threads)
============================================================================
