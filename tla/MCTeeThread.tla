---------------------------- MODULE MCTeeThread ----------------------------
(* Bounds and symmetry for TLC: cores and buffers are interchangeable. *)
EXTENDS TeeThread, TLC
Symmetry == Permutations(Cores) \cup Permutations(Cookies)
=============================================================================
