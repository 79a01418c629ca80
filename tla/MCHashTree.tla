---------------------------- MODULE MCHashTree ----------------------------
(* Small instances of HashTree for TLC. *)
EXTENDS HashTree
===========================================================================
