----------------------------- MODULE MCRwMutex -----------------------------
(* The instance of RwMutex; the values are in the configuration. *)
EXTENDS RwMutex
=============================================================================
