---------------------------- MODULE MCSupplicant ----------------------------
EXTENDS Supplicant, TLC
=============================================================================
