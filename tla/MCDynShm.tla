------------------------------ MODULE MCDynShm ------------------------------
EXTENDS DynShm, TLC
=============================================================================
