------------------------------ MODULE MCSwLog ------------------------------
(* Instances of SwLog: which contexts trace in each run. *)
EXTENDS SwLog
TwoCores == {<<"core0", "thread">>, <<"core1", "thread">>, <<"core1", "irq">>}
OneWriter == {<<"core0", "thread">>}
=============================================================================
