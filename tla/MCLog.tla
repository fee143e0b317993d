-------------------------------- MODULE MCLog --------------------------------
(* Constants of the log for TLC: a month has two days. *)
EXTENDS Log

TwoDayMonths == [d \in Days |-> ((d - 1) % 2) + 1]
=============================================================================
