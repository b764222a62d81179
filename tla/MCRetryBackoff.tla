--------------------------- MODULE MCRetryBackoff ---------------------------
(***************************************************************************)
(* Instances of RetryBackoff for TLC: a Duration of 9 bits and a sign.     *)
(***************************************************************************)
EXTENDS RetryBackoff

SomeDelays == {0, 1, 2, 3, 7, 30, 511}
OnlyDefaults == {0}
NineBits == 511
=============================================================================
