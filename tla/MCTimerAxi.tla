----------------------------- MODULE MCTimerAxi -----------------------------
(***************************************************************************)
(* Instances of TimerAxi for TLC: registers modulo 3 instead of 2^32,       *)
(* so that every counter wraps and every value can be written.             *)
(***************************************************************************)
EXTENDS TimerAxi

AllValues == 0 .. Modulus - 1

=============================================================================
