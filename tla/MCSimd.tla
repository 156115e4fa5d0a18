------------------------------- MODULE MCSimd -------------------------------
EXTENDS DspLaws
(* The extreme signed and unsigned bytes, one and zero.                     *)
MCValues == {0, 1, 7, 8, 15}
=============================================================================
