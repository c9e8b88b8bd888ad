----------------------------- MODULE MCSpscRing -----------------------------
(* SpscRing with two producers on a small array.                           *)
EXTENDS SpscRing

CONSTANTS p1, p2
=============================================================================
