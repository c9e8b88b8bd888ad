----------------------------- MODULE MCTimeSync -----------------------------
(* TimeSync with two servers and bursts of two messages.                   *)
EXTENDS TimeSync

CONSTANTS a, b
=============================================================================
