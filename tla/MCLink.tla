------------------------------- MODULE MCLink -------------------------------
(* A small instance of Link for TLC.                                       *)
EXTENDS Link

CONSTANTS a, b, p1, k1
=============================================================================
