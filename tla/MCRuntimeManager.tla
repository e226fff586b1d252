--------------------------- MODULE MCRuntimeManager ---------------------------
(* Small instances of RuntimeManager for TLC.                              *)
EXTENDS RuntimeManager, TLC

CONSTANTS p1, p2, s1, s2, l1, r1, r2

\* Profiles, sessions and requests are each interchangeable.
SharingSymmetry ==
  Permutations(Requests) \cup Permutations(Profiles) \cup Permutations(Sessions)
=============================================================================
