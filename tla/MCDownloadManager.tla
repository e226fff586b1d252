-------------------------- MODULE MCDownloadManager --------------------------
(* Small instances of DownloadManager for TLC.                             *)
EXTENDS DownloadManager, TLC

CONSTANTS j1, j2, r1, r2, a1, a2

\* r1 is a branch that moves from one revision to another; r2 names the second.
TwoRefs == r1 :> {a1, a2} @@ r2 :> {a2}

\* The second reference is not found upstream: its attempts fail to resolve.
LostRef == r1 :> {a1} @@ r2 :> {}

JobSymmetry == Permutations(JobIds)
=============================================================================
