----------------------------- MODULE MCBenchmark -----------------------------
(* Small instances of Benchmark for TLC.                                   *)
EXTENDS Benchmark, TLC

CONSTANTS s1, s2, b1, c1

\* Server processes are interchangeable.
ServerSymmetry == Permutations(Procs)
=============================================================================
