-------------------------- MODULE MCNativeRuntime --------------------------
(* Instances of NativeRuntime for TLC. *)
EXTENDS NativeRuntime, TLC

CONSTANTS r1, r2, t1, t2, t3

OneRuntime   == {r1}
TwoRuntimes  == {r1, r2}
TwoThreads   == {t1, t2}
ThreeThreads == {t1, t2, t3}
Symmetry     == Permutations(Runtimes) \cup Permutations(Threads)
=============================================================================
