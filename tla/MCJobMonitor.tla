---------------------------- MODULE MCJobMonitor ----------------------------
(* Instances of JobMonitor for TLC. *)
EXTENDS JobMonitor, TLC

CONSTANTS j1, j2, c1, c2

OneJob     == {j1}
TwoJobs    == {j1, j2}
OneClient  == {c1}
TwoClients == {c1, c2}
Symmetry   == Permutations(Jobs) \cup Permutations(Clients)
=============================================================================
