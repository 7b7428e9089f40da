-------------------------- MODULE MCPartitionedJob --------------------------
(* Instances of PartitionedJob for TLC. *)
EXTENDS PartitionedJob, TLC

CONSTANTS d1, d2

TwoClients == {d1, d2}
Symmetry   == Permutations(Clients)
=============================================================================
