---------------------------- MODULE MCAwriseLock ----------------------------
(* AwriseLock on small sets of processes, which are interchangeable.       *)
EXTENDS AwriseLock, TLC

Symmetry == Permutations(Procs)

=============================================================================
