---------------------------- MODULE MCReplicaStore ----------------------------
(***************************************************************************)
(* ReplicaStore for TLC.  Keys and callers are interchangeable: no action  *)
(* and no property names one of them.                                      *)
(***************************************************************************)
EXTENDS ReplicaStore, TLC

Symmetry == Permutations(Keys) \cup Permutations(Callers)
==============================================================================
