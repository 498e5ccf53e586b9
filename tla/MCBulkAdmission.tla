--------------------------- MODULE MCBulkAdmission ---------------------------
(***************************************************************************)
(* BulkAdmission for TLC.  Sources and fingerprints are interchangeable:   *)
(* no action and no property names one of them.                            *)
(***************************************************************************)
EXTENDS BulkAdmission, TLC

Symmetry == Permutations(Peers) \cup Permutations(Fingerprints)
==============================================================================
