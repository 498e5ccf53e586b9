--------------------------------- MODULE Wire ---------------------------------
(***************************************************************************)
(* What the two ends of the signed envelope share: ReplayFilter, which     *)
(* drops the copies of a datagram, and SignedReplica, which handles the    *)
(* rest.                                                                   *)
(***************************************************************************)
CONSTANT None   \* no state, route or receipt
==============================================================================
