--------------------------- MODULE MCSignedReplica ---------------------------
(***************************************************************************)
(* Instances of SignedReplica: node 3 is a reader, and an update of key 2  *)
(* takes two datagrams.                                                    *)
(***************************************************************************)
EXTENDS SignedReplica

MCFrames == <<1, 2>>

MCSetup(nodes, keys, retire, tick, writing, bound, flight) ==
    [nodes |-> nodes, keys |-> keys, retire |-> retire, tick |-> tick,
     writes |-> writing, faults |-> bound, frames |-> flight]

MCSetups == {
    MCSetup({1, 2}, {1}, {}, 1, 2, 0, 2),
    MCSetup({1, 2}, {2}, {}, 2, 1, 1, 1),
    MCSetup({1, 2, 3}, {1, 2}, {}, 1, 1, 0, 1),
    MCSetup({1, 2}, {1, 2}, {}, 2, 2, 0, 1),
    MCSetup({1, 2}, {1}, {2}, 1, 1, 1, 1),
    MCSetup({1, 3}, {1}, {3}, 1, 2, 0, 2)}
==============================================================================
