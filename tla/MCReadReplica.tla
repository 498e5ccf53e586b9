----------------------------- MODULE MCReadReplica -----------------------------
(***************************************************************************)
(* Instances of ReadReplica: the full replica and peer 1 are in network 1, *)
(* peer 2 is in network 2, and readers 3 and 4 are in neither.             *)
(***************************************************************************)
EXTENDS ReadReplica

MCWithin == [n \in {0, 1, 2} |-> CASE n = 0 -> {0} [] n = 1 -> {0, 1} [] n = 2 -> {2}]

MCSetup(hosts, seeds, cap, list, source, reach, keys, bounds) ==
    [hosts |-> hosts, seeds |-> seeds, cap |-> cap, nets |-> list, source |-> source,
     reach |-> reach, keys |-> keys, retunes |-> bounds[1], calls |-> bounds[2],
     writes |-> bounds[3], faults |-> bounds[4]]

MCSetups == {
    MCSetup({1, 2}, {1, 2}, 2, <<1, 2>>, FALSE, {}, {1}, <<2, 0, 0, 0>>),
    MCSetup({1}, {}, 1, <<1>>, TRUE, {}, {1}, <<0, 1, 2, 0>>),
    MCSetup({3}, {}, 2, <<1>>, FALSE, {0}, {1, 2}, <<0, 0, 2, 1>>),
    MCSetup({3}, {}, 2, <<1>>, TRUE, {}, {1}, <<0, 0, 1, 1>>),
    MCSetup({1, 3}, {}, 1, <<1>>, FALSE, {0}, {1}, <<0, 1, 1, 0>>),
    MCSetup({1, 2}, {1}, 2, <<1>>, FALSE, {}, {1}, <<1, 1, 0, 1>>),
    MCSetup({3, 4}, {}, 1, <<1>>, FALSE, {0, 4}, {1}, <<0, 0, 1, 0>>)}
================================================================================
