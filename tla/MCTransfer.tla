------------------------------ MODULE MCTransfer ------------------------------
(* One message alone, whose sender may restart with another datagram budget;  *)
(* two messages on one link, competing for slots or for bytes; two senders    *)
(* of one receiver; and messages alone, fragmented or not, with faults.       *)
EXTENDS Transfer

MCFrom == <<1, 3, 3, 3, 1>>
MCTo == <<2, 2, 2, 2, 2>>
MCSize == <<5, 4, 4, 3, 4>>
MCCapacities == <<{2, 3}, {2}, {2}>>

MCSetup(messages, selective, transfers, peer, total, kept, bound) ==
    [messages |-> messages, selective |-> selective,
     transfers |-> transfers, peer |-> peer, total |-> total,
     book_transfers |-> 2, book_total_transfers |-> kept,
     book_peer |-> 5, book_total |-> 8, faults |-> bound, frames |-> 3]

MCSetups == {
    MCSetup({1}, TRUE, 1, 5, 5, 1, 1),
    MCSetup({1}, FALSE, 1, 5, 5, 1, 2),
    MCSetup({2}, TRUE, 1, 4, 4, 1, 1),
    MCSetup({2}, TRUE, 1, 4, 4, 0, 0),
    MCSetup({4}, TRUE, 1, 4, 4, 1, 1),
    MCSetup({2, 3}, TRUE, 1, 4, 4, 1, 0),
    MCSetup({2, 3}, TRUE, 2, 4, 8, 2, 0),
    MCSetup({2, 5}, FALSE, 2, 5, 5, 1, 1)}
==============================================================================
