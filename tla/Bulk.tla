--------------------------------- MODULE Bulk ---------------------------------
(***************************************************************************)
(* Bulk work: what the admission of dumps and the dumps themselves share.  *)
(***************************************************************************)
CONSTANTS
    Peers,
    Channels,    \* DumpChannel
    None

\* What a dump is for: the tree to read and the peer to send to.
Work == Channels \X Peers

PeerOf(w) == w[2]
==============================================================================
