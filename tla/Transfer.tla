------------------------------- MODULE Transfer -------------------------------
(***************************************************************************)
(* Large logical messages on the wire: the sender cuts a message into      *)
(* fragments and keeps it for selective recovery (RecoveryBook), the       *)
(* receiver collects fragments under byte and count limits (Reassembler),  *)
(* asks for what is missing and acknowledges what is whole.  Frames are    *)
(* lost, delayed and reordered; copies of a datagram are the replay        *)
(* filter's concern (module ReplayFilter), so the network is a set.        *)
(*                                                                         *)
(* A message stands for its content, and for its transfer id, the hash of  *)
(* the content: ids are ordered, and so are the peers.  A node restarts    *)
(* with whatever datagram budget its new configuration gives it, so one    *)
(* message may be cut along two different grids.                           *)
(*                                                                         *)
(* Time is kept as ages, each counted up to the limit it is compared with. *)
(***************************************************************************)
EXTENDS Integers, FiniteSets, FiniteSetsExt

CONSTANTS
    Nodes, Messages,        \* sets of naturals, in the order of IpAddr and of ids
    From, To, Size,         \* the sender, the receiver and the bytes of a message
    Capacities,             \* the fragment capacities a node may be started with
    HeaderGap,              \* FRAGMENT_HEADER_LEN - COMPLETE_HEADER_LEN
    MaxLogical, MaxFragments, ReassemblyTTL, MaxRanges, MaxReports, MinIdle,
    RetryInterval, MaxRounds, FullRetry, RecoveryTTL, MaxPeers,
    None,
    Setups                  \* what a behaviour starts with, see Setup

ASSUME TransferAssumption ==
    /\ Nodes \subseteq Nat /\ Messages \subseteq Nat
    /\ IsFiniteSet(Nodes) /\ IsFiniteSet(Messages)
    /\ From \in [Messages -> Nodes] /\ To \in [Messages -> Nodes]
    /\ Size \in [Messages -> Nat \ {0}]
    /\ Capacities \in [Nodes -> SUBSET (Nat \ {0})]
    /\ {HeaderGap, MaxLogical, MaxFragments, ReassemblyTTL, MaxRanges, MaxReports, MinIdle,
        RetryInterval, MaxRounds, FullRetry, RecoveryTTL, MaxPeers} \subseteq Nat

\* Fragments retained for a message: a function from offsets to lengths.
Fragments == UNION {[D -> Nat \ {0}] : D \in SUBSET (0..MaxLogical)}

\* A transfer being reassembled, and an outbound one in the recovery book.
Part == [frags : Fragments, bytes : Nat, idle : Nat, asked : Nat]
Entry == [idle : Nat, since : Nat, rounds : Nat]

ASSUME NoneAssumption == None \notin Nat \cup Part \cup Entry

\* The limits of the reassemblers and of the recovery books, whether selective_recovery
\* is on, the messages there are to send, and bounds on faults and on frames in flight.
Setup == [transfers : Nat, peer : Nat, total : Nat,
          book_transfers : Nat, book_total_transfers : Nat, book_peer : Nat, book_total : Nat,
          selective : BOOLEAN, messages : SUBSET Messages, faults : Nat, frames : Nat]

ASSUME SetupAssumption == Setups \subseteq Setup

VARIABLES
    setup,
    capacity,    \* the fragment capacity each node was started with
    net,         \* frames on their way
    reasm,       \* Reassembler: parts of messages, and retained bytes by peer and in all
    book,        \* RecoveryBook: outbound transfers, and their bytes
    capable,     \* RecoveryBook.capabilities
    forgetting,  \* the message a recv_loop is about to forget, or None
    delivered,   \* messages handed to the protocol
    faults       \* faults that may still happen

vars == <<setup, capacity, net, reasm, book, capable, forgetting, delivered, faults>>

(***************************************************************************)
(* Offsets, gaps and sums.                                                 *)
(***************************************************************************)
\* The sum of a function's values, counted: one pair for each unit of each value.
Total(w) == Cardinality(UNION {{m} \X (1..w[m]) : m \in DOMAIN w})

Bytes(off, len) == off..(off + len - 1)

Below(F, at) == {o \in DOMAIN F : o < at}

\* The end of the last fragment that starts before an offset.
Cursor(F, at) == IF Below(F, at) = {} THEN 0
                 ELSE LET o == Max(Below(F, at)) IN o + F[o]

\* MUTANT of Overlaps: fragments that touch count as overlapping.
OverlapsTouching(F, start, end) ==
    LET after == {o \in DOMAIN F : o >= start}
    IN  Cursor(F, start) >= start \/ (after # {} /\ Min(after) < end)

Overlaps(F, start, end) ==
    LET after == {o \in DOMAIN F : o >= start}
    IN  Cursor(F, start) > start \/ (after # {} /\ Min(after) < end)

\* The fragments, one after the other, are the content the transfer id hashes.
Contiguous(F) == \A o \in DOMAIN F : Cursor(F, o) = o

\* MUTANT of MissingRanges: the tail after the last fragment is left out.
MissingInside(F, total) == {<<Cursor(F, o), o - Cursor(F, o)>> :
                              o \in {p \in DOMAIN F : Cursor(F, p) < p}}

\* missing_ranges_for_transfer: the first gaps, as offsets and lengths.
MissingRanges(F, total) ==
    LET ends == {o \in DOMAIN F \cup {total} : Cursor(F, o) < o}
    IN  {<<Cursor(F, o), o - Cursor(F, o)>> :
           o \in {p \in ends : Cardinality({q \in ends : q < p}) < MaxRanges}}

(***************************************************************************)
(* Frames.                                                                 *)
(***************************************************************************)
Fragment(m, off, len) == [kind |-> "fragment", m |-> m, off |-> off, len |-> len]
Report(m, ranges) == [kind |-> "missing", m |-> m, ranges |-> ranges]
Ack(m) == [kind |-> "ack", m |-> m]
Complete(m) == [kind |-> "complete", m |-> m]

\* A byte range cut into chunks of the sender's capacity, from its first byte on.
Chunks(m, start, len, cap) ==
    {Fragment(m, off, Min({cap, start + len - off})) :
        off \in {o \in Bytes(start, len) : (o - start) % cap = 0}}

\* A full network loses what is sent into it.
Sent(old, new) == IF Cardinality(old \cup new) <= setup.frames THEN old \cup new ELSE old

Terminal(f) == f.off + f.len = Size[f.m]

(***************************************************************************)
(* Making room.  Victims go oldest first, and no more than needed: the     *)
(* first of the sets that are Enough; if all of them do not suffice they   *)
(* are gone all the same.                                                  *)
(***************************************************************************)
Older(T, Peer, x, y) ==
    \/ T[x].idle > T[y].idle
    \/ T[x].idle = T[y].idle /\ Peer[x] < Peer[y]
    \/ T[x].idle = T[y].idle /\ Peer[x] = Peer[y] /\ x < y

Victims(C, T, Peer, Enough) ==
    LET first(k) == {x \in C : Cardinality({y \in C : Older(T, Peer, y, x)}) < k}
        ks == {k \in 0..Cardinality(C) : first(k) \in Enough}
    IN  IF ks = {} THEN C ELSE first(Min(ks))

Drop(T, V) == [m \in Messages |-> IF m \in V THEN None ELSE T[m]]

(***************************************************************************)
(* Reassembler.                                                            *)
(***************************************************************************)
At(R, r) == {m \in Messages : To[m] = r /\ R.parts[m] # None}
AtFrom(R, r, s) == {m \in At(R, r) : From[m] = s}

PartBytes(R, V) == Total([m \in V |-> R.parts[m].bytes])

Monus(a, b) == IF a > b THEN a - b ELSE 0

\* MUTANT of RemoveParts: the bytes of the peer are not given back.
RemovePartsKeepsPeer(R, r, V) ==
    [R EXCEPT !.parts = Drop(@, V), !.all[r] = Monus(@, PartBytes(R, V))]

RemoveParts(R, r, V) ==
    IF V = {} THEN R
    ELSE [R EXCEPT !.parts = Drop(@, V),
                   !.peer[r] = [s \in Nodes |->
                                  IF AtFrom(R, r, s) \subseteq V THEN 0
                                  ELSE Monus(@[s], PartBytes(R, V \cap AtFrom(R, r, s)))],
                   !.all[r] = Monus(@, PartBytes(R, V))]

Expire(R, r) == RemoveParts(R, r, {m \in At(R, r) : R.parts[m].idle >= ReassemblyTTL})

\* Whether there is room for len more bytes of m once V is gone: in the peer's slots,
\* in its bytes, in the bytes of all.
Fits(R, pass, m, len, V) ==
    CASE pass = "slots" -> \/ R.parts[m] # None
                           \/ Cardinality(AtFrom(R, To[m], From[m]) \ V) < setup.transfers
      [] pass = "peer" -> R.peer[To[m]][From[m]] - PartBytes(R, V) + len <= setup.peer
      [] pass = "all" -> R.all[To[m]] - PartBytes(R, V) + len <= setup.total

EvictParts(R, pass, m, len) ==
    LET C == {x \in At(R, To[m]) \ {m} : pass = "all" \/ From[x] = From[m]}
        V == Victims(C, R.parts, From, {W \in SUBSET C : Fits(R, pass, m, len, W)})
    IN  [ok |-> Fits(R, pass, m, len, V), R |-> RemoveParts(R, To[m], V)]

\* make_transfer_slot and make_byte_room: each pass runs only if the one before it
\* made enough room.
MakeRoom(R, m, len) ==
    LET slots == EvictParts(R, "slots", m, len)
        bytes == EvictParts(slots.R, "peer", m, len)
    IN  IF R.parts[m] = None /\ (len > setup.peer \/ len > setup.total)
          THEN [ok |-> FALSE, R |-> R]
        ELSE IF ~slots.ok THEN slots
        ELSE IF ~bytes.ok THEN bytes
        ELSE EvictParts(bytes.R, "all", m, len)

NewPart == [frags |-> <<>>, bytes |-> 0, idle |-> 0, asked |-> RetryInterval]

InsertFragment(R, f) ==
    LET T == IF R.parts[f.m] = None THEN NewPart ELSE R.parts[f.m]
        F == [o \in DOMAIN T.frags \cup {f.off} |-> IF o = f.off THEN f.len ELSE T.frags[o]]
    IN  [R EXCEPT !.parts[f.m] = [T EXCEPT !.frags = F, !.bytes = @ + f.len, !.idle = 0],
                  !.peer[To[f.m]][From[f.m]] = @ + f.len,
                  !.all[To[f.m]] = @ + f.len]

\* accept_fragment: the outcome and the new state, of a fragment there was room for ...
Stored(R, f) ==
    LET T == R.parts[f.m]
    IN  IF T.bytes # Size[f.m] THEN [outcome |-> "waiting", R |-> R]
        ELSE [outcome |-> IF Contiguous(T.frags) THEN "whole" ELSE "rejected",
              R |-> RemoveParts(R, To[f.m], {f.m})]

Store(room, f) == IF room.ok THEN Stored(InsertFragment(room.R, f), f)
                  ELSE [outcome |-> "rejected", R |-> room.R]

\* ... and of any fragment.
AcceptFragment(R, f) ==
    LET T == R.parts[f.m]
        known == T # None /\ f.off \in DOMAIN T.frags
        clashes == T # None /\ (\/ Overlaps(T.frags, f.off, f.off + f.len)
                                \/ Cardinality(DOMAIN T.frags) >= MaxFragments)
    IN  IF f.off + f.len > Size[f.m] \/ Size[f.m] > MaxLogical \/ MaxFragments = 0
          THEN [outcome |-> "rejected", R |-> R]
        ELSE IF known /\ T.frags[f.off] = f.len
          THEN [outcome |-> "waiting", R |-> [R EXCEPT !.parts[f.m].idle = 0]]
        ELSE IF known \/ clashes THEN [outcome |-> "rejected", R |-> R]
        ELSE Store(MakeRoom(R, f.m, f.len), f)

Due(R, m) == R.parts[m].asked >= RetryInterval

(***************************************************************************)
(* RecoveryBook.                                                           *)
(***************************************************************************)
Out(B, n) == {m \in Messages : From[m] = n /\ B.out[m] # None}
OutTo(B, n, p) == {m \in Out(B, n) : To[m] = p}
OutBytes(V) == Total([m \in V |-> Size[m]])

Unbook(B, n, V) ==
    IF V \cap Out(B, n) = {} THEN B
    ELSE [B EXCEPT !.out = Drop(@, V), !.bytes[n] = Monus(@, OutBytes(V \cap Out(B, n)))]

Sweep(B, n) == Unbook(B, n, {m \in Out(B, n) : B.out[m].idle >= RecoveryTTL})

Retainable(m) ==
    /\ Size[m] <= setup.book_peer /\ Size[m] <= setup.book_total
    /\ setup.book_transfers > 0 /\ setup.book_total_transfers > 0

NewEntry == [idle |-> 0, since |-> 0, rounds |-> 0]

Holds(B, pass, m, V) ==
    LET n == From[m]
        peer == OutTo(B, n, To[m]) \ V
    IN  CASE pass = "peer count" -> Cardinality(peer) < setup.book_transfers
          [] pass = "count" -> Cardinality(Out(B, n) \ V) < setup.book_total_transfers
          [] pass = "peer bytes" -> OutBytes(peer) + Size[m] <= setup.book_peer
          [] pass = "bytes" -> B.bytes[n] - OutBytes(V) + Size[m] <= setup.book_total

EvictOut(B, pass, m) ==
    LET C == {x \in Out(B, From[m]) : pass \in {"count", "bytes"} \/ To[x] = To[m]}
    IN  Unbook(B, From[m], Victims(C, B.out, To, {W \in SUBSET C : Holds(B, pass, m, W)}))

MakeSpace(B, m) ==
    LET counted == EvictOut(EvictOut(B, "peer count", m), "count", m)
    IN  EvictOut(EvictOut(counted, "peer bytes", m), "bytes", m)

\* A new entry, after room was made for it.
Enter(B, m) ==
    [MakeSpace(B, m) EXCEPT !.out[m] = NewEntry, !.bytes[From[m]] = @ + Size[m]]

(***************************************************************************)
(* send_logical_payload.                                                   *)
(***************************************************************************)
Cut(m) == Chunks(m, 0, Size[m], capacity[From[m]])

OfferComplete(m) ==
    /\ Size[m] <= MaxLogical /\ Size[m] <= capacity[From[m]] + HeaderGap
    /\ Cardinality(net) < setup.frames
    /\ net' = net \cup {Complete(m)}
    /\ UNCHANGED <<setup, capacity, reasm, book, capable, forgetting, delivered, faults>>

Fragmented(m) ==
    /\ Size[m] <= MaxLogical /\ Size[m] > capacity[From[m]] + HeaderGap
    /\ Cardinality(Cut(m)) <= MaxFragments

\* A transfer still in the book is left to selective recovery, until FullRetry.
Offer(m) ==
    /\ Fragmented(m) /\ Cardinality(net \cup Cut(m)) <= setup.frames
    /\ LET n == From[m]
           B == Sweep(book, n)
       IN  IF To[m] \notin capable[n] THEN net' = net \cup Cut(m) /\ book' = book
           ELSE IF ~Retainable(m) THEN net' = net \cup Cut(m) /\ book' = B
           ELSE IF B.out[m] = None THEN net' = net \cup Cut(m) /\ book' = Enter(B, m)
           ELSE IF B.out[m].since >= FullRetry
             THEN /\ net' = net \cup Cut(m)
                  /\ book' = [B EXCEPT !.out[m] = [@ EXCEPT !.idle = 0, !.since = 0]]
             ELSE net' = net /\ book' = [B EXCEPT !.out[m] = [@ EXCEPT !.idle = 0]]
    /\ UNCHANGED <<setup, capacity, reasm, capable, forgetting, delivered, faults>>

(***************************************************************************)
(* recv_loop: one frame.                                                   *)
(***************************************************************************)
Reply(R, m) == IF From[m] \in capable[To[m]]
               THEN {Report(m, MissingRanges(R.parts[m].frags, Size[m]))} ELSE {}

DeliverFragment(f) ==
    /\ f.kind = "fragment"
    /\ LET a == AcceptFragment(Expire(reasm, To[f.m]), f)
           ask == a.outcome = "waiting" /\ Terminal(f) /\ Due(a.R, f.m) /\ MaxRanges > 0
       IN  /\ reasm' = IF ask THEN [a.R EXCEPT !.parts[f.m].asked = 0] ELSE a.R
           /\ delivered' = IF a.outcome = "whole" THEN delivered \cup {f.m} ELSE delivered
           /\ net' = Sent(net \ {f},
                          IF ask THEN Reply(a.R, f.m)
                          ELSE IF a.outcome = "whole" /\ From[f.m] \in capable[To[f.m]]
                            THEN {Ack(f.m)} ELSE {})
    /\ UNCHANGED <<setup, capacity, book, capable, forgetting, faults>>

DeliverComplete(f) ==
    /\ f.kind = "complete"
    /\ net' = net \ {f}
    /\ reasm' = Expire(reasm, To[f.m])
    /\ delivered' = IF Size[f.m] <= MaxLogical THEN delivered \cup {f.m} ELSE delivered
    /\ UNCHANGED <<setup, capacity, book, capable, forgetting, faults>>

DeliverAck(f) ==
    /\ f.kind = "ack"
    /\ net' = net \ {f}
    /\ book' = Unbook(book, From[f.m], {f.m})
    /\ UNCHANGED <<setup, capacity, reasm, capable, forgetting, delivered, faults>>

Wanted(f) == UNION {Chunks(f.m, x[1], x[2], capacity[From[f.m]]) : x \in f.ranges}

Answerable(B, f) ==
    To[f.m] \in capable[From[f.m]] /\ B.out[f.m] # None /\ B.out[f.m].rounds < MaxRounds

NextRound(E) == [E EXCEPT !.rounds = @ + 1, !.idle = 0]

\* retransmit_missing_to: one more round, after the last of which the transfer is
\* forgotten ...
ServeReport(f) ==
    LET B == Sweep(book, From[f.m])
    IN  /\ f.kind = "missing"
        /\ Answerable(B, f)
        /\ net' = Sent(net \ {f}, Wanted(f))
        /\ book' = [B EXCEPT !.out[f.m] = NextRound(@)]
        /\ forgetting' = [forgetting EXCEPT ![From[f.m]] =
                             IF B.out[f.m].rounds + 1 >= MaxRounds THEN f.m ELSE None]
        /\ UNCHANGED <<setup, capacity, reasm, capable, delivered, faults>>

\* ... unless a send failed, which ends the round at once.
ServeReportFails(f) ==
    LET B == Sweep(book, From[f.m])
    IN  /\ f.kind = "missing"
        /\ Answerable(B, f)
        /\ faults > 0 /\ faults' = faults - 1
        /\ net' = net \ {f}
        /\ book' = [B EXCEPT !.out[f.m] = NextRound(@)]
        /\ UNCHANGED <<setup, capacity, reasm, capable, forgetting, delivered>>

IgnoreReport(f) ==
    LET B == Sweep(book, From[f.m])
    IN  /\ f.kind = "missing"
        /\ ~Answerable(B, f)
        /\ net' = net \ {f}
        /\ book' = IF To[f.m] \in capable[From[f.m]] THEN B ELSE book
        /\ UNCHANGED <<setup, capacity, reasm, capable, forgetting, delivered, faults>>

\* The end of retransmit_missing_to; other tasks may have run since it began.
Forget(n) ==
    /\ forgetting[n] # None
    /\ book' = Unbook(book, n, {forgetting[n]})
    /\ forgetting' = [forgetting EXCEPT ![n] = None]
    /\ UNCHANGED <<setup, capacity, net, reasm, capable, delivered, faults>>

Destination(f) == IF f.kind \in {"fragment", "complete"} THEN To[f.m] ELSE From[f.m]

Deliver(f) ==
    /\ f \in net /\ forgetting[Destination(f)] = None
    /\ \/ DeliverFragment(f) \/ DeliverComplete(f) \/ DeliverAck(f)
       \/ ServeReport(f) \/ IgnoreReport(f)

\* A batch of the peer arrives that starts with its capability.  Another one while it
\* is known only does what RecvTimeout does.
HearCapability(n, p) ==
    /\ setup.selective /\ forgetting[n] = None /\ p \notin capable[n]
    /\ Cardinality(capable[n]) < MaxPeers
    /\ capable' = [capable EXCEPT ![n] = @ \cup {p}]
    /\ book' = Sweep(book, n)
    /\ reasm' = Expire(reasm, n)
    /\ UNCHANGED <<setup, capacity, net, forgetting, delivered, faults>>

\* Its lifetime passes without another one.
LapseCapability(n, p) ==
    /\ p \in capable[n]
    /\ faults > 0 /\ faults' = faults - 1
    /\ capable' = [capable EXCEPT ![n] = @ \ {p}]
    /\ UNCHANGED <<setup, capacity, net, reasm, book, forgetting, delivered>>

(***************************************************************************)
(* Timers, and the environment.                                            *)
(***************************************************************************)
\* The idle arm of recv_loop, when there is something to expire.
RecvTimeout(n) ==
    /\ forgetting[n] = None
    /\ \/ \E m \in At(reasm, n) : reasm.parts[m].idle >= ReassemblyTTL
       \/ \E m \in Out(book, n) : book.out[m].idle >= RecoveryTTL
    /\ reasm' = Expire(reasm, n)
    /\ book' = Sweep(book, n)
    /\ UNCHANGED <<setup, capacity, net, capable, forgetting, delivered, faults>>

\* poll_idle_missing: the first candidates in the order of peers and ids.
Polled(R, r) ==
    LET C == {m \in At(R, r) : R.parts[m].idle >= MinIdle /\ Due(R, m)}
        before(x, m) == From[x] < From[m] \/ (From[x] = From[m] /\ x < m)
    IN  {m \in C : Cardinality({x \in C : before(x, m)}) < MaxReports}

RetryIdle(n) ==
    /\ setup.selective /\ MaxRanges > 0 /\ At(reasm, n) # {}
    /\ LET R == Expire(reasm, n)
           P == Polled(R, n)
       IN  /\ reasm' = [R EXCEPT !.parts = [m \in Messages |->
                           IF m \in P THEN [@[m] EXCEPT !.asked = 0] ELSE @[m]]]
           /\ net' = Sent(net, UNION {Reply(R, m) : m \in P})
    /\ UNCHANGED <<setup, capacity, book, capable, forgetting, delivered, faults>>

Later(age, limit) == IF age < limit THEN age + 1 ELSE age

LaterPart(T) == IF T = None THEN None
                ELSE [T EXCEPT !.idle = Later(@, ReassemblyTTL), !.asked = Later(@, RetryInterval)]
LaterEntry(E) == IF E = None THEN None
                 ELSE [E EXCEPT !.idle = Later(@, RecoveryTTL), !.since = Later(@, FullRetry)]

\* Time passes between frames; for one to be on its way for so long is a fault.
Tick ==
    /\ \/ net = {} /\ faults' = faults
       \/ net # {} /\ faults > 0 /\ faults' = faults - 1
    /\ reasm' = [reasm EXCEPT !.parts = [m \in Messages |-> LaterPart(@[m])]]
    /\ book' = [book EXCEPT !.out = [m \in Messages |-> LaterEntry(@[m])]]
    /\ UNCHANGED <<setup, capacity, net, capable, forgetting, delivered>>

Lose(f) ==
    /\ faults > 0 /\ faults' = faults - 1
    /\ net' = net \ {f}
    /\ UNCHANGED <<setup, capacity, reasm, book, capable, forgetting, delivered>>

Restart(n, cap) ==
    /\ faults > 0 /\ faults' = faults - 1
    /\ capacity' = [capacity EXCEPT ![n] = cap]
    /\ reasm' = RemoveParts(reasm, n, At(reasm, n))
    /\ book' = Unbook(book, n, Out(book, n))
    /\ capable' = [capable EXCEPT ![n] = {}]
    /\ forgetting' = [forgetting EXCEPT ![n] = None]
    /\ UNCHANGED <<setup, net, delivered>>

Init ==
    /\ capacity \in {c \in [Nodes -> UNION {Capacities[n] : n \in Nodes}] :
                      \A n \in Nodes : c[n] \in Capacities[n]}
    /\ net = {} /\ delivered = {}
    /\ setup \in Setups /\ faults = setup.faults
    /\ reasm = [parts |-> [m \in Messages |-> None],
                peer |-> [r \in Nodes |-> [s \in Nodes |-> 0]], all |-> [r \in Nodes |-> 0]]
    /\ book = [out |-> [m \in Messages |-> None], bytes |-> [n \in Nodes |-> 0]]
    /\ capable = [n \in Nodes |-> {}]
    /\ forgetting = [n \in Nodes |-> None]

Next ==
    \/ \E m \in setup.messages : OfferComplete(m) \/ Offer(m)
    \/ \E f \in net : Deliver(f) \/ Lose(f)
    \/ \E f \in net : forgetting[Destination(f)] = None /\ ServeReportFails(f)
    \/ \E n \in Nodes : Forget(n) \/ RecvTimeout(n) \/ RetryIdle(n)
    \/ \E m \in setup.messages : \/ HearCapability(From[m], To[m]) \/ HearCapability(To[m], From[m])
    \/ \E n, p \in Nodes : LapseCapability(n, p)
    \/ \E n \in Nodes : \E cap \in Capacities[n] : Restart(n, cap)
    \/ Tick

Spec == Init /\ [][Next]_vars

InFull(m) == IF Size[m] <= capacity[From[m]] + HeaderGap THEN {Complete(m)} ELSE Cut(m)

SendsInFull(m) ==
    /\ m \in setup.messages \ delivered
    /\ ~(InFull(m) \subseteq net) /\ Cardinality(net \cup InFull(m)) <= setup.frames
    /\ \/ To[m] \notin capable[From[m]] \/ ~Retainable(m) \/ book.out[m] = None
       \/ book.out[m].since >= FullRetry

\* Anti-entropy offers what the receiver lacks again and again, the network delivers,
\* so that time and again nothing is on its way, time passes, and a task that began to
\* answer a report ends.  No fairness is asked of the timers of selective recovery.
Fairness ==
    /\ \A m \in Messages : <>[]~SendsInFull(m) \/ []<><<InFull(m) \subseteq net'>>_vars
    /\ []<>(net = {}) /\ SF_vars(Tick)
    /\ \A n \in Nodes : WF_vars(Forget(n))

FairSpec == Spec /\ Fairness

(***************************************************************************)
(* Properties.                                                             *)
(***************************************************************************)
\* Byte counters of reassembler and recovery book agree with what is retained, on
\* every path of insertion, completion, eviction, expiry and acknowledgement, and
\* never exceed the configured limits.
BytesAccounted ==
    \A n \in Nodes :
        /\ reasm.all[n] = PartBytes(reasm, At(reasm, n)) /\ reasm.all[n] <= setup.total
        /\ book.bytes[n] = OutBytes(Out(book, n)) /\ book.bytes[n] <= setup.book_total
        /\ Cardinality(Out(book, n)) <= setup.book_total_transfers
        /\ \A p \in Nodes :
             /\ reasm.peer[n][p] = PartBytes(reasm, AtFrom(reasm, n, p))
             /\ reasm.peer[n][p] <= setup.peer
             /\ Cardinality(AtFrom(reasm, n, p)) <= setup.transfers
             /\ Cardinality(OutTo(book, n, p)) <= setup.book_transfers
             /\ OutBytes(OutTo(book, n, p)) <= setup.book_peer

Covered(F) == UNION {Bytes(o, F[o]) : o \in DOMAIN F}

\* What a receiver would report missing is what it lacks: the ranges are its first
\* gaps, they touch no retained byte, and they are all of them unless the report is
\* full.
MissingIsExact ==
    \A m \in Messages : reasm.parts[m] # None =>
        LET F == reasm.parts[m].frags
            G == MissingRanges(F, Size[m])
            asked == UNION {Bytes(x[1], x[2]) : x \in G}
            lacking == Bytes(0, Size[m]) \ Covered(F)
        IN  /\ asked \subseteq lacking /\ (MaxRanges > 0 => asked # {})
            /\ asked = lacking \/ (/\ Cardinality(G) = MaxRanges
                                   /\ \A i \in asked, j \in lacking \ asked : i < j)

Roomy ==
    /\ \A m \in setup.messages : /\ Size[m] <= MaxLogical
                                 /\ \A cap \in Capacities[From[m]] :
                                      Cardinality(Chunks(m, 0, Size[m], cap)) <= MaxFragments
    /\ Cardinality(setup.messages) <= setup.transfers
    /\ OutBytes(setup.messages) <= setup.peer /\ setup.peer <= setup.total

OneGrid == \A m \in setup.messages : Cardinality(Capacities[From[m]]) = 1

\* A message that anti-entropy keeps offering is delivered, whatever is lost, evicted,
\* forgotten or asked for in vain on the way, if the receiver has room for what is
\* offered and the sender always starts with one datagram budget.
EventuallyDelivered == (Roomy /\ OneGrid) ~> (setup.messages \subseteq delivered)
==============================================================================
