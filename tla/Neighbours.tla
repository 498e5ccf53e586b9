------------------------------ MODULE Neighbours ------------------------------
(***************************************************************************)
(* The addresses that one replica of ReplicatedMap deals with: the peers   *)
(* it compares itself with, the members whose receipts it waits for, the   *)
(* repairs it owes, the networks that its peers are sorted by, and the     *)
(* discovery source that seeds and decommissions them.                     *)
(*                                                                         *)
(* ReplicatedMap::run drives the receive loop, the repair timer and the    *)
(* discovery loop as one task, so they interleave where they await; the    *)
(* calls of the application run on other threads and interleave anywhere.  *)
(* What the other replicas do is left open: a peer may be heard from at    *)
(* any time, or never.  Read replicas are modelled in ReadReplica.         *)
(***************************************************************************)
EXTENDS Integers, Sequences, FiniteSetsExt

CONSTANTS
    Self,                \* the address of the replica
    Peers, Readers,      \* the addresses of full and of read replicas
    Nets, Host,          \* networks, and the host route of Self
    Within,            \* the addresses that are in a network
    Keys,
    MaxNets, RemoteInterval, RemoteFanout, MaxRepairAttempts,
    MissThreshold,
    Floor,               \* discovery_decommission_floor, in discovery intervals
    None,
    Setups               \* what a behaviour starts with, see Setup

Hosts == Peers \cup Readers

ASSUME NeighboursAssumption ==
    /\ Self \notin Hosts /\ Peers \cap Readers = {} /\ None \notin Hosts
    /\ Host \notin Nets /\ Within \in [Nets \cup {Host} -> SUBSET (Hosts \cup {Self})]
    /\ Within[Host] = {Self}
    /\ {RemoteInterval, RemoteFanout, MaxRepairAttempts, MissThreshold} \subseteq Nat \ {0}
    /\ IsFiniteSet(Hosts) /\ Floor \in Nat
    /\ None \notin [misses : Nat, age : Nat] /\ None \notin [member : Hosts, checked : Nat]
    /\ \A found \in SUBSET Hosts : found # None

\* Lists of distinct networks.
NetLists == {s \in UNION {[1..n -> Nets] : n \in 0..MaxNets} : IsInjective(s)}

\* The hosts there are, those known from the start, max_peers, the networks declared,
\* whether there is a discovery source, the network a read replica probes, the keys,
\* and bounds on the calls about networks and peers, the writes and the faults.
Setup == [hosts : SUBSET Hosts, seeds : SUBSET Hosts, cap : Nat, nets : NetLists,
          source : BOOLEAN, reach : SUBSET (Hosts \cup {Self}), keys : SUBSET Keys,
          retunes : Nat, calls : Nat, writes : Nat, faults : Nat]

ASSUME SetupAssumption == Setups \subseteq Setup

VARIABLES
    setup,
    nets, localNet,
    setting,     \* the lists of calls of set_nets that have written local_net only
    seen,        \* the networks that a round in progress has read, or None
    round,
    contacted,   \* the targets of the last round
    peers,       \* known peers that have not expired
    members,
    bulk,        \* receiving_bulk_from, those of late
    repairs,     \* retries sent of a pending repair, or None
    presence,    \* misses and age of an absence, or None if never discovered
    todo,        \* the members that a discovery round has yet to account for
    doomed,      \* the member it has found eligible, or None
    absent,      \* history: rounds and intervals since the source named an address
    entry, acks, \* the version each key holds, and the receipts recorded for it
    retunes, calls, writes, faults   \* how many may still happen

netVars == <<nets, localNet, setting, retunes>>
roundVars == <<seen, round, contacted>>
peerVars == <<peers, members, bulk>>
sourceVars == <<presence, todo, doomed, absent>>
storeVars == <<entry, acks, writes>>
nodeVars == <<setup, netVars, roundVars, peerVars, sourceVars, storeVars, repairs, calls, faults>>

\* Neither a round nor a discovery round is between two of its steps.
Idle == seen = None /\ todo = {} /\ doomed = None

UsesRetune == retunes > 0 /\ retunes' = retunes - 1
UsesCall == calls > 0 /\ calls' = calls - 1
UsesFault == faults > 0 /\ faults' = faults - 1

(***************************************************************************)
(* Networks.                                                               *)
(***************************************************************************)
\* Where the first network that contains a is, or 0.
Position(list, a) ==
    LET matches == {i \in DOMAIN list : a \in Within[list[i]]}
    IN  IF matches = {} THEN 0 ELSE Min(matches)

DeriveLocalNet(list) == IF Position(list, Self) = 0 THEN Host ELSE list[Position(list, Self)]

\* set_nets writes the two variables under a lock each.
SetNets(list) ==
    /\ UsesRetune
    /\ localNet' = DeriveLocalNet(list)
    /\ setting' = setting \cup {list}
    /\ UNCHANGED <<setup, nets, roundVars, peerVars, sourceVars, storeVars, repairs, calls, faults>>

SetNetsReturns(list) ==
    /\ list \in setting
    /\ setting' = setting \ {list}
    /\ nets' = list
    /\ UNCHANGED <<setup, localNet, retunes, roundVars, peerVars, sourceVars, storeVars, repairs,
                   calls, faults>>

\* add_net and remove_net hold the lock of nets while they write both.
Declare(list) ==
    /\ UsesRetune
    /\ nets' = list
    /\ localNet' = DeriveLocalNet(list)
    /\ UNCHANGED <<setup, setting, roundVars, peerVars, sourceVars, storeVars, repairs, calls,
                   faults>>

AddNet(n) == n \notin Range(nets) /\ Len(nets) < MaxNets /\ Declare(Append(nets, n))

RemoveNet(n) == n \in Range(nets) /\ Declare(SelectSeq(nets, LAMBDA m : m # n))

(***************************************************************************)
(* Rounds of comparison and repairs.                                       *)
(***************************************************************************)
\* MUTANT of NotePendingRepair: a pending repair starts over.
NotePendingRepairAfresh(attempts) == 0

\* A pending repair keeps its count of attempts.
NotePendingRepair(attempts) == IF attempts = None THEN 0 ELSE attempts

\* An address of each network of a list, where there may be nobody.
ProbeTargets(list) ==
    {Range(f) \cap setup.hosts :
        f \in {g \in [DOMAIN list -> setup.hosts \cup {None}] :
                 \A i \in DOMAIN list : g[i] # None => g[i] \in Within[list[i]]}}

\* RandomProbe reads the networks for itself.
Probes == ProbeTargets(nets)

\* MUTANT of Buckets: known peers that are in no network are left out.
BucketsOfNets(list, local) ==
    LET remote == SelectSeq(list, LAMBDA n : n # local)
        far == {a \in peers \ Within[local] : Position(remote, a) # 0}
    IN  {{b \in far : Position(remote, b) = Position(remote, a)} : a \in far}

\* Known peers outside the local network, by the first remote network that contains
\* them; those that none contains are a bucket too.
Buckets(list, local) ==
    LET remote == SelectSeq(list, LAMBDA n : n # local)
        far == peers \ Within[local]
    IN  {{b \in far : Position(remote, b) = Position(remote, a)} : a \in far}

\* Up to remote_fanout of each bucket, shuffled; first comes first in its bucket.
Picks(buckets, first) ==
    {p \in SUBSET (UNION buckets) :
        \A b \in buckets :
            /\ Cardinality(p \cap b) = Min({RemoteFanout, Cardinality(b)})
            /\ first \in b => first \in p}

DoRemote == round = 0

\* start_reconciliation reads nets, then local_net, without a lock on both.
StartRound ==
    /\ Idle
    /\ seen' = nets
    /\ UNCHANGED <<setup, netVars, round, contacted, peerVars, sourceVars, storeVars, repairs,
                   calls, faults>>

\* The rest of it.  Whoever may still be sending bulk data is left alone.
Reconcile(first) ==
    /\ seen # None
    /\ \E probes \in Probes :
       \E picked \in IF DoRemote THEN Picks(Buckets(seen, localNet), first) ELSE {{}} :
         contacted' = (probes \cup (peers \cap Within[localNet]) \cup picked) \ bulk
    /\ repairs' = [a \in Hosts |-> IF a \in contacted' THEN NotePendingRepair(repairs[a])
                                   ELSE repairs[a]]
    /\ seen' = None
    /\ round' = (round + 1) % RemoteInterval
    /\ UNCHANGED <<setup, netVars, peerVars, sourceVars, storeVars, calls, faults>>

\* retry_due_repairs; the due ones are sent a comparison each, while any remain.
RetryDueRepairs(due) ==
    /\ Idle
    /\ due # {} /\ \A a \in due : repairs[a] # None
    /\ repairs' = [a \in Hosts |-> IF a \notin due THEN repairs[a]
                                   ELSE IF repairs[a] + 1 > MaxRepairAttempts THEN None
                                   ELSE repairs[a] + 1]
    /\ UNCHANGED <<setup, netVars, roundVars, peerVars, sourceVars, storeVars, calls, faults>>

(***************************************************************************)
(* The receive loop.                                                       *)
(***************************************************************************)
\* PeerCap::admits, with what admit_inbound is given.
Admits(a, known) == a \in known \/ Cardinality(known) < setup.cap

Tombstone(k) == entry[k].at > 0 /\ ~entry[k].live

\* A datagram of the dated channel, with a receipt for a version of k unless it is 0,
\* or with so many updates that more must follow.
Hear(a, k, version, streams) ==
    /\ Idle
    /\ Admits(a, members)
    /\ version > 0 => Tombstone(k) /\ version <= entry[k].at
    /\ acks' = IF version > 0 THEN [acks EXCEPT ![k][a] = version] ELSE acks
    /\ IF streams THEN UsesFault /\ bulk' = bulk \cup {a} ELSE UNCHANGED <<faults, bulk>>
    /\ repairs' = [repairs EXCEPT ![a] = None]
    /\ peers' = peers \cup {a}
    /\ members' = members \cup {a}
    /\ UNCHANGED <<setup, netVars, roundVars, sourceVars, entry, writes, calls>>

\* A repair interval without updates.
BulkEnds(a) ==
    /\ a \in bulk
    /\ bulk' = bulk \ {a}
    /\ UNCHANGED <<setup, netVars, roundVars, peers, members, sourceVars, storeVars, repairs,
                   calls, faults>>

\* PEER_EXPIRATION without a word.
Expire(a) ==
    /\ UsesFault
    /\ a \in peers
    /\ peers' = peers \ {a}
    /\ UNCHANGED <<setup, netVars, roundVars, members, bulk, sourceVars, storeVars, repairs, calls>>

(***************************************************************************)
(* Calls of the application about entries and peers.                       *)
(***************************************************************************)
\* How many writes there have been.
Clock == setup.writes - writes

Write(k, live) ==
    /\ writes > 0
    /\ writes' = writes - 1
    /\ entry' = [entry EXCEPT ![k] = [at |-> Clock + 1, live |-> live]]
    /\ UNCHANGED <<setup, netVars, roundVars, peerVars, sourceVars, acks, repairs, calls, faults>>

SeedPeer(a) ==
    /\ UsesCall
    /\ peers' = peers \cup {a}
    /\ UNCHANGED <<setup, netVars, roundVars, members, bulk, sourceVars, storeVars, repairs, faults>>

DecommissionPeer(a) ==
    /\ members' = members \ {a}
    /\ peers' = peers \ {a}
    /\ acks' = [k \in Keys |-> [acks[k] EXCEPT ![a] = 0]]

ForgetPeer(a) ==
    /\ UsesCall
    /\ DecommissionPeer(a)
    /\ UNCHANGED <<setup, netVars, roundVars, bulk, sourceVars, entry, writes, repairs, faults>>

(***************************************************************************)
(* discover_periodically.  An interval passes before each answer.          *)
(***************************************************************************)
Present == [misses |-> 0, age |-> 0]

Aged(p) == IF p # None /\ p.misses > 0 THEN [p EXCEPT !.age = Min({Floor, @ + 1})] ELSE p

\* MUTANT of MarkSeen: an absence once begun goes on.
MarkSeenOnce(p) == IF p = None THEN Present ELSE p

MarkSeen(p) == Present

MarkMissed(p) == [p EXCEPT !.misses = Min({MissThreshold, @ + 1})]

\* has_pending_tombstone_acks
Owes(a, k) == Tombstone(k) /\ acks[k][a] # entry[k].at
HasPendingTombstoneAcks(a) == \E k \in Keys : Owes(a, k)

EligibleForDecommission(p, pending) ==
    p.misses >= MissThreshold /\ (pending => p.age >= Floor)

\* What an answer, or a failure when it is None, adds to the history.
Noted(a, found) ==
    IF found # None /\ a \in found THEN Present
    ELSE IF found # None /\ absent[a] # None THEN MarkMissed(Aged(absent[a]))
    ELSE Aged(absent[a])

\* The source answers: what it names is seeded, and its members are accounted for.
Discover(found) ==
    /\ setup.source /\ Idle
    /\ presence' = [a \in Hosts |-> IF a \in found THEN MarkSeen(presence[a])
                                    ELSE Aged(presence[a])]
    /\ absent' = [a \in Peers |-> Noted(a, found)]
    /\ peers' = peers \cup found
    /\ todo' = {m \in members \ found : presence[m] # None}
    /\ UNCHANGED <<setup, netVars, roundVars, members, bulk, doomed, storeVars, repairs,
                   calls, faults>>

DiscoverFails ==
    /\ setup.source /\ Idle
    /\ presence' = [a \in Hosts |-> Aged(presence[a])]
    /\ absent' = [a \in Peers |-> Noted(a, None)]
    /\ UNCHANGED <<setup, netVars, roundVars, peerVars, todo, doomed, storeVars, repairs,
                   calls, faults>>

\* A miss is counted, and the receipts still owed are looked up.
AccountFor(m) ==
    /\ m \in todo /\ doomed = None
    /\ todo' = todo \ {m}
    /\ presence' = [presence EXCEPT ![m] = MarkMissed(@)]
    /\ doomed' = IF EligibleForDecommission(presence'[m], HasPendingTombstoneAcks(m))
                 THEN [member |-> m, checked |-> Clock] ELSE None
    /\ UNCHANGED <<setup, netVars, roundVars, peerVars, absent, storeVars, repairs, calls, faults>>

Dismiss ==
    /\ doomed # None
    /\ DecommissionPeer(doomed.member)
    /\ presence' = [presence EXCEPT ![doomed.member] = None]
    /\ doomed' = None
    /\ UNCHANGED <<setup, netVars, roundVars, bulk, todo, absent, entry, writes, repairs,
                   calls, faults>>

(***************************************************************************)
(* The parts of the next-state relation that send nothing to a reader.     *)
(***************************************************************************)
NodeInit ==
    /\ setup \in Setups
    /\ nets = setup.nets /\ localNet = DeriveLocalNet(nets) /\ setting = {}
    /\ seen = None /\ round = 0 /\ contacted = {}
    /\ peers = setup.seeds /\ members = {} /\ bulk = {}
    /\ repairs = [a \in Hosts |-> None]
    /\ presence = [a \in Hosts |-> None]
    /\ absent = [a \in Peers |-> None]
    /\ todo = {} /\ doomed = None
    /\ entry = [k \in Keys |-> [at |-> 0, live |-> FALSE]]
    /\ acks = [k \in Keys |-> [a \in Hosts |-> 0]]
    /\ retunes = setup.retunes /\ calls = setup.calls
    /\ writes = setup.writes /\ faults = setup.faults

ApplicationCall ==
    \/ \E list \in NetLists : SetNets(list) \/ SetNetsReturns(list)
    \/ \E n \in Nets : AddNet(n) \/ RemoveNet(n)
    \/ \E k \in setup.keys, live \in BOOLEAN : Write(k, live)
    \/ \E a \in setup.hosts : SeedPeer(a) \/ ForgetPeer(a)

Listen ==
    \/ \E a \in Peers \cap setup.hosts, k \in setup.keys, streams \in BOOLEAN :
         \E version \in 0..entry[k].at : Hear(a, k, version, streams)
    \/ \E a \in setup.hosts : BulkEnds(a) \/ Expire(a)

Discovery ==
    \/ \E found \in SUBSET setup.hosts : Discover(found)
    \/ DiscoverFails
    \/ \E m \in todo : AccountFor(m)
    \/ Dismiss

(***************************************************************************)
(* Properties.                                                             *)
(***************************************************************************)
\* discover_periodically gives up on a member only if MissThreshold answers in a row,
\* failures not counted, left out an address it had named before; and short of the
\* floor, only if every receipt the member owes is for a deletion made by another
\* thread after the check.
OnlyLongAbsentDropped ==
    doomed # None /\ doomed.member \in members =>
        LET gone == absent[doomed.member]
        IN  /\ gone # None /\ gone.misses >= MissThreshold
            /\ \/ gone.age >= Floor
               \/ \A k \in Keys : Owes(doomed.member, k) => entry[k].at > doomed.checked

\* Rounds compare with every known peer time and again, whatever networks are
\* declared meanwhile and however set_nets, add_net and a round interleave; only a
\* peer that is sending bulk data is left alone.
KnownPeersCompared ==
    \A a \in Hosts : []<>(a \notin peers \/ a \in bulk \/ a \in contacted)

\* No repair is retried for ever, though every round notes it again: an address that
\* never answers is given up on after MAX_REPAIR_ATTEMPTS.
RepairsGiveUp == \A a \in Hosts : []<>(repairs[a] = None)
===============================================================================
