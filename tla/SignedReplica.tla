----------------------------- MODULE SignedReplica -----------------------------
(***************************************************************************)
(* The signed runtime: single-writer replicas that know one another by     *)
(* signing identity and reach one another by routes they have confirmed.   *)
(*                                                                         *)
(* An identity is a node; nodes move between addresses of the substrate,   *)
(* and a datagram goes to whoever is at its destination when it arrives.   *)
(* The provisioned roster has authorities, which write and acknowledge     *)
(* tombstones, and readers, which do neither.  A datagram is delivered at  *)
(* most once: copies are the replay filter's concern (ReplayFilter), and   *)
(* one that needs several fragments is Transfer's.                         *)
(***************************************************************************)
EXTENDS Wire, Integers, FiniteSetsExt

CONSTANTS
    Authorities, Readers,   \* sets of naturals, in the order of PeerId
    Addresses,              \* naturals, in their order
    Keys,                   \* naturals, in the order of K
    Frames,                 \* the datagrams an update of a key needs
    Turns,                  \* a multiple of every number of confirmed peers
    Setups                  \* what a behaviour starts with, see Setup

Nodes == Authorities \cup Readers

ASSUME SignedAssumption ==
    /\ Nodes \subseteq Nat /\ Keys \subseteq Nat /\ Authorities \cap Readers = {}
    /\ IsFiniteSet(Nodes) /\ IsFiniteSet(Keys)
    /\ Frames \in [Keys -> Nat \ {0}]
    /\ Nodes \subseteq Addresses /\ Addresses \subseteq Nat /\ None \notin Nat

\* The nodes and keys there are, the nodes that operators may decommission,
\* max_frames_per_tick, and bounds on writes, faults and datagrams in flight.
Setup == [nodes : SUBSET Nodes, keys : SUBSET Keys, retire : SUBSET Nodes, tick : Nat \ {0},
          writes : Nat, faults : Nat, frames : Nat]

ASSUME SetupAssumption == Setups \subseteq Setup

VARIABLES
    setup,
    addr,        \* where a node is
    up,          \* the nodes that are running
    roster,      \* authorities and readers of a node's SignedReplica
    members,     \* its causal members
    entries, acks, clock,
    confirmed, pending,      \* SignedPeerRoutes
    cursors, turn,           \* outbound_cursors and next_peer_index
    hints,       \* EndpointDiscoveryState of the owner of a node
    disk,        \* what a node has saved, or None
    net,         \* datagrams on their way
    received,    \* history: the tombstones that a node has held
    retired,     \* the peers that operators have decommissioned
    writes, faults           \* how many may still happen

rosterVars == <<up, roster, members>>
causalVars == <<entries, acks, clock, received>>
routeVars == <<confirmed, pending>>
sendVars == <<cursors, turn, hints>>
worldVars == <<setup, addr, disk, retired, writes, faults>>
vars == <<rosterVars, causalVars, routeVars, sendVars, worldVars, net>>

(***************************************************************************)
(* Entries, last writer wins.  An entry stands for its version hash.       *)
(***************************************************************************)
Newer(e, f) == e.at > f.at \/ (e.at = f.at /\ e.by > f.by)

Merge(local, remote) == IF local = None \/ Newer(remote, local) THEN remote ELSE local

Tombstone(e) == e # None /\ e.dead

NoAcks == [p \in Authorities |-> None]

RecordEntry(n, k, e) ==
    /\ entries' = [entries EXCEPT ![n][k] = e]
    /\ acks' = [acks EXCEPT ![n][k] = NoAcks]
    /\ received' = IF e.dead THEN received \cup {<<n, k, e>>} ELSE received

\* ensure_entry_fits
EntryFits(k) == Frames[k] <= setup.tick

\* insert and remove.
Write(n, k, dead) ==
    /\ n \in up \cap Authorities /\ EntryFits(k)
    /\ writes > 0 /\ writes' = writes - 1
    /\ clock' = [clock EXCEPT ![n] = @ + 1]
    /\ RecordEntry(n, k, [at |-> clock[n] + 1, by |-> n, dead |-> dead])
    /\ UNCHANGED <<rosterVars, routeVars, sendVars, setup, addr, disk, retired, faults, net>>

\* is_tombstone_stable
Stable(n, k) ==
    /\ Tombstone(entries[n][k])
    /\ \A p \in members[n] : acks[n][k][p] = entries[n][k]

(***************************************************************************)
(* Sending.                                                                *)
(***************************************************************************)
Datagram(n, to, body) == [by |-> n, from |-> addr[n], to |-> to, body |-> body]

Hello == [kind |-> "hello"]
Challenge(peer, nonce) == [kind |-> "challenge", peer |-> peer, nonce |-> nonce]
Response(peer, nonce) == [kind |-> "response", peer |-> peer, nonce |-> nonce]
Update(k, e) == [kind |-> "update", key |-> k, entry |-> e]
Ack(k, e) == [kind |-> "ack", key |-> k, entry |-> e]

Room(out) == Cardinality(net \cup out) <= setup.frames

\* The member of a set after x, around to the first; None in the empty set.
Following(S, x) ==
    LET after == {y \in S : x = None \/ y > x}
    IN  IF S = {} THEN None ELSE IF after # {} THEN Min(after) ELSE Min(S)

\* What a resolver answers that finds the nodes in found.
Resolved(found) == {addr[m] : m \in found}

\* The next candidate in a new answer.
Candidate(hint, answer) ==
    IF hint.next \in answer THEN hint.next ELSE Following(answer, None)

\* refresh, when it succeeds; an answer that misses nodes is a fault.
Refresh(n, found) ==
    LET all == setup.nodes \ {n}
        answer == Resolved(found)
    IN  /\ n \in up /\ found \subseteq all
        /\ found # all => faults > 0
        /\ faults' = IF found = all THEN faults ELSE faults - 1
        /\ hints' = [hints EXCEPT ![n] = [at |-> answer, next |-> Candidate(@, answer)]]
        /\ UNCHANGED <<rosterVars, causalVars, routeVars, cursors, turn,
                       setup, addr, disk, retired, writes, net>>

\* probe_discovered, one endpoint of the batch.
Probe(n) ==
    /\ n \in up /\ hints[n].at # {}
    /\ LET hello == Datagram(n, hints[n].next, Hello)
       IN  Room({hello}) /\ net' = net \cup {hello}
    /\ hints' = [hints EXCEPT ![n].next = Following(hints[n].at, @)]
    /\ UNCHANGED <<rosterVars, causalVars, routeVars, cursors, turn, worldVars>>

ConfirmedPeers(n) == {p \in Nodes : confirmed[n][p] # None}

Held(n) == {k \in Keys : entries[n][k] # None}

\* The key after the cursor of a peer.
NextKey(n, p) == Following(Held(n), cursors[n][p])

\* Where a peer is in confirmed_peers, rotated.
Position(n, p) ==
    (Cardinality({q \in ConfirmedPeers(n) : q < p}) - turn[n]) % Cardinality(ConfirmedPeers(n))

UpTo(n, p) == {q \in ConfirmedPeers(n) : Position(n, q) <= Position(n, p)}

\* The peers that get their next key before the first whose update does not fit.
Served(n, asked) ==
    {p \in ConfirmedPeers(n) :
       asked + MapThenSumSet(LAMBDA q : Frames[NextKey(n, q)], UpTo(n, p)) <= setup.tick}

NextUpdate(n, p) ==
    Datagram(n, confirmed[n][p], Update(NextKey(n, p), entries[n][NextKey(n, p)]))

\* MUTANT of NextTurn: the peers that a tick served go to the end.
NextTurnAfterServed(n) == (turn[n] + Cardinality(ConfirmedPeers(n))) % Turns

NextTurn(n) == (turn[n] + 1) % Turns

\* How many datagrams of a tick may go to requests for missing fragments, after a loss,
\* and leave some to others.
Requests == {0} \cup IF faults > 0 THEN 1..(setup.tick - 1) ELSE {}

\* One tick.
Reconcile(n, asked) ==
    /\ n \in up \cap Authorities
    /\ asked \in Requests
    /\ ConfirmedPeers(n) # {} /\ Held(n) # {}
    /\ faults' = IF asked = 0 THEN faults ELSE faults - 1
    /\ turn' = [turn EXCEPT ![n] = NextTurn(n)]
    /\ LET peers == Served(n, asked)
           out == {NextUpdate(n, p) : p \in peers}
       IN  /\ Room(out) /\ net' = net \cup out
           /\ cursors' = [cursors EXCEPT ![n] = [p \in Nodes |->
                            IF p \in peers THEN NextKey(n, p) ELSE @[p]]]
    /\ UNCHANGED <<rosterVars, causalVars, routeVars, hints, setup, addr, disk, retired, writes>>

(***************************************************************************)
(* Receiving.                                                              *)
(***************************************************************************)
\* A nonce is random: one that nothing in flight and no challenge mentions.
FreshNonce ==
    LET used == {d.body.nonce : d \in {x \in net : x.body.kind \in {"challenge", "response"}}}
                \cup UNION {{pending[n][p].nonce : p \in {q \in Nodes : pending[n][q] # None}} :
                              n \in Nodes}
    IN  Min((0..Cardinality(used)) \ used)

Expired(x) == x # None /\ x.old

Purged(n) == [p \in Nodes |-> IF Expired(pending[n][p]) THEN None ELSE pending[n][p]]

MaxRoutes(n) == Cardinality((setup.nodes \ {n}))

\* start_probe: nothing, or a challenge to the address the datagram came from.
StartProbe(n, d) ==
    LET P == Purged(n)
        known == P[d.by] # None /\ P[d.by].addr = d.from
        outstanding == {p \in Nodes : P[p] # None}
        full == /\ d.by \notin outstanding \cup ConfirmedPeers(n)
                /\ Cardinality(ConfirmedPeers(n)) + Cardinality(outstanding) >= MaxRoutes(n)
    IN  IF known \/ full
          THEN net' = net \ {d} /\ pending' = [pending EXCEPT ![n] = P]
          ELSE /\ pending' = [pending EXCEPT ![n] = [P EXCEPT ![d.by] =
                                [addr |-> d.from, nonce |-> FreshNonce, old |-> FALSE]]]
               /\ net' = (net \ {d}) \cup {Datagram(n, d.from, Challenge(d.by, FreshNonce))}

ReceiveUnconfirmed(n, d) ==
    /\ d.body.kind \in {"hello", "update", "ack"} /\ confirmed[n][d.by] # d.from
    /\ StartProbe(n, d)
    /\ UNCHANGED <<rosterVars, causalVars, confirmed, sendVars, worldVars>>

ReceiveChallenge(n, d) ==
    /\ d.body.kind = "challenge"
    /\ net' = (net \ {d}) \cup (IF d.body.peer = n
                                THEN {Datagram(n, d.from, Response(d.by, d.body.nonce))} ELSE {})
    /\ UNCHANGED <<rosterVars, causalVars, routeVars, sendVars, worldVars>>

Matches(n, d) ==
    /\ d.body.peer = n /\ pending[n][d.by] # None
    /\ pending[n][d.by].addr = d.from /\ pending[n][d.by].nonce = d.body.nonce
    /\ ~pending[n][d.by].old

ReceiveResponse(n, d) ==
    /\ d.body.kind = "response"
    /\ net' = net \ {d}
    /\ IF Matches(n, d)
         THEN /\ pending' = [pending EXCEPT ![n][d.by] = None]
              /\ confirmed' = [confirmed EXCEPT ![n][d.by] = d.from]
         ELSE UNCHANGED routeVars
    /\ UNCHANGED <<rosterVars, causalVars, sendVars, worldVars>>

ReceiveHello(n, d) ==
    /\ d.body.kind = "hello" /\ confirmed[n][d.by] = d.from
    /\ net' = net \ {d}
    /\ UNCHANGED <<rosterVars, causalVars, routeVars, sendVars, worldVars>>

\* apply_remote_entry
ApplyRemoteEntry(n, k, e) ==
    LET merged == Merge(entries[n][k], e)
    IN  /\ clock' = [clock EXCEPT ![n] = Max({@, e.at})]
        /\ IF merged # entries[n][k] THEN RecordEntry(n, k, merged)
                                     ELSE UNCHANGED <<entries, acks, received>>

\* Merged, and acknowledged if the outcome is a tombstone.
ReceiveUpdate(n, d) ==
    /\ d.body.kind = "update" /\ confirmed[n][d.by] = d.from
    /\ LET merged == Merge(entries[n][d.body.key], d.body.entry)
           replies == IF n \in Authorities /\ Tombstone(merged)
                      THEN {Datagram(n, confirmed[n][d.by], Ack(d.body.key, merged))} ELSE {}
       IN  IF d.by \in Authorities
             THEN /\ ApplyRemoteEntry(n, d.body.key, d.body.entry)
                  /\ net' = (net \ {d}) \cup replies
             ELSE net' = net \ {d} /\ UNCHANGED causalVars
    /\ UNCHANGED <<rosterVars, routeVars, sendVars, worldVars>>

\* MUTANT of AcceptAck: a receipt for any version counts for the one held.
AcceptAckAnyVersion(n, p, k, e) ==
    IF p \in members[n] /\ Tombstone(entries[n][k])
      THEN [acks EXCEPT ![n][k][p] = entries[n][k]] ELSE acks

AcceptAck(n, p, k, e) ==
    IF p \in members[n] /\ Tombstone(entries[n][k]) /\ entries[n][k] = e
      THEN [acks EXCEPT ![n][k][p] = e] ELSE acks

ReceiveAck(n, d) ==
    /\ d.body.kind = "ack" /\ confirmed[n][d.by] = d.from
    /\ acks' = AcceptAck(n, d.by, d.body.key, d.body.entry)
    /\ net' = net \ {d}
    /\ UNCHANGED <<rosterVars, entries, clock, received, routeVars, sendVars, worldVars>>

\* The boundary: a signer that is not, or no longer, on the roster is refused.
Admitted(n, d) == d.by \in roster[n]

Receive(n, d) ==
    /\ d \in net /\ n \in up /\ addr[n] = d.to
    /\ \/ /\ Admitted(n, d)
          /\ \/ ReceiveUnconfirmed(n, d) \/ ReceiveChallenge(n, d) \/ ReceiveResponse(n, d)
             \/ ReceiveHello(n, d) \/ ReceiveUpdate(n, d) \/ ReceiveAck(n, d)
       \/ /\ ~Admitted(n, d)
          /\ net' = net \ {d}
          /\ UNCHANGED <<rosterVars, causalVars, routeVars, sendVars, worldVars>>

(***************************************************************************)
(* Membership, snapshots and restarts.                                     *)
(***************************************************************************)
\* MUTANT of Decommission: the receipts of the peer are left.
DecommissionKeepsAcks(n, p) ==
    /\ n \in up /\ p \in roster[n] \cap setup.retire
    /\ confirmed' = [confirmed EXCEPT ![n][p] = None]
    /\ pending' = [pending EXCEPT ![n][p] = None]
    /\ cursors' = [cursors EXCEPT ![n][p] = None]
    /\ roster' = [roster EXCEPT ![n] = @ \ {p}]
    /\ members' = [members EXCEPT ![n] = @ \ {p}]
    /\ retired' = retired \cup {p}
    /\ UNCHANGED <<setup, addr, up, entries, acks, clock, received, turn, hints, disk,
                   writes, faults, net>>

Decommission(n, p) ==
    /\ n \in up /\ p \in roster[n] \cap setup.retire
    /\ confirmed' = [confirmed EXCEPT ![n][p] = None]
    /\ pending' = [pending EXCEPT ![n][p] = None]
    /\ cursors' = [cursors EXCEPT ![n][p] = None]
    /\ roster' = [roster EXCEPT ![n] = @ \ {p}]
    /\ members' = [members EXCEPT ![n] = @ \ {p}]
    /\ acks' = [acks EXCEPT ![n] = [k \in Keys |->
                  [q \in Authorities |-> IF q = p THEN None ELSE @[k][q]]]]
    /\ retired' = retired \cup {p}
    /\ UNCHANGED <<setup, addr, up, entries, clock, received, turn, hints, disk,
                   writes, faults, net>>

\* snapshot_now, when it succeeds; the generations are module SnapshotJournal's.  What is
\* saved matters only to a replica that may still stop.
Snapshot(n) ==
    /\ n \in up /\ faults > 0
    /\ disk' = [disk EXCEPT ![n] =
                  [entries |-> entries[n], members |-> members[n], acks |-> acks[n]]]
    /\ UNCHANGED <<rosterVars, causalVars, routeVars, sendVars,
                   setup, addr, retired, writes, faults, net>>

NoRoutes == [p \in Nodes |-> None]

Stop(n) ==
    /\ n \in up /\ up' = up \ {n}
    /\ faults > 0 /\ faults' = faults - 1
    /\ entries' = [entries EXCEPT ![n] = [k \in Keys |-> None]]
    /\ acks' = [acks EXCEPT ![n] = [k \in Keys |-> NoAcks]]
    /\ confirmed' = [confirmed EXCEPT ![n] = NoRoutes]
    /\ pending' = [pending EXCEPT ![n] = NoRoutes]
    /\ cursors' = [cursors EXCEPT ![n] = NoRoutes]
    /\ turn' = [turn EXCEPT ![n] = 0]
    /\ hints' = [hints EXCEPT ![n] = [at |-> {}, next |-> None]]
    /\ roster' = [roster EXCEPT ![n] = {}] /\ members' = [members EXCEPT ![n] = {}]
    /\ UNCHANGED <<setup, addr, clock, received, disk, retired, writes, net>>

Provisioned(n, gone) == setup.nodes \ ({n} \cup gone)

CausalMembers(n, config) == IF n \in Readers THEN {} ELSE config \cap Authorities

\* MUTANT of Loadable: saved members need only be provisioned ones.
LoadableSubset(n, config) ==
    disk[n] # None => disk[n].members \subseteq CausalMembers(n, config)

\* Whether new() takes what is saved for the provisioned roster.
Loadable(n, config) == disk[n] # None => disk[n].members = CausalMembers(n, config)

\* A first refresh.
FirstHints(n) ==
    LET answer == Resolved(setup.nodes \ {n}) IN [at |-> answer, next |-> Following(answer, None)]

\* new, with the roster its operator provides now, and a first refresh.  The physical
\* clock went on.
Start(n, gone) ==
    LET config == Provisioned(n, gone)
    IN  /\ n \in setup.nodes \ up /\ Loadable(n, config)
        /\ up' = up \cup {n}
        /\ roster' = [roster EXCEPT ![n] = config]
        /\ members' = [members EXCEPT ![n] = CausalMembers(n, config)]
        /\ IF disk[n] = None THEN UNCHANGED <<entries, acks>>
           ELSE /\ entries' = [entries EXCEPT ![n] = disk[n].entries]
                /\ acks' = [acks EXCEPT ![n] = disk[n].acks]
        /\ hints' = [hints EXCEPT ![n] = FirstHints(n)]
        /\ UNCHANGED <<clock, received, routeVars, cursors, turn, worldVars, net>>

(***************************************************************************)
(* The substrate.                                                          *)
(***************************************************************************)
Move(n, a) ==
    /\ \A m \in Nodes : addr[m] # a
    /\ faults > 0 /\ faults' = faults - 1
    /\ addr' = [addr EXCEPT ![n] = a]
    /\ UNCHANGED <<rosterVars, causalVars, routeVars, sendVars,
                   setup, disk, retired, writes, net>>

Lose(d) ==
    /\ faults > 0 /\ faults' = faults - 1
    /\ net' = net \ {d}
    /\ UNCHANGED <<rosterVars, causalVars, routeVars, sendVars,
                   setup, addr, disk, retired, writes>>

\* Nobody is there.
Undeliverable(d) ==
    /\ \A n \in up : addr[n] # d.to
    /\ net' = net \ {d}
    /\ UNCHANGED <<rosterVars, causalVars, routeVars, sendVars, worldVars>>

\* Challenges reach the end of their life; with datagrams on their way it is a fault.
Tick ==
    /\ \/ net = {} /\ faults' = faults
       \/ net # {} /\ faults > 0 /\ faults' = faults - 1
    /\ \E n, p \in Nodes : pending[n][p] # None /\ ~pending[n][p].old
    /\ pending' = [n \in Nodes |-> [p \in Nodes |->
                     IF pending[n][p] = None THEN None ELSE [pending[n][p] EXCEPT !.old = TRUE]]]
    /\ UNCHANGED <<rosterVars, causalVars, confirmed, sendVars,
                   setup, addr, disk, retired, writes, net>>

Init ==
    /\ setup \in Setups
    /\ writes = setup.writes /\ faults = setup.faults
    /\ addr = [n \in Nodes |-> n]
    /\ up = setup.nodes /\ retired = {} /\ net = {} /\ received = {}
    /\ roster = [n \in Nodes |-> IF n \in up THEN Provisioned(n, {}) ELSE {}]
    /\ members = [n \in Nodes |-> CausalMembers(n, roster[n])]
    /\ entries = [n \in Nodes |-> [k \in Keys |-> None]]
    /\ acks = [n \in Nodes |-> [k \in Keys |-> NoAcks]]
    /\ clock = [n \in Nodes |-> 0]
    /\ confirmed = [n \in Nodes |-> NoRoutes] /\ pending = [n \in Nodes |-> NoRoutes]
    /\ cursors = [n \in Nodes |-> NoRoutes] /\ turn = [n \in Nodes |-> 0]
    /\ hints = [n \in Nodes |-> IF n \in up THEN FirstHints(n) ELSE [at |-> {}, next |-> None]]
    /\ disk = [n \in Nodes |-> None]

Next ==
    \/ \E n \in setup.nodes, k \in setup.keys, dead \in BOOLEAN : Write(n, k, dead)
    \/ \E n \in up, found \in SUBSET setup.nodes : Refresh(n, found)
    \/ \E n \in up : Probe(n)
    \/ \E n \in up, asked \in Requests : Reconcile(n, asked)
    \/ \E n \in up, d \in net : Receive(n, d)
    \/ \E n, p \in setup.nodes : Decommission(n, p)
    \/ \E n \in up : Snapshot(n) \/ Stop(n)
    \/ \E n \in setup.nodes, gone \in {{}, retired} : Start(n, gone)
    \/ \E n \in setup.nodes, a \in Addresses : Move(n, a)
    \/ \E d \in net : Lose(d) \/ Undeliverable(d)
    \/ Tick

Spec == Init /\ [][Next]_vars

Idle(n) == n \notin up \/ ConfirmedPeers(n) = {} \/ Held(n) = {}

\* The owner of a replica resolves the others' endpoints, probes what it found and
\* reconciles time and again, and restarts a replica that stopped; datagrams arrive, so
\* that time and again none is on its way, and challenges grow old.
Fairness ==
    /\ []<>(net = {})
    /\ []<>(\A n, p \in Nodes : pending[n][p] # None => pending[n][p].old)
    /\ []<>(up = setup.nodes \/ retired # {})
    /\ \A n \in Authorities : []<><<Idle(n) \/ Reconcile(n, 0)>>_vars
    /\ \A n \in Nodes :
         /\ []<>(n \in up => hints[n].at = Resolved(setup.nodes \ {n}))
         /\ []<>(n \in up => \E d \in net : d.by = n /\ d.body = Hello)

FairSpec == Spec /\ Fairness

(***************************************************************************)
(* Properties.                                                             *)
(***************************************************************************)
\* A tombstone that is_tombstone_stable reports has been held, in exactly this version,
\* by every causal member: late receipts for other versions, restarts from snapshots and
\* a return after decommission do not count.
StableWasReceived ==
    \A n \in up, k \in Keys : Stable(n, k) =>
        \A p \in members[n] : <<p, k, entries[n][k]>> \in received

\* Only provisioned authorities gate collection, and a decommissioned peer keeps no hold:
\* no receipt, no route and no challenge, whatever it had on its way.
OutsidersHaveNoHold ==
    \A n \in up :
        /\ members[n] = CausalMembers(n, roster[n])
        /\ \A p \in Nodes \ roster[n] : /\ confirmed[n][p] = None /\ pending[n][p] = None
                                        /\ cursors[n][p] = None
        /\ \A k \in Keys, p \in Authorities : acks[n][k][p] # None => p \in members[n]

\* What a replica starts with keeps every blocker it had saved: a decommission that was
\* not saved is not completed by a restart with a shorter roster.
StartKeepsBlockers ==
    [][\A n \in up' \ up : disk[n] # None => members'[n] = disk[n].members]_vars

Agreed ==
    \A n \in setup.nodes : \A k \in Keys :
        /\ \A m \in setup.nodes : entries[n][k] = entries[m][k]
        /\ n \in Authorities /\ Tombstone(entries[n][k]) => Stable(n, k)

\* When writes and faults end, all replicas hold the same entries, readers included, and
\* every authority has every receipt, although routes went stale, challenges and
\* receipts were lost, and a tick serves only some of the peers.
AllAgree == <>[](Agreed \/ retired # {})
==============================================================================
