----------------------------- MODULE ReadReplica -----------------------------
(***************************************************************************)
(* ReadReplicaMap: replicas that hold values without stamps, and ask a     *)
(* full replica for them over the value-only channel.  Self, the full      *)
(* replica, is that of Neighbours; the datagrams between it and the        *)
(* readers are lost, delayed and reordered.                                *)
(***************************************************************************)
EXTENDS Neighbours

CONSTANT MaxInFlight     \* the datagrams in flight when a round or a repair starts

VARIABLES
    tree,        \* the state a reader holds for each key, or None
    known,       \* the peers of a reader that have not expired
    wire         \* datagrams, the oldest first

readerVars == <<tree, known>>
vars == <<nodeVars, readerVars, wire>>

Datagram(kind, from, to, body) == [kind |-> kind, from |-> from, to |-> to, body |-> body]

\* The same message to each of some addresses.
ToEach(kind, from, body, addresses) ==
    LET each == CHOOSE s \in Bijection(1..Cardinality(addresses), addresses) : TRUE
    IN  [i \in DOMAIN each |-> Datagram(kind, from, each[i], body)]

Others(i) == SubSeq(wire, 1, i - 1) \o SubSeq(wire, i + 1, Len(wire))

(***************************************************************************)
(* The range comparison, on states.  A range is the set of its keys, with  *)
(* what the sender holds for them in place of their fingerprint.           *)
(***************************************************************************)
\* Entry::project: the stamp is dropped, and tombstones are all alike.
Project(e) == IF e.at = 0 THEN None ELSE IF e.live THEN e.at ELSE 0

Projection == [k \in Keys |-> Project(entry[k])]

Empty(range) == \A k \in DOMAIN range : range[k] = None

Differing(held, ranges) == {r \in ranges : \E k \in DOMAIN r : r[k] # held[k]}

\* Which of the ranges that differ are listed rather than split.
Listings(differing) ==
    {l \in SUBSET differing : \A r \in differing : Cardinality(DOMAIN r) = 1 => r \in l}

\* The ranges sent back: the parts of those split, and a request for those listed.
Refined(held, differing, listed) ==
    (UNION {{[j \in {k} |-> held[k]] : k \in DOMAIN r} : r \in differing \ listed})
      \cup {[k \in DOMAIN r |-> None] : r \in {s \in listed : ~Empty(s)}}

\* The states in the ranges listed.
Enumerated(held, listed) ==
    LET keys == {k \in UNION {DOMAIN r : r \in listed} : held[k] # None}
    IN  [k \in keys |-> held[k]]

Bounced(from, to, held, differing, listed) ==
    LET out == Refined(held, differing, listed)
    IN  IF out = {} THEN <<>> ELSE <<Datagram("ranges", from, to, out)>>

Dumped(to, listed) ==
    LET states == Enumerated(Projection, listed)
    IN  IF DOMAIN states = {} THEN <<>> ELSE <<Datagram("states", Self, to, states)>>

(***************************************************************************)
(* The full replica.                                                       *)
(***************************************************************************)
\* MUTANT of SpokeDated: whatever it says, the sender has spoken.
SpokeAtAll(d) == TRUE

SpokeDated(d) == d.kind = "dated"

\* handle_value_comparison, unless the dump finds no slot or is not admitted.
HandleValueComparison(i, d) ==
    LET differing == Differing(Projection, d.body)
    IN  \E listed \in Listings(differing) :
          LET out == Bounced(Self, d.from, Projection, differing, listed)
              dump == Dumped(d.from, listed)
          IN  \/ wire' = Others(i) \o out \o dump /\ UNCHANGED faults
              \/ dump # <<>> /\ UsesFault /\ wire' = Others(i) \o out

\* A datagram of a reader.
NodeReceives(i) ==
    LET d == wire[i]
    IN  /\ d.to = Self /\ Idle
        /\ IF Admits(d.from, members)
           THEN /\ HandleValueComparison(i, d)
                /\ repairs' = [repairs EXCEPT ![d.from] = None]
                /\ peers' = IF SpokeDated(d) THEN peers \cup {d.from} ELSE peers
                /\ members' = IF SpokeDated(d) THEN members \cup {d.from} ELSE members
           ELSE wire' = Others(i) /\ UNCHANGED <<faults, repairs, peers, members>>
        /\ UNCHANGED <<setup, netVars, roundVars, bulk, sourceVars, storeVars, calls, readerVars>>

\* Rounds and repairs send comparisons of the dated channel to readers too.
NodeSends(addresses) ==
    /\ wire' = wire \o ToEach("dated", Self, {}, addresses \cap Readers)
    /\ UNCHANGED readerVars

NodeStarts == Len(wire) <= MaxInFlight /\ StartRound /\ UNCHANGED <<readerVars, wire>>

NodeRound(first) == Reconcile(first) /\ NodeSends(contacted')

NodeRepairs(due) ==
    /\ Len(wire) <= MaxInFlight
    /\ RetryDueRepairs(due)
    /\ NodeSends({a \in due : repairs'[a] # None})

(***************************************************************************)
(* The readers.                                                            *)
(***************************************************************************)
\* start_reconciliation_inner: to every known peer and a random address.
ReaderRound(r, probe) ==
    /\ Len(wire) <= MaxInFlight
    /\ wire' = wire \o ToEach("ranges", r, {tree[r]},
                              (known[r] \cup {probe}) \cap ((setup.hosts \cup {Self}) \ {r}))
    /\ UNCHANGED <<nodeVars, readerVars>>

\* MUTANT of Integrated: a key that is held is not touched.
IntegratedIfMissing(held, states) ==
    [k \in Keys |-> IF k \in DOMAIN states /\ held[k] = None THEN states[k] ELSE held[k]]

\* integrate: by plain overwrite.
Integrated(held, states) == [k \in Keys |-> IF k \in DOMAIN states THEN states[k] ELSE held[k]]

\* handle_messages: what a reader would have to list, it drops.
HandleMessages(r, i, d) ==
    \/ d.kind = "dated" /\ wire' = Others(i) /\ UNCHANGED tree
    \/ d.kind = "states" /\ wire' = Others(i)
         /\ tree' = [tree EXCEPT ![r] = Integrated(@, d.body)]
    \/ /\ d.kind = "ranges"
       /\ LET differing == Differing(tree[r], d.body)
          IN  \E listed \in Listings(differing) :
                wire' = Others(i) \o Bounced(r, d.from, tree[r], differing, listed)
       /\ UNCHANGED tree

\* The receive loop of a reader; whoever completes a payload is a known peer.
ReaderReceives(i) ==
    LET d == wire[i]
        r == d.to
    IN  /\ r \in Readers
        /\ IF Admits(d.from, known[r])
           THEN HandleMessages(r, i, d) /\ known' = [known EXCEPT ![r] = @ \cup {d.from}]
           ELSE wire' = Others(i) /\ UNCHANGED readerVars
        /\ UNCHANGED nodeVars

\* Its discovery source, or a call of seed_peer.
ReaderDiscovers(r, found) ==
    /\ setup.source
    /\ known' = [known EXCEPT ![r] = @ \cup (found \ {r})]
    /\ UNCHANGED <<nodeVars, tree, wire>>

ReaderExpires(r, a) ==
    /\ UsesFault
    /\ a \in known[r]
    /\ known' = [known EXCEPT ![r] = @ \ {a}]
    /\ UNCHANGED <<setup, netVars, roundVars, peerVars, sourceVars, storeVars, repairs, calls,
                   tree, wire>>

Lose(i) ==
    /\ UsesFault
    /\ wire' = Others(i)
    /\ UNCHANGED <<setup, netVars, roundVars, peerVars, sourceVars, storeVars, repairs, calls,
                   readerVars>>

(***************************************************************************)
(* The specification.                                                      *)
(***************************************************************************)
Init ==
    /\ NodeInit
    /\ tree = [r \in Readers |-> [k \in Keys |-> None]]
    /\ known = [r \in Readers |-> {}]
    /\ wire = <<>>

Local == (ApplicationCall \/ Listen \/ Discovery) /\ UNCHANGED <<readerVars, wire>>

Next ==
    \/ Local \/ NodeStarts
    \/ \E a \in setup.hosts : NodeRound(a)
    \/ \E due \in SUBSET setup.hosts : NodeRepairs(due)
    \/ \E r \in Readers \cap setup.hosts :
         \/ \E probe \in setup.reach \cup {None} : ReaderRound(r, probe)
         \/ \E found \in SUBSET (setup.hosts \cup {Self}) : ReaderDiscovers(r, found)
         \/ \E a \in known[r] : ReaderExpires(r, a)
    \/ \E i \in DOMAIN wire : NodeReceives(i) \/ ReaderReceives(i) \/ Lose(i)

Spec == Init /\ [][Next]_vars

\* A call returns and a discovery round ends; rounds and the repair timer go on, and
\* each host comes first in the shuffle of some cross-network rounds; no datagram is
\* in flight for ever.
NodeFairness ==
    /\ []<>(setting = {} /\ todo = {} /\ doomed = None)
    /\ \A a \in Hosts : []<><<a \notin setup.hosts \/ (DoRemote /\ Reconcile(a))>>_vars
    /\ \A a \in Hosts :
         []<><<repairs[a] = None \/ \E due \in SUBSET Hosts : a \in due /\ RetryDueRepairs(due)>>_vars
    /\ []<><<wire = <<>> \/ NodeReceives(1) \/ ReaderReceives(1)>>_vars

\* A reader that can find Self, in the network it probes or among its peers, starts
\* rounds with it, and its discovery source names it.
ReaderFairness ==
    \A r \in Readers :
      /\ []<><<Self \notin setup.reach \cup known[r] \/ r \notin setup.hosts
                 \/ ReaderRound(r, IF Self \in setup.reach THEN Self ELSE None)>>_vars
      /\ []<><<~setup.source \/ Self \in known[r] \/ r \notin setup.hosts
                 \/ ReaderDiscovers(r, {Self})>>_vars

FairSpec == Spec /\ NodeFairness /\ ReaderFairness

(***************************************************************************)
(* Properties.                                                             *)
(***************************************************************************)
\* A reader never becomes a member whose receipts a full replica waits for, though
\* discovery seeds it, rounds probe it and it answers on the value-only channel.
ReadersNeverGate == members \cap Readers = {}

\* Once the writes are over, every reader comes to hold what the full replica does and
\* keeps to it: lost and late updates, which overwrite newer ones, are made good.  This
\* takes that each admits the other: a full replica that has max_peers members hears
\* no reader, and a reader that has max_peers other peers does not hear it.
ReadersConverge ==
    \A r \in Readers :
        \/ []<>~(Admits(r, members) /\ Admits(Self, known[r]))
        \/ <>[](r \in setup.hosts => tree[r] = Projection)
==============================================================================
