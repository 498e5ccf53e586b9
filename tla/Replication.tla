------------------------------ MODULE Replication ------------------------------
(***************************************************************************)
(* Authoritative nodes that replicate a map: local writes and deletions,   *)
(* their broadcast, rounds of range comparison and the repairs they lead   *)
(* to, receipts for tombstones, membership, snapshots and restarts, over a *)
(* network that delays, reorders, loses and duplicates datagrams.          *)
(*                                                                         *)
(* A datagram is handled in one step: the receive loop is one task, and    *)
(* what it decides on a snapshot of the map it decides again under the     *)
(* locks.  A local write takes its stamp in one step and replaces the      *)
(* entry in another.  A version hash is the entry it hashes; an aggregate  *)
(* is the entries it summarises.  Wall clocks do not run back across a     *)
(* restart.                                                                *)
(***************************************************************************)
EXTENDS Naturals, FiniteSets

CONSTANTS
    Nodes,        \* node ids
    Keys,
    None,
    Deletes,      \* the clock readings at which a write is a deletion
    Persistent,   \* the nodes that save snapshots, and may stop and start again
    MaxTime,      \* bound on clock readings
    MaxWrites,    \* bound on local writes
    MaxRestarts   \* bound on restarts

ASSUME ReplicationAssumption ==
    /\ Nodes \subseteq Nat
    /\ Keys # {}
    /\ {MaxTime, MaxWrites, MaxRestarts} \subseteq Nat

Entries == [time : 1..MaxTime, node : Nodes, live : BOOLEAN]

Tombs == {e \in Entries : ~e.live}

ASSUME NoEntry == None \notin Entries

VARIABLES
    store,     \* the map of each node
    clock,     \* the last reading its clock produced or observed
    write,     \* the local write that has its stamp and is not applied yet
    members,   \* the peers that spoke the dated channel
    acks,      \* tombstone_acks
    disk,      \* its last snapshot
    net,       \* datagrams ever sent
    writes, restarts,
    held       \* the tombstones each node has ever held

vars == <<store, clock, write, members, acks, disk, net, writes, restarts, held>>

Newer(a, b) == a.time > b.time \/ (a.time = b.time /\ a.node > b.node)

AsNew(x, e) == x # None /\ ~Newer(e, x)

Dead(e) == e # None /\ ~e.live

\* The entries of a map that are tombstones, the rest left out.
Tombstones(map) == [k \in Keys |-> IF Dead(map[k]) THEN map[k] ELSE None]

Maps == [Keys -> Entries \cup {None}]

Nothing == [k \in Keys |-> None]

\* An aggregate over a range of keys.
Segments == UNION {[ks -> Entries \cup {None}] : ks \in (SUBSET Keys) \ {{}}}

Datagrams ==
    [kind : {"compare"}, from : Nodes, to : Nodes, segments : SUBSET Segments, acks : Maps]
      \cup [kind : {"update"}, from : Nodes, to : Nodes, key : Keys, entry : Entries]
      \cup [kind : {"ack"}, from : Nodes, to : Nodes, acks : Maps]  \* no receipts: ConvergenceAck

Fleeting(d) == d.kind = "compare" \/ (d.kind = "ack" /\ d.acks = Nothing)

\* A comparison or ConvergenceAck that another overtakes between the same nodes is lost.
Sent(datagrams) ==
    datagrams \cup {d \in net :
        Fleeting(d) => \A e \in datagrams : Fleeting(e) => (e.from # d.from \/ e.to # d.to)}

(***************************************************************************)
(* map_insert, with the history of the tombstones a node has held.         *)
(***************************************************************************)
Put(n, k, e) ==
    /\ store' = [store EXCEPT ![n][k] = e]
    /\ held' = [held EXCEPT ![n] = @ \cup {<<k, t>> : t \in {e} \cap Tombs}]

(***************************************************************************)
(* Local writes.                                                           *)
(***************************************************************************)
\* clock_now; physical time may have moved on by any amount.
Readings(n) == (clock[n] + 1)..MaxTime

Mint(n, k) ==
    /\ write[n] = None
    /\ writes < MaxWrites
    /\ writes' = writes + 1
    /\ \E t \in Readings(n) :
         /\ clock' = [clock EXCEPT ![n] = t]
         /\ write' = [write EXCEPT ![n] =
                        [key |-> k,
                         entry |-> [time |-> t, node |-> n, live |-> t \notin Deletes]]]
    /\ UNCHANGED <<store, members, acks, disk, net, restarts, held>>

\* just_insert, then broadcast.
Apply(n) ==
    /\ write[n] # None
    /\ LET k == write[n].key
           e == write[n].entry
       IN  /\ Put(n, k, e)
           /\ net' = Sent({[kind |-> "update", from |-> n, to |-> m, key |-> k, entry |-> e]
                          : m \in Nodes \ {n}})
    /\ write' = [write EXCEPT ![n] = None]
    /\ UNCHANGED <<clock, members, acks, disk, writes, restarts>>

(***************************************************************************)
(* Rounds.                                                                 *)
(***************************************************************************)
\* MUTANT of Receipts: acknowledgements are only sent in answer to an update.
ReceiptsOnce(n) == Nothing

\* resend_held_tombstone_acks
Receipts(n) == Tombstones(store[n])

\* start_reconciliation with one of its targets.
StartReconciliation(n, m) ==
    /\ n # m
    /\ net' = Sent({[kind |-> "compare", from |-> n, to |-> m,
                          segments |-> {store[n]}, acks |-> Receipts(n)]})
    /\ UNCHANGED <<store, clock, write, members, acks, disk, writes, restarts, held>>

(***************************************************************************)
(* handle_messages.                                                        *)
(***************************************************************************)
\* Only receipts for keys that hold a tombstone are kept.
RecordTombstoneAcks(n, from, got) ==
    acks' = [acks EXCEPT ![n] =
        [k \in Keys |-> IF got[k] # None /\ Dead(store[n][k])
                        THEN [@[k] EXCEPT ![from] = got[k]] ELSE @[k]]]

Differs(n, segment) == \E k \in DOMAIN segment : segment[k] # store[n][k]

Mine(n, keys) == [k \in keys |-> store[n][k]]

Empty(segment) == \A k \in DOMAIN segment : segment[k] = None

\* MUTANT of ToList: a range in which the peer has nothing is taken for settled.
ToListUnlessEmpty(n, listed) == {s \in listed : ~Empty(s)}

\* The ranges whose entries are sent to the peer.
ToList(n, listed) == listed

\* rbsr::protocol_round: a range that differs is split, or its entries are listed
\* and those of the peer asked for.
HandleDatedComparison(n, d) ==
    LET differing == {s \in d.segments : Differs(n, s)}
    IN  \E listed \in SUBSET differing :
          /\ \A s \in differing : Cardinality(DOMAIN s) = 1 => s \in listed
          /\ LET out == (UNION {{Mine(n, {k}) : k \in DOMAIN s} : s \in differing \ listed})
                          \cup {[k \in DOMAIN s |-> None] : s \in {t \in listed : ~Empty(t)}}
                 keys == {k \in UNION {DOMAIN s : s \in ToList(n, listed)} : store[n][k] # None}
             IN  net' = Sent(
                   {[kind |-> "compare", from |-> n, to |-> d.from, segments |-> o,
                     acks |-> Nothing] : o \in {out} \ {{}}}
                   \cup {[kind |-> "update", from |-> n, to |-> d.from, key |-> k,
                          entry |-> store[n][k]] : k \in keys}
                   \cup {[kind |-> "ack", from |-> n, to |-> d.from, acks |-> Nothing]
                          : s \in {x \in {differing} : x = {}}})

\* MUTANT of Merged: whatever arrives replaces what is held.
MergedBlindly(old, e) == e

\* The later of two entries of a key.
Merged(old, e) == IF old = None \/ Newer(e, old) THEN e ELSE old

\* MUTANT of Acknowledged: the receipt names what was received, not what is held.
AcknowledgedAsReceived(merged, e) == e

\* The version a receipt for an update names.
Acknowledged(merged, e) == merged

\* One update of the batch; the clock observes its stamp, and if the key holds a
\* tombstone now its sender gets a receipt.
ApplyDatedUpdate(n, d) ==
    LET merged == Merged(store[n][d.key], d.entry)
        receipt == Acknowledged(merged, d.entry)
    IN  /\ Put(n, d.key, merged)
        /\ clock' = [clock EXCEPT ![n] = IF d.entry.time > @ THEN d.entry.time ELSE @]
        /\ net' = Sent({[kind |-> "ack", from |-> n, to |-> d.from,
                         acks |-> [Nothing EXCEPT ![d.key] = e]] : e \in {receipt} \cap Tombs})

\* The receive loop; whoever spoke the dated channel becomes a member.
Receive(d) ==
    LET n == d.to
    IN  /\ \/ /\ d.kind = "compare"
              /\ RecordTombstoneAcks(n, d.from, d.acks)
              /\ HandleDatedComparison(n, d)
              /\ UNCHANGED <<store, clock, held>>
           \/ /\ d.kind = "update"
              /\ ApplyDatedUpdate(n, d)
              /\ UNCHANGED acks
           \/ /\ d.kind = "ack"
              /\ RecordTombstoneAcks(n, d.from, d.acks)
              /\ UNCHANGED net
              /\ UNCHANGED <<store, clock, held>>
        /\ members' = [members EXCEPT ![n] = @ \cup {d.from}]
        /\ UNCHANGED <<write, disk, writes, restarts>>

(***************************************************************************)
(* Collection of tombstones, past their retention.                         *)
(***************************************************************************)
Stable(n, k) == \A m \in members[n] : acks[n][k][m] = store[n][k]

\* MUTANT of HasCollectionProof: receipts from every member are proof enough.
ReceiptsAreProof == TRUE

HasCollectionProof == FALSE

\* gc_collect
GcCollect(n, k) ==
    /\ Dead(store[n][k])
    /\ IF HasCollectionProof /\ Stable(n, k)
       THEN /\ store' = [store EXCEPT ![n][k] = None]
            /\ acks' = [acks EXCEPT ![n][k] = [m \in Nodes |-> None]]
       ELSE UNCHANGED <<store, acks>>
    /\ UNCHANGED <<clock, write, members, disk, net, writes, restarts, held>>

(***************************************************************************)
(* Snapshots and restarts.                                                 *)
(***************************************************************************)
Snapshot(n) ==
    /\ n \in Persistent
    /\ restarts < MaxRestarts
    /\ disk' = [disk EXCEPT ![n] = [entries |-> store[n], members |-> members[n],
                                    acks |-> acks[n]]]
    /\ UNCHANGED <<store, clock, write, members, acks, net, writes, restarts, held>>

Restart(n) ==
    /\ n \in Persistent
    /\ restarts < MaxRestarts
    /\ restarts' = restarts + 1
    /\ store' = [store EXCEPT ![n] = disk[n].entries]
    /\ members' = [members EXCEPT ![n] = disk[n].members]
    /\ acks' = [acks EXCEPT ![n] = disk[n].acks]
    /\ write' = [write EXCEPT ![n] = None]
    /\ UNCHANGED <<clock, disk, net, writes, held>>

NoAcks == [k \in Keys |-> [m \in Nodes |-> None]]

Init ==
    /\ store = [n \in Nodes |-> Nothing]
    /\ clock = [n \in Nodes |-> 0]
    /\ write = [n \in Nodes |-> None]
    /\ members = [n \in Nodes |-> {}]
    /\ acks = [n \in Nodes |-> NoAcks]
    /\ disk = [n \in Nodes |-> [entries |-> Nothing, members |-> {}, acks |-> NoAcks]]
    /\ net = {}
    /\ writes = 0
    /\ restarts = 0
    /\ held = [n \in Nodes |-> {}]

Next ==
    \/ \E n \in Nodes, k \in Keys : Mint(n, k) \/ GcCollect(n, k)
    \/ \E n \in Nodes : Apply(n) \/ Snapshot(n) \/ Restart(n)
    \/ \E n, m \in Nodes : StartReconciliation(n, m)
    \/ \E d \in net : Receive(d)

\* A comparison of ranges of one size, or an update of one key, arrives while it
\* still says what its sender has.
CurrentComparison(n, m, size) ==
    \E d \in net :
        /\ d.kind = "compare" /\ d.from = n /\ d.to = m
        /\ \A s \in d.segments : Cardinality(DOMAIN s) = size /\ ~Differs(n, s)
        /\ d.acks = Nothing \/ d.acks = Receipts(n)
        /\ Receive(d)

CurrentUpdate(n, m, k) ==
    \E d \in net :
        /\ d.kind = "update" /\ d.from = n /\ d.to = m
        /\ d.key = k /\ d.entry = store[n][k]
        /\ Receive(d)

\* Every node keeps starting rounds with every other, and a comparison or an update
\* that its sender keeps repeating arrives in the end; calls need not return, and
\* acknowledgements, and whatever is out of date, may all be lost.
Fairness ==
    \A n \in Nodes : \A m \in Nodes \ {n} :
        /\ WF_vars(StartReconciliation(n, m))
        /\ \A size \in 1..Cardinality(Keys) : SF_vars(CurrentComparison(n, m, size))
        /\ \A k \in Keys : WF_vars(CurrentUpdate(n, m, k))

Spec == Init /\ [][Next]_vars

FairSpec == Spec /\ Fairness

(***************************************************************************)
(* Properties.                                                             *)
(***************************************************************************)
\* Maps, receipts and datagrams keep their shapes.
TypeOK ==
    /\ store \in [Nodes -> Maps]
    /\ clock \in [Nodes -> 0..MaxTime]
    /\ write \in [Nodes -> [key : Keys, entry : Entries] \cup {None}]
    /\ members \in [Nodes -> SUBSET Nodes]
    /\ acks \in [Nodes -> [Keys -> [Nodes -> Entries \cup {None}]]]
    /\ disk \in [Nodes -> [entries : Maps, members : SUBSET Nodes,
                           acks : [Keys -> [Nodes -> Entries \cup {None}]]]]
    /\ net \subseteq Datagrams
    /\ writes \in 0..MaxWrites
    /\ restarts \in 0..MaxRestarts
    /\ held \in [Nodes -> SUBSET (Keys \X Entries)]

\* A receipt on record, however late or often it came, names a tombstone its
\* sender really held: evidence is never about what was merely received.
ReceiptsAreHonest ==
    \A n, m \in Nodes, k \in Keys :
        acks[n][k][m] # None => <<k, acks[n][k][m]>> \in held[m]

\* A datagram never brings a deleted key back: a node that has held a tombstone and
\* did not itself write over it shows no older value it is sent, however delayed.
DeletionSticks ==
    [][restarts' = 0 =>
         \A n \in Nodes : write'[n] = write[n] =>
            \A h \in held[n] :
                LET before == store[n][h[1]]
                    after == store'[n][h[1]]
                IN  (before = None \/ AsNew(before, h[2])) /\ after # None
                        => AsNew(after, h[2])]_vars

\* While nobody restarts, the author of an entry held anywhere still holds it, or a
\* newer one, although a node may replace a newer entry it was sent by an older write
\* of its own: no write is lost to that race, it is only set back on one node.
AuthorKeepsIt ==
    restarts = 0 =>
        \A n \in Nodes, k \in Keys :
            LET e == store[n][k]
            IN  e # None => AsNew(store[e.node][k], e)

\* Once the writes are over the maps become equal and stay equal.
Converges == <>[](\A n, m \in Nodes : store[n] = store[m])

\* The receipts for a tombstone are complete again and again on every node that
\* keeps it, although a late receipt for an older one may undo them for a while.
ReceiptsComplete ==
    \A n \in Nodes, k \in Keys : []<>(Dead(store[n][k]) => Stable(n, k))
================================================================================
