--------------------------- MODULE SnapshotJournal ---------------------------
(***************************************************************************)
(* The durable side of one replica: the in-memory map, membership and      *)
(* tombstone receipts, the two-generation journal that records every       *)
(* change made to them, and the snapshot procedure that moves frozen       *)
(* generations to a durable backend while writers keep running.            *)
(*                                                                         *)
(* Every mutation takes the generation mutex for its whole body, so it is  *)
(* one step.  A snapshot is many steps: freeze, ask the backend for an     *)
(* incremental commit, possibly collect a full cut and save it, retire the *)
(* change count, commit the generation.  Crashes may fall between any two. *)
(***************************************************************************)
EXTENDS Snapshot, Naturals, FiniteSets

CONSTANTS
    Peers,            \* the addresses that may become members
    Live,             \* entries holding a value
    Tombs,            \* entries that are tombstones; a version hash is the tombstone
    Same,             \* what a generation says of an item it does not touch
    CollectionProof,  \* has_collection_proof(): FALSE in the released code
    Threshold,        \* Config::snapshot_change_threshold
    LateErrors,       \* may a save fail after its manifest became visible?
    MaxChanges        \* bound on the changes not yet retired

Entries == Live \cup Tombs

VARIABLES
    mem,      \* map, members and tombstone_acks of the running node
    open,     \* GenerationState.open
    frozen,   \* GenerationState.frozen; NoGeneration when it is None
    changes,  \* changes_since_snapshot
    stage,    \* where the snapshot procedure is; snapshot_lock admits one at a time
    job,      \* the generation the running snapshot froze (a local of snapshot_inner)
    cut,      \* the full state it collected for the fallback save (likewise)
    disk      \* what the backend's load() would return

journalVars == <<mem, open, frozen, changes, stage, job, cut, disk>>

(***************************************************************************)
(* Persisted states and journal generations.  The keyed maps of the code   *)
(* become total functions: None marks a missing item, and Same an item the *)
(* generation has no record of.                                            *)
(***************************************************************************)
PersistedStates ==
    [entries : [Keys -> Entries \cup {None}],
     members : SUBSET Peers,
     acks    : [Keys -> [Peers -> Tombs \cup {None}]]]

ASSUME JournalAssumption ==
    /\ IsFiniteSet(Keys)
    /\ IsFiniteSet(Peers)
    /\ None \notin Entries
    /\ Same \notin Entries \cup {None}
    /\ None \notin PersistedStates
    /\ CollectionProof \in BOOLEAN
    /\ LateErrors \in BOOLEAN
    /\ Threshold \in Nat
    /\ MaxChanges \in Nat

SnapshotGenerations ==
    [entries : [Keys -> Entries \cup {None, Same}],
     joined  : SUBSET Peers,
     left    : SUBSET Peers,
     clears  : SUBSET Keys,
     acks    : [Keys -> [Peers -> Tombs \cup {None, Same}]],
     raw     : Nat]

EmptyState ==
    [entries |-> [k \in Keys |-> None],
     members |-> {},
     acks    |-> [k \in Keys |-> [p \in Peers |-> None]]]

NoGeneration ==
    [entries |-> [k \in Keys |-> Same],
     joined  |-> {},
     left    |-> {},
     clears  |-> {},
     acks    |-> [k \in Keys |-> [p \in Peers |-> Same]],
     raw     |-> 0]

\* f with the values g gives to the points it is defined on.
Override(f, g) == [x \in DOMAIN f |-> IF x \in DOMAIN g THEN g[x] ELSE f[x]]

\* apply_delta: entries, then members, then key clears, then single receipts.
Overlay(state, gen) ==
    [entries |-> [k \in Keys |-> IF gen.entries[k] = Same THEN state.entries[k]
                                                          ELSE gen.entries[k]],
     members |-> (state.members \cup gen.joined) \ gen.left,
     acks    |-> [k \in Keys |-> [p \in Peers |->
                    IF gen.acks[k][p] # Same THEN gen.acks[k][p]
                    ELSE IF k \in gen.clears THEN None
                    ELSE state.acks[k][p]]]]

\* The state load() returns, where a backend never saved to recovers nothing.
Durable == IF disk = None THEN EmptyState ELSE disk

(***************************************************************************)
(* The records a mutation appends to the open generation.                  *)
(***************************************************************************)
RecordEntries(gen, upd) ==
    [gen EXCEPT !.entries = Override(@, upd), !.raw = @ + Cardinality(DOMAIN upd)]

RecordMember(gen, peer) ==
    [gen EXCEPT !.joined = @ \cup {peer}, !.left = @ \ {peer}, !.raw = @ + 1]

RecordAcks(gen, peer, upd) ==
    [gen EXCEPT !.acks = [k \in Keys |-> IF k \in DOMAIN upd
                                         THEN [@[k] EXCEPT ![peer] = upd[k]]
                                         ELSE @[k]],
                !.raw = @ + Cardinality(DOMAIN upd)]

RecordDeparture(gen, gone, peer, keys) ==
    LET acked == RecordAcks(gen, peer, [k \in keys |-> None])
    IN  [acked EXCEPT !.joined = @ \ gone, !.left = @ \cup gone, !.raw = @ + Cardinality(gone)]

RecordAckKeyClears(gen, keys) ==
    [gen EXCEPT !.clears = @ \cup keys,
                !.acks = [k \in Keys |-> IF k \in keys THEN [p \in Peers |-> Same] ELSE @[k]],
                !.raw = @ + Cardinality(keys)]

(***************************************************************************)
(* Mutations.  Each holds the generation mutex from before its first       *)
(* assignment until after record_changes.                                  *)
(***************************************************************************)
Room(n) == changes + n <= MaxChanges

\* just_insert, just_insert_bulk and the locked half of apply_dated_updates:
\* what the map is given, however it was decided.
WriteEntries(upd) ==
    /\ Room(Cardinality(DOMAIN upd))
    /\ mem' = [mem EXCEPT !.entries = Override(@, upd)]
    /\ open' = RecordEntries(open, upd)
    /\ changes' = changes + Cardinality(DOMAIN upd)
    /\ UNCHANGED <<frozen, stage, job, cut, disk>>

\* A dated sender joins the membership once its datagram has been handled.
AddMember(peer) ==
    /\ peer \notin mem.members
    /\ Room(1)
    /\ mem' = [mem EXCEPT !.members = @ \cup {peer}]
    /\ open' = RecordMember(open, peer)
    /\ changes' = changes + 1
    /\ UNCHANGED <<frozen, stage, job, cut, disk>>

\* The receipts of one datagram that are for held tombstones and say something
\* new; the others change nothing.
NewReceipts(peer, receipts) ==
    {k \in DOMAIN receipts : /\ mem.entries[k] \in Tombs
                             /\ mem.acks[k][peer] # receipts[k]}

RecordTombstoneAcks(peer, receipts) ==
    LET upd == [k \in NewReceipts(peer, receipts) |-> receipts[k]]
    IN  /\ DOMAIN upd # {}
        /\ Room(Cardinality(DOMAIN upd))
        /\ mem' = [mem EXCEPT !.acks = [k \in Keys |-> IF k \in DOMAIN upd
                                           THEN [@[k] EXCEPT ![peer] = upd[k]]
                                           ELSE @[k]]]
        /\ open' = RecordAcks(open, peer, upd)
        /\ changes' = changes + Cardinality(DOMAIN upd)
        /\ UNCHANGED <<frozen, stage, job, cut, disk>>

DecommissionPeer(peer) ==
    LET acked == {k \in Keys : mem.acks[k][peer] # None}
        gone == mem.members \cap {peer}
        n == Cardinality(acked) + Cardinality(gone)
    IN  /\ n > 0
        /\ Room(n)
        /\ mem' = [mem EXCEPT !.members = @ \ gone,
                              !.acks = [k \in Keys |-> [@[k] EXCEPT ![peer] = None]]]
        /\ open' = RecordDeparture(open, gone, peer, acked)
        /\ changes' = changes + n
        /\ UNCHANGED <<frozen, stage, job, cut, disk>>

\* all_members_acknowledged for the tombstone the key holds.
Stable(key) == \A p \in mem.members : mem.acks[key][p] = mem.entries[key]

HasCollectionProof == CollectionProof

\* gc_collect: the conditional local transaction behind the collection gate.
\* Retention has run out.  An ack map decommission_peer emptied may still be
\* there, so the key may be cleared even when it holds no receipt.
CollectCandidate(key) ==
    /\ HasCollectionProof
    /\ mem.entries[key] \in Tombs
    /\ Stable(key)
    /\ \E cleared \in SUBSET {key} :
         /\ (\E p \in Peers : mem.acks[key][p] # None) => key \in cleared
         /\ Room(1 + Cardinality(cleared))
         /\ open' = RecordAckKeyClears(RecordEntries(open, [k \in {key} |-> None]), cleared)
         /\ changes' = changes + 1 + Cardinality(cleared)
    /\ mem' = [mem EXCEPT !.entries[key] = None,
                          !.acks[key] = [p \in Peers |-> None]]
    /\ UNCHANGED <<frozen, stage, job, cut, disk>>

(***************************************************************************)
(* snapshot_inner, one step per point another thread can run at.           *)
(***************************************************************************)
\* Mutant: the open generation replaces one that is kept for a retry.
FreezeDropsKeptGeneration ==
    /\ stage = "idle"
    /\ stage' = "delta"
    /\ IF open.raw > 0 THEN frozen' = open /\ open' = NoGeneration
                       ELSE UNCHANGED <<open, frozen>>
    /\ job' = frozen'
    /\ UNCHANGED <<mem, changes, cut, disk>>

SnapshotFreeze ==
    /\ stage = "idle"
    /\ stage' = "delta"
    /\ IF frozen = NoGeneration /\ open.raw > 0
       THEN frozen' = open /\ open' = NoGeneration
       ELSE UNCHANGED <<open, frozen>>
    /\ job' = frozen'
    /\ UNCHANGED <<mem, changes, cut, disk>>

\* The background task: snapshot_now and the shutdown flush have no threshold.
SnapshotPeriodically == changes >= Threshold /\ SnapshotFreeze

\* Mutant: Ok(false) is taken for Ok(true).
DeclinedTakenForCommitted ==
    /\ stage = "delta"
    /\ disk = None \/ job # NoGeneration
    /\ stage' = "retire"
    /\ UNCHANGED <<mem, open, frozen, changes, job, cut, disk>>

\* Ok(false): no manifest yet, or the delta chain is due for materialization.
DeltaDeclined ==
    /\ stage = "delta"
    /\ disk = None \/ job # NoGeneration
    /\ stage' = "collect"
    /\ UNCHANGED <<mem, open, frozen, changes, job, cut, disk>>

\* Mutant: the delta written is the open generation, not the frozen one.
OpenGenerationCommitted ==
    /\ stage = "delta"
    /\ disk # None
    /\ disk' = Overlay(disk, open)
    /\ stage' = "retire"
    /\ UNCHANGED <<mem, open, frozen, changes, job, cut>>

\* Ok(true): the delta is durable.  Without a delta there is nothing to do.
DeltaCommitted ==
    /\ stage = "delta"
    /\ disk # None
    /\ disk' = Overlay(disk, job)
    /\ stage' = "retire"
    /\ UNCHANGED <<mem, open, frozen, changes, job, cut>>

CollectPersistedState ==
    /\ stage = "collect"
    /\ cut' = mem
    /\ stage' = "save"
    /\ UNCHANGED <<mem, open, frozen, changes, job, disk>>

FullSaved ==
    /\ stage = "save"
    /\ disk' = cut
    /\ cut' = EmptyState
    /\ stage' = "retire"
    /\ UNCHANGED <<mem, open, frozen, changes, job>>

\* What the backend shows after the write in progress took effect.
Attempted == IF stage = "save" THEN cut ELSE Overlay(disk, job)

\* Err: the frozen generation is kept for the next attempt.  The error may be
\* that of the directory sync that follows the rename of the manifest.
SaveFailed ==
    /\ stage \in {"delta", "save"}
    /\ stage' = "idle"
    /\ \/ disk' = disk
       \/ LateErrors /\ (stage = "delta" => disk # None) /\ disk' = Attempted
    /\ job' = NoGeneration
    /\ cut' = EmptyState
    /\ UNCHANGED <<mem, open, frozen, changes>>

\* Mutant: the count is reset, forgetting writes that ran during the save.
RetireResetsCount ==
    /\ stage = "retire"
    /\ changes' = 0
    /\ stage' = "commit"
    /\ UNCHANGED <<mem, open, frozen, job, cut, disk>>

RetireChangeCount ==
    /\ stage = "retire"
    /\ changes' = IF changes >= job.raw THEN changes - job.raw ELSE 0
    /\ stage' = "commit"
    /\ UNCHANGED <<mem, open, frozen, job, cut, disk>>

\* commit() clears the frozen generation if it is the one this snapshot froze.
CommitGeneration ==
    /\ stage = "commit"
    /\ frozen' = IF frozen = job THEN NoGeneration ELSE frozen
    /\ stage' = "idle"
    /\ job' = NoGeneration
    /\ UNCHANGED <<mem, open, changes, cut, disk>>

\* The process stops at any point and is started again: with_persistence
\* replays what load() returns through a journal it then resets.
Restart ==
    /\ mem' = Durable
    /\ open' = NoGeneration
    /\ frozen' = NoGeneration
    /\ changes' = 0
    /\ stage' = "idle"
    /\ job' = NoGeneration
    /\ cut' = EmptyState
    /\ UNCHANGED disk

JournalInit ==
    /\ mem = EmptyState
    /\ open = NoGeneration
    /\ frozen = NoGeneration
    /\ changes = 0
    /\ stage = "idle"
    /\ job = NoGeneration
    /\ cut = EmptyState
    /\ disk = None

Mutation ==
    \/ \E ks \in (SUBSET Keys) \ {{}} : \E upd \in [ks -> Entries] : WriteEntries(upd)
    \/ \E p \in Peers : AddMember(p) \/ DecommissionPeer(p)
    \/ \E p \in Peers, ks \in SUBSET Keys :
         \E receipts \in [ks -> Tombs] : RecordTombstoneAcks(p, receipts)
    \/ \E k \in Keys : CollectCandidate(k)

SnapshotStep ==
    \/ SnapshotFreeze
    \/ DeltaDeclined
    \/ DeltaCommitted
    \/ CollectPersistedState
    \/ FullSaved
    \/ SaveFailed
    \/ RetireChangeCount
    \/ CommitGeneration

JournalNext == Mutation \/ SnapshotStep \/ Restart

JournalSpec == JournalInit /\ [][JournalNext]_journalVars

\* The background task wakes up forever and its code runs to the end; the
\* backend answers every call, and neither of its two calls fails for ever.
Fairness ==
    /\ WF_journalVars(SnapshotPeriodically)
    /\ WF_journalVars(DeltaDeclined \/ DeltaCommitted \/ FullSaved \/ SaveFailed)
    /\ WF_journalVars(CollectPersistedState)
    /\ WF_journalVars(RetireChangeCount)
    /\ WF_journalVars(CommitGeneration)
    /\ SF_journalVars(DeltaDeclined \/ DeltaCommitted)
    /\ SF_journalVars(FullSaved)

FairSpec == JournalSpec /\ Fairness

(***************************************************************************)
(* Properties.                                                             *)
(***************************************************************************)
\* Every variable stays within the shape the Rust types give it.
JournalTypeOK ==
    /\ mem \in PersistedStates
    /\ open \in SnapshotGenerations
    /\ frozen \in SnapshotGenerations
    /\ changes \in Nat
    /\ stage \in {"idle", "delta", "collect", "save", "retire", "commit"}
    /\ job \in SnapshotGenerations
    /\ cut \in PersistedStates
    /\ disk \in PersistedStates \cup {None}

\* Nothing is lost between memory and disk: at every moment, through failed,
\* half-failed, retried and fallback saves, the durable state with the frozen
\* and then the open generation applied is exactly the state in memory.
JournalComplete == Overlay(Overlay(Durable, frozen), open) = mem

\* Once a save has succeeded the frozen generation is redundant: commit()
\* drops it without losing a change, although newer writes ran meanwhile.
CommitLosesNothing ==
    stage \in {"retire", "commit"} => Overlay(Durable, open) = mem

\* changes_since_snapshot counts exactly the changes still in the journal, so
\* snapshot_periodically neither skips pending changes nor writes idly.
ChangeCountMatchesJournal ==
    changes = open.raw + (IF stage = "commit" THEN 0 ELSE frozen.raw)

\* The assertion of snapshot_inner: the generation it commits is still the
\* frozen one.
CommitFindsItsGeneration == stage \in {"retire", "commit"} => frozen = job

\* What the map holds is saved or overwritten in the end: a write that arrives
\* while a save is running, or whose save failed, stays counted and is tried
\* again (with a threshold of one change).
EntriesBecomeDurable ==
    \A k \in Keys, e \in Entries :
        (mem.entries[k] = e) ~> (Durable.entries[k] = e \/ mem.entries[k] # e)
==============================================================================
