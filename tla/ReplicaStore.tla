----------------------------- MODULE ReplicaStore -----------------------------
(***************************************************************************)
(* The store of one node under concurrent local callers and the gossip     *)
(* receive loop: the dated map, its value-only projection, the             *)
(* live-tombstone index, the hybrid logical clock, the coalescing buffer   *)
(* and the broadcast slots.                                                *)
(*                                                                         *)
(* A local call takes its timestamp from the clock, later applies its      *)
(* entries under the generation mutex and the write lock, and later still  *)
(* hands them to the broadcast.  The receive loop decides what to apply    *)
(* from a lock-free snapshot and merges under the locks afterwards.        *)
(*                                                                         *)
(* A clock reading is a number, physical and logical part in one, and may  *)
(* jump as physical time does.  Peers' readings are within the drift this  *)
(* node admits, so observing one is never clamped.                         *)
(***************************************************************************)
EXTENDS Naturals, FiniteSets

CONSTANTS
    Keys,
    Callers,     \* application tasks
    None,        \* no entry
    Me, Peer,    \* node ids: this node, and every other one
    Budget,      \* max_concurrent_broadcasts
    Deletes,     \* the readings at which peers delete rather than write
    MaxTime      \* bound on clock readings

ASSUME StoreAssumption ==
    /\ Me \in Nat /\ Peer \in Nat /\ Me # Peer
    /\ IsFiniteSet(Callers)
    /\ Budget \in Nat
    /\ MaxTime \in Nat

\* A timestamp is a clock reading and a node id; it names the write it stamps.
Entries == [time : 1..MaxTime, node : {Me, Peer}, live : BOOLEAN]

ASSUME NoEntry == None \notin Entries

VARIABLES
    map,         \* the dated map
    projection,  \* its value-only mirror
    tombstones,  \* live_tombstones
    clock,       \* the last reading the clock produced or observed
    call,        \* the progress of each local call
    updates,     \* the remote entries the receive loop has decided to merge
    pending,     \* coalesce_pending
    slots,       \* broadcasts_in_flight
    sent         \* entries handed to a broadcast task; peers may hold them

vars == <<map, projection, tombstones, clock, call, updates, pending, slots, sent>>

Newer(a, b) == a.time > b.time \/ (a.time = b.time /\ a.node > b.node)

\* Entry::merge: the later stamp wins.
Merge(a, b) == IF Newer(b, a) THEN b ELSE a

\* Entry::project: the state without its stamp.  A value is named by the write it
\* came from; all deletions are alike.
States == ({"present"} \X (1..MaxTime) \X {Me, Peer}) \cup {<<"deleted">>}

Project(e) == IF e.live THEN <<"present", e.time, e.node>> ELSE <<"deleted">>

Batches == UNION {[ks -> Entries] : ks \in SUBSET Keys}

Ops == {"put", "try_put", "update", "upsert", "get_mut"}

Idle == [at |-> "idle"]

\* A call on its way: about to take its stamps, holding them, or about to send.
Minting == [at : {"mint"}, op : Ops, keys : SUBSET Keys,
            live : BOOLEAN, quiet : BOOLEAN, slot : BOOLEAN]
Stamped == [at : {"claim", "apply"}, op : Ops, batch : Batches,
            quiet : BOOLEAN, slot : BOOLEAN]
Sending == [at : {"send"}, batch : Batches, slot : BOOLEAN]

\* The maps, the calls in progress and the slot counter keep their shapes; the counter is never negative.
TypeOK ==
    /\ map \in [Keys -> Entries \cup {None}]
    /\ projection \in [Keys -> States \cup {None}]
    /\ tombstones \in SUBSET Keys
    /\ clock \in 0..MaxTime
    /\ call \in [Callers -> {Idle} \cup Minting \cup Stamped \cup Sending]
    /\ updates \in SUBSET (Keys \X Entries)
    /\ pending \in [Keys -> Entries \cup {None}]
    /\ slots \in Nat
    /\ sent \in SUBSET (Keys \X Entries)

(***************************************************************************)
(* map_insert for a batch, and the two stores that publish its result.     *)
(***************************************************************************)
Insert(batch) ==
    /\ map' = [k \in Keys |-> IF k \in DOMAIN batch THEN batch[k] ELSE map[k]]
    /\ projection' = [k \in Keys |-> IF k \in DOMAIN batch THEN Project(batch[k])
                                                           ELSE projection[k]]
    /\ tombstones' = (tombstones \ {k \in DOMAIN batch : batch[k].live})
                       \cup {k \in DOMAIN batch : ~batch[k].live}

(***************************************************************************)
(* Local calls.                                                            *)
(***************************************************************************)
\* insert, insert_bulk, load_bulk, remove, remove_bulk: the caller names keys.
BeginPut(c, keys, live, quiet) ==
    /\ call[c] = Idle
    /\ call' = [call EXCEPT ![c] = [at |-> "mint", op |-> "put", keys |-> keys,
                                    live |-> live, quiet |-> quiet, slot |-> FALSE]]
    /\ UNCHANGED <<map, projection, tombstones, clock, updates, pending, slots, sent>>

\* clear, retain, delete_range: the keys are those live in a snapshot.
BeginClear(c) ==
    /\ {k \in Keys : map[k] # None /\ map[k].live} # {}
    /\ BeginPut(c, {k \in Keys : map[k] # None /\ map[k].live}, FALSE, FALSE)

\* update, upsert, get_mut and try_insert, told apart by op.
BeginOne(c, op, key) ==
    /\ call[c] = Idle
    /\ call' = [call EXCEPT ![c] = [at |-> "mint", op |-> op, keys |-> {key},
                                    live |-> TRUE, quiet |-> FALSE, slot |-> FALSE]]
    /\ UNCHANGED <<map, projection, tombstones, clock, updates, pending, slots, sent>>

\* try_update claims a slot first, or fails with Backpressure.
BeginTryUpdate(c, key) ==
    /\ call[c] = Idle
    /\ slots < Budget
    /\ slots' = slots + 1
    /\ call' = [call EXCEPT ![c] = [at |-> "mint", op |-> "update", keys |-> {key},
                                    live |-> TRUE, quiet |-> FALSE, slot |-> TRUE]]
    /\ UNCHANGED <<map, projection, tombstones, clock, updates, pending, sent>>

\* clock_now, once per key of the batch, in any order.
Mint(c) ==
    /\ call[c].at = "mint"
    /\ \E last \in (clock + 1)..MaxTime :
       \E reading \in [call[c].keys -> (clock + 1)..last] :
         /\ \E k \in call[c].keys : reading[k] = last
         /\ \A j, k \in call[c].keys : j # k => reading[j] # reading[k]
         /\ call' = [call EXCEPT ![c] =
              [at |-> IF @.op = "try_put" THEN "claim" ELSE "apply",
               op |-> @.op, quiet |-> @.quiet, slot |-> @.slot,
               batch |-> [k \in @.keys |-> [time |-> reading[k], node |-> Me,
                                            live |-> @.live]]]]
         /\ clock' = last
    /\ UNCHANGED <<map, projection, tombstones, updates, pending, slots, sent>>

\* try_insert claims its slot with the stamp already taken, or fails.
Claim(c) ==
    /\ call[c].at = "claim"
    /\ IF slots < Budget
       THEN /\ slots' = slots + 1
            /\ call' = [call EXCEPT ![c].at = "apply", ![c].slot = TRUE]
       ELSE /\ call' = [call EXCEPT ![c] = Idle]
            /\ UNCHANGED slots
    /\ UNCHANGED <<map, projection, tombstones, clock, updates, pending, sent>>

\* just_insert and just_insert_bulk: whatever the map holds is replaced.
ApplyPut(c) ==
    /\ call[c].at = "apply" /\ call[c].op \in {"put", "try_put"}
    /\ Insert(call[c].batch)
    /\ call' = [call EXCEPT ![c] = IF @.quiet THEN Idle
                                   ELSE [at |-> "send", batch |-> @.batch, slot |-> @.slot]]
    /\ UNCHANGED <<clock, updates, pending, slots, sent>>

\* MUTANT of EndUnchanged: a slot is released whether or not one was claimed.
EndReleasesAlways(c) ==
    /\ call' = [call EXCEPT ![c] = Idle]
    /\ slots' = slots - 1
    /\ UNCHANGED <<map, projection, tombstones, clock, updates, pending, sent>>

\* The end of a call that changed nothing; a claimed slot is given back.
EndUnchanged(c) ==
    /\ call' = [call EXCEPT ![c] = Idle]
    /\ slots' = slots - (IF call[c].slot THEN 1 ELSE 0)
    /\ UNCHANGED <<map, projection, tombstones, clock, updates, pending, sent>>

\* MUTANT of Restamp: the in-place edit does not refresh the projection.
RestampMapOnly(c, key) ==
    LET e == [call[c].batch[key] EXCEPT !.live = map[key].live]
    IN  /\ map' = [map EXCEPT ![key] = e]
        /\ call' = [call EXCEPT ![c] = [at |-> "send", batch |-> [k \in {key} |-> e],
                                        slot |-> @.slot]]
        /\ UNCHANGED <<projection, tombstones, clock, updates, pending, slots, sent>>

\* mutate_live_checked and get_mut edit an entry in place and re-stamp it, a
\* tombstone included in the case of get_mut.  They leave live_tombstones alone.
Restamp(c, key) ==
    LET e == [call[c].batch[key] EXCEPT !.live = map[key].live]
    IN  /\ map' = [map EXCEPT ![key] = e]
        /\ projection' = [projection EXCEPT ![key] = Project(e)]
        /\ call' = [call EXCEPT ![c] = [at |-> "send", batch |-> [k \in {key} |-> e],
                                        slot |-> @.slot]]
        /\ UNCHANGED <<tombstones, clock, updates, pending, slots, sent>>

ApplyMutate(c) ==
    /\ call[c].at = "apply" /\ call[c].op \in {"update", "upsert", "get_mut"}
    /\ \E key \in DOMAIN call[c].batch :
         LET found == map[key] # None /\ (map[key].live \/ call[c].op = "get_mut")
         IN  \/ found /\ Restamp(c, key)
             \/ found /\ call[c].slot /\ EndUnchanged(c)  \* value too large
             \/ ~found /\ call[c].op # "upsert" /\ EndUnchanged(c)
             \/ /\ ~found /\ call[c].op = "upsert"        \* falls back to insert
                /\ call' = [call EXCEPT ![c] = [at |-> "mint", op |-> "put", keys |-> {key},
                              live |-> TRUE, quiet |-> FALSE, slot |-> FALSE]]
                /\ UNCHANGED <<map, projection, tombstones, clock, updates, pending, slots, sent>>

\* broadcast: at the budget the eager push is skipped.
Broadcast(batch) ==
    IF slots < Budget
    THEN slots' = slots + 1 /\ sent' = sent \cup {<<k, batch[k]>> : k \in DOMAIN batch}
    ELSE UNCHANGED <<slots, sent>>

\* MUTANT of Coalesced: the last call to arrive wins.
CoalescedInCallOrder(batch) ==
    [k \in Keys |-> IF k \in DOMAIN batch THEN batch[k] ELSE pending[k]]

\* The buffer after queue_broadcast: per key, the newest entry.
Coalesced(batch) ==
    [k \in Keys |-> IF k \notin DOMAIN batch THEN pending[k]
                    ELSE IF pending[k] = None THEN batch[k]
                    ELSE Merge(pending[k], batch[k])]

\* queue_broadcast, or spawn_broadcast over the slot a try_ call holds.  The
\* coalesce window may be set to zero, or away from it, while the node runs.
Send(c) ==
    /\ call[c].at = "send"
    /\ LET batch == call[c].batch
       IN  \/ /\ call[c].slot
              /\ sent' = sent \cup {<<k, batch[k]>> : k \in DOMAIN batch}
              /\ UNCHANGED <<pending, slots>>
           \/ ~call[c].slot /\ pending' = Coalesced(batch) /\ UNCHANGED <<slots, sent>>
           \/ ~call[c].slot /\ Broadcast(batch) /\ UNCHANGED pending
    /\ call' = [call EXCEPT ![c] = Idle]
    /\ UNCHANGED <<map, projection, tombstones, clock, updates>>

\* The flush task scheduled when the buffer stopped being empty.
CoalesceFlush ==
    /\ \E k \in Keys : pending[k] # None
    /\ Broadcast([k \in {j \in Keys : pending[j] # None} |-> pending[k]])
    /\ pending' = [k \in Keys |-> None]
    /\ UNCHANGED <<map, projection, tombstones, clock, call, updates>>

\* A broadcast task ends and its guard releases the slot.
Held == {c \in Callers : call[c].at # "idle" /\ call[c].slot}

BroadcastDone ==
    /\ slots > Cardinality(Held)
    /\ slots' = slots - 1
    /\ UNCHANGED <<map, projection, tombstones, clock, call, updates, pending, sent>>

(***************************************************************************)
(* The receive loop.                                                       *)
(***************************************************************************)
\* MUTANT of ReceiveUpdates: the clock does not observe what is received.
ReceiveUnobserved(batch) ==
    /\ updates = {}
    /\ updates' = {m \in batch : map[m[1]] # None => Newer(m[2], map[m[1]])}
    /\ UNCHANGED <<map, projection, tombstones, clock, call, pending, slots, sent>>

\* The first half of apply_dated_updates: the clock observes every stamp, and the
\* entries newer than what a snapshot of the map holds are kept.
ReceiveUpdates(batch) ==
    /\ updates = {}
    /\ clock' = CHOOSE t \in {clock} \cup {m[2].time : m \in batch} :
                    t >= clock /\ \A m \in batch : t >= m[2].time
    /\ updates' = {m \in batch : map[m[1]] # None => Newer(m[2], map[m[1]])}
    /\ UNCHANGED <<map, projection, tombstones, call, pending, slots, sent>>

\* MUTANT of MergeUpdates: the decision made on the snapshot is not reconsidered.
MergeAsDecided ==
    /\ updates # {}
    /\ Insert([k \in {m[1] : m \in updates} |->
                 LET found == {m[2] : m \in {n \in updates : n[1] = k}}
                 IN  CHOOSE e \in found : \A f \in found : ~Newer(f, e)])
    /\ updates' = {}
    /\ UNCHANGED <<clock, call, pending, slots, sent>>

\* What a key may become: an entry decided on, or the one the map holds by now.
Contenders(k) == {m[2] : m \in {n \in updates : n[1] = k}} \cup ({map[k]} \ {None})

Winners ==
    [k \in {m[1] : m \in updates} |->
        CHOOSE e \in Contenders(k) : \A f \in Contenders(k) : ~Newer(f, e)]

\* The second half, under the locks: merge with what the map holds by now.
MergeUpdates ==
    /\ updates # {}
    /\ Insert(Winners)
    /\ updates' = {}
    /\ UNCHANGED <<clock, call, pending, slots, sent>>

\* What peers may send: their own writes, and ours once they were broadcast.
Remote == Keys \X {[time |-> t, node |-> Peer, live |-> t \notin Deletes] : t \in 1..MaxTime}

Init ==
    /\ map = [k \in Keys |-> None]
    /\ projection = [k \in Keys |-> None]
    /\ tombstones = {}
    /\ clock = 0
    /\ call = [c \in Callers |-> Idle]
    /\ updates = {}
    /\ pending = [k \in Keys |-> None]
    /\ slots = 0
    /\ sent = {}

Gossip ==
    \/ \E m, n \in Remote \cup sent : ReceiveUpdates({m, n})
    \/ MergeUpdates

Local(c) ==
    \/ \E ks \in (SUBSET Keys) \ {{}}, live, quiet \in BOOLEAN :
           (quiet => live) /\ BeginPut(c, ks, live, quiet)
    \/ BeginClear(c)
    \/ \E k \in Keys, op \in {"update", "upsert", "get_mut", "try_put"} : BeginOne(c, op, k)
    \/ \E k \in Keys : BeginTryUpdate(c, k)
    \/ Mint(c)
    \/ Claim(c)
    \/ ApplyPut(c)
    \/ ApplyMutate(c)
    \/ Send(c)

Next ==
    \/ \E c \in Callers : Local(c)
    \/ CoalesceFlush
    \/ BroadcastDone
    \/ Gossip

Spec == Init /\ [][Next]_vars

(***************************************************************************)
(* Properties.                                                             *)
(***************************************************************************)
\* The projection and the tombstone index mirror the map after every locked
\* section, although insert, in-place mutation and the merge update them by
\* three different pieces of code.
IndexesMatchMap ==
    /\ \A k \in Keys : projection[k] = IF map[k] = None THEN None ELSE Project(map[k])
    /\ tombstones = {k \in Keys : map[k] # None /\ ~map[k].live}

\* The clock is never behind an entry of the map, or behind one the receive
\* loop is about to merge: a write stamped now outranks everything held.
ClockCoversMap ==
    /\ \A k \in Keys : map[k] # None => map[k].time <= clock
    /\ \A m \in updates : m[2].time <= clock

\* Merging a remote entry never replaces a newer one, although the decision to
\* merge was taken before the local writes that ran in between.
MergeNeverRegresses ==
    [][MergeUpdates => \A k \in Keys : map[k] # None => ~Newer(map[k], map'[k])]_vars

\* The coalescing buffer never gives up an entry for an older one, in whatever
\* order concurrent calls reach it after taking their stamps.
BufferNeverRegresses ==
    [][\A k \in Keys : (pending[k] # None /\ pending'[k] # None)
                           => ~Newer(pending[k], pending'[k])]_vars

\* Every conflict on a key is decided by timestamp: no step replaces an entry
\* by an older one.
TimestampOrderDecides ==
    [][\A k \in Keys : map[k] # None => ~Newer(map[k], map'[k])]_vars

\* No slot of the broadcast budget leaks or is overdrawn.
SlotsWithinBudget == Cardinality(Held) <= slots /\ slots <= Budget
==============================================================================
