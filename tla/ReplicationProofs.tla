--------------------------- MODULE ReplicationProofs ---------------------------
(***************************************************************************)
(* For any nodes, keys and bounds: types, receipts on record are true; and *)
(* while nobody has restarted, authors keep what they wrote and no         *)
(* datagram undoes a deletion.                                             *)
(***************************************************************************)
EXTENDS Replication, TLAPS

(***************************************************************************)
(* What each kind of step does to maps, records, clocks and the network.   *)
(***************************************************************************)
\* Sending adds datagrams to the network and may drop overtaken ones.
LEMMA SentAdds ==
    ASSUME NEW D, NEW x \in Sent(D)
    PROVE  x \in D \/ x \in net
BY Zenon DEF Sent

\* A map over a range of keys is a segment, and the other way round.
LEMMA SegmentIsMap ==
    /\ \A ks \in SUBSET Keys : \A f \in [ks -> Entries \cup {None}] : ks # {} => f \in Segments
    /\ \A s \in Segments : /\ DOMAIN s \subseteq Keys
                           /\ DOMAIN s # {}
                           /\ s \in [DOMAIN s -> Entries \cup {None}]
<1>1. ASSUME NEW ks \in SUBSET Keys, NEW f, ks # {}, f \in [ks -> Entries \cup {None}]
      PROVE  f \in Segments
  BY <1>1, Zenon DEF Segments
<1>2. ASSUME NEW s \in Segments
      PROVE  /\ DOMAIN s \subseteq Keys
             /\ DOMAIN s # {}
             /\ s \in [DOMAIN s -> Entries \cup {None}]
  <2>1. PICK ks \in (SUBSET Keys) \ {{}} : s \in [ks -> Entries \cup {None}]
    BY <1>2, Zenon DEF Segments
  <2> QED
    BY <2>1, Zenon
<1> QED
  BY <1>1, <1>2, Zenon

\* What a datagram is, by its kind.
LEMMA DatagramFields ==
    ASSUME NEW d \in Datagrams
    PROVE  /\ d.kind \in {"compare", "update", "ack"}
           /\ d.from \in Nodes /\ d.to \in Nodes
           /\ d.kind = "compare" => d.segments \subseteq Segments /\ d.acks \in Maps
           /\ d.kind = "update" => d.key \in Keys /\ d.entry \in Entries
           /\ d.kind = "ack" => d.acks \in Maps
BY Zenon DEF Datagrams

\* The parts of the type invariant that later steps rest on, one at a time.
LEMMA StoreTyped ==
    /\ TypeOK => store \in [Nodes -> [Keys -> Entries \cup {None}]]
    /\ TypeOK' => store' \in [Nodes -> [Keys -> Entries \cup {None}]]
BY Zenon DEF TypeOK, Maps

\* Readings are numbers.
LEMMA ClockTyped ==
    /\ TypeOK => clock \in [Nodes -> Nat]
    /\ TypeOK' => clock' \in [Nodes -> Nat]
<1>1. MaxTime \in Nat
  BY ReplicationAssumption, Zenon
<1>2. 0..MaxTime \subseteq Nat
  BY <1>1
<1>3. TypeOK => clock \in [Nodes -> 0..MaxTime]
  BY Zenon DEF TypeOK
<1>4. TypeOK' => clock' \in [Nodes -> 0..MaxTime]
  BY Zenon DEF TypeOK
<1> QED
  BY <1>2, <1>3, <1>4, Zenon

\* A pending write is a key and an entry.
LEMMA WriteTyped == TypeOK => write \in [Nodes -> [key : Keys, entry : Entries] \cup {None}]
BY Zenon DEF TypeOK

\* The record of tombstones is about keys and entries.
LEMMA HeldTyped == TypeOK => held \in [Nodes -> SUBSET (Keys \X Entries)]
BY Zenon DEF TypeOK

\* Restarts are only counted up.
LEMMA RestartsCount ==
    ASSUME TypeOK, [Next]_vars, restarts' = 0
    PROVE  restarts = 0 /\ \A n \in Nodes : ~Restart(n)
<1>1. restarts \in Nat
  <2>1. MaxRestarts \in Nat /\ restarts \in 0..MaxRestarts
    BY ReplicationAssumption, Zenon DEF TypeOK
  <2> QED
    BY <2>1
<1>2. restarts' = restarts \/ restarts' = restarts + 1
  BY Zenon DEF Next, vars, Mint, GcCollect, Apply, Snapshot, Restart, StartReconciliation, Receive
<1>3. ASSUME NEW n \in Nodes, Restart(n)
      PROVE  FALSE
  <2>1. restarts' = restarts + 1
    BY <1>3, Zenon DEF Restart
  <2> QED
    BY <1>1, <2>1
<1> QED
  BY <1>1, <1>2, <1>3

\* Times and nodes are numbers.
LEMMA EntryNumbers ==
    \A e \in Entries : e.time \in Nat /\ e.node \in Nat /\ e.node \in Nodes
<1>1. MaxTime \in Nat /\ Nodes \subseteq Nat
  BY ReplicationAssumption, Zenon
<1> SUFFICES ASSUME NEW e \in Entries
             PROVE  e.time \in Nat /\ e.node \in Nat /\ e.node \in Nodes
  OBVIOUS
<1>2. e.time \in 1..MaxTime /\ e.node \in Nodes
  BY Zenon DEF Entries
<1>3. e.time \in Nat
  BY <1>1, <1>2
<1>4. e.node \in Nat
  BY <1>1, <1>2, Zenon
<1> QED
  BY <1>2, <1>3, <1>4, Zenon

\* A dead entry is a tombstone.
LEMMA DeadIsTomb ==
    ASSUME NEW e \in Entries \cup {None}
    PROVE  /\ Dead(e) <=> e \in Tombs
           /\ e \in Tombs => e # None
BY NoEntry, Zenon DEF Dead, Tombs, Entries

\* The receipts a node sends are maps of tombstones it holds.
LEMMA ReceiptsHeld ==
    ASSUME TypeOK, NEW n \in Nodes
    PROVE  /\ Receipts(n) \in Maps
           /\ \A k \in Keys : Receipts(n)[k] # None => Receipts(n)[k] = store[n][k] /\ Dead(store[n][k])
BY DEF Receipts, Tombstones, TypeOK, Maps

\* What answering a comparison sends: entries held, comparisons and acknowledgements
\* without receipts.
LEMMA ComparisonSends ==
    ASSUME TypeOK, NEW n \in Nodes, NEW d \in net, d.kind = "compare",
           HandleDatedComparison(n, d), NEW x \in net'
    PROVE  \/ x \in net
           \/ /\ x \in Datagrams
              /\ x.from = n
              /\ x.kind = "update" => store[n][x.key] = x.entry
              /\ x.kind # "update" => x.acks = Nothing
<1> DEFINE differing == {s \in d.segments : Differs(n, s)}
           OutOf(listed) == (UNION {{Mine(n, {k}) : k \in DOMAIN s} : s \in differing \ listed})
                              \cup {[k \in DOMAIN s |-> None] : s \in {t \in listed : ~Empty(t)}}
           KeysOf(listed) == {k \in UNION {DOMAIN s : s \in ToList(n, listed)} : store[n][k] # None}
           Compared(listed) == {[kind |-> "compare", from |-> n, to |-> d.from, segments |-> o,
                                 acks |-> Nothing] : o \in {OutOf(listed)} \ {{}}}
           Updates(listed) == {[kind |-> "update", from |-> n, to |-> d.from, key |-> k,
                                entry |-> store[n][k]] : k \in KeysOf(listed)}
           Converged == {[kind |-> "ack", from |-> n, to |-> d.from, acks |-> Nothing]
                          : s \in {y \in {differing} : y = {}}}
<1>1. PICK listed \in SUBSET differing :
        net' = Sent(Compared(listed) \cup Updates(listed) \cup Converged)
  BY Zenon DEF HandleDatedComparison
<1>2. /\ d \in Datagrams /\ d.from \in Nodes /\ d.segments \subseteq Segments
      /\ store[n] \in [Keys -> Entries \cup {None}]
      /\ Nothing \in Maps
  <2>1. d \in Datagrams /\ store[n] \in Maps
    BY Zenon DEF TypeOK
  <2>2. Nothing \in Maps
    BY Zenon DEF Nothing, Maps
  <2> QED
    BY <2>1, <2>2, DatagramFields, Zenon DEF Maps
<1>3. OutOf(listed) \subseteq Segments
  <2>1. ASSUME NEW s \in differing, NEW k \in DOMAIN s
        PROVE  Mine(n, {k}) \in Segments
    <3>1. k \in Keys
      BY <1>2, SegmentIsMap, Zenon
    <3>2. {k} \in SUBSET Keys /\ {k} # {} /\ Mine(n, {k}) \in [{k} -> Entries \cup {None}]
      BY <3>1, <1>2, Zenon DEF Mine
    <3> QED
      BY <3>2, SegmentIsMap, Zenon
  <2>2. ASSUME NEW s \in listed
        PROVE  [k \in DOMAIN s |-> None] \in Segments
    <3>1. s \in Segments
      BY <1>2, Zenon
    <3>2. DOMAIN s \in SUBSET Keys /\ DOMAIN s # {}
           /\ [k \in DOMAIN s |-> None] \in [DOMAIN s -> Entries \cup {None}]
      BY <3>1, SegmentIsMap, Zenon
    <3> QED
      BY <3>2, SegmentIsMap, Zenon
  <2>3. ASSUME NEW o \in OutOf(listed)
        PROVE  \/ \E s \in differing : \E k \in DOMAIN s : o = Mine(n, {k})
               \/ \E s \in listed : o = [k \in DOMAIN s |-> None]
    <3> HIDE DEF differing
    <3>1. CASE o \in UNION {{Mine(n, {k}) : k \in DOMAIN s} : s \in differing \ listed}
      BY <3>1, Zenon
    <3>2. CASE o \in {[k \in DOMAIN s |-> None] : s \in {t \in listed : ~Empty(t)}}
      BY <3>2, Zenon
    <3> QED
      BY <2>3, <3>1, <3>2, Zenon
  <2> HIDE DEF differing, OutOf
  <2> QED
    BY <2>1, <2>2, <2>3, Zenon
<1>4. ASSUME NEW k \in KeysOf(listed)
      PROVE  k \in Keys /\ store[n][k] \in Entries
  <2>1. k \in Keys
    BY <1>2, SegmentIsMap, Zenon DEF ToList
  <2> QED
    BY <2>1, <1>2, Zenon
<1> HIDE DEF differing, OutOf, KeysOf
<1>5. CASE x \in Compared(listed)
  BY <1>5, <1>2, <1>3 DEF Datagrams
<1>6. CASE x \in Updates(listed)
  BY <1>6, <1>2, <1>4 DEF Datagrams
<1>7. CASE x \in Converged
  BY <1>7, <1>2 DEF Datagrams
<1> QED
  BY <1>1, <1>5, <1>6, <1>7, SentAdds, Zenon
\* Receiving an acknowledgement or a comparison leaves receipts of their type.
LEMMA RecordedAcksType ==
    ASSUME TypeOK, NEW n \in Nodes, NEW m \in Nodes, NEW got \in Maps,
           RecordTombstoneAcks(n, m, got)
    PROVE  acks' \in [Nodes -> [Keys -> [Nodes -> Entries \cup {None}]]]
BY DEF TypeOK, Maps, RecordTombstoneAcks

\* map_insert keeps the type of the map and of its history.
LEMMA PutType ==
    ASSUME TypeOK, NEW n \in Nodes, NEW k \in Keys, NEW e \in Entries, Put(n, k, e)
    PROVE  /\ store' \in [Nodes -> Maps]
           /\ held' \in [Nodes -> SUBSET (Keys \X Entries)]
<1>1. store' \in [Nodes -> Maps]
  BY Zenon DEF TypeOK, Put, Maps
<1>2. {<<k, t>> : t \in {e} \cap Tombs} \in SUBSET (Keys \X Entries)
  BY DEF Tombs
<1> QED
  BY <1>1, <1>2, Zenon DEF TypeOK, Put

\* What receiving an update does, field by field.
LEMMA UpdateEffect ==
    ASSUME TypeOK, NEW d \in net, d.kind = "update", ApplyDatedUpdate(d.to, d)
    PROVE  /\ d.key \in Keys /\ d.entry \in Entries /\ d.to \in Nodes
           /\ \E e \in Entries :
                /\ e = d.entry \/ e = store[d.to][d.key]
                /\ AsNew(e, d.entry)
                /\ store[d.to][d.key] # None => AsNew(e, store[d.to][d.key])
                /\ Put(d.to, d.key, e)
                /\ \A x \in net' :
                     \/ x \in net
                     \/ /\ x \in Datagrams /\ x.kind = "ack" /\ x.from = d.to
                        /\ e \in Tombs
                        /\ x.acks = [Nothing EXCEPT ![d.key] = e]
           /\ clock' \in [Nodes -> 0..MaxTime]
           /\ \A n \in Nodes : clock'[n] >= clock[n]
<1> DEFINE n == d.to
           old == store[n][d.key]
           e == Merged(old, d.entry)
<1>1. /\ d.key \in Keys /\ d.entry \in Entries /\ n \in Nodes /\ d.from \in Nodes
      /\ old \in Entries \cup {None}
      /\ Nothing \in Maps
  <2>1. d \in Datagrams
    BY Zenon DEF TypeOK
  <2>2. d.key \in Keys /\ d.entry \in Entries /\ n \in Nodes /\ d.from \in Nodes
    BY <2>1, DatagramFields, Zenon
  <2> QED
    BY <2>2 DEF TypeOK, Maps, Nothing
<1>2. /\ e \in Entries /\ (e = d.entry \/ e = old)
      /\ AsNew(e, d.entry) /\ (old # None => AsNew(e, old))
  <2>1. d.entry # None /\ (old # None => old \in Entries)
    BY <1>1, NoEntry, Zenon
  <2>2. CASE old = None \/ Newer(d.entry, old)
    <3>1. e = d.entry
      BY <2>2, Zenon DEF Merged
    <3>2. ~Newer(d.entry, d.entry) /\ (old # None => ~Newer(old, d.entry))
      BY <1>1, <2>1, <2>2, EntryNumbers DEF Newer
    <3> QED
      BY <1>1, <2>1, <3>1, <3>2, Zenon DEF AsNew
  <2>3. CASE ~(old = None \/ Newer(d.entry, old))
    <3>1. e = old
      BY <2>3, Zenon DEF Merged
    <3>2. ~Newer(old, old)
      BY <2>1, <2>3, EntryNumbers DEF Newer
    <3> QED
      BY <1>1, <2>1, <2>3, <3>1, <3>2, Zenon DEF AsNew
  <2> QED
    BY <2>2, <2>3, Zenon
<1>3. Put(n, d.key, e)
  BY Zenon DEF ApplyDatedUpdate
<1>4. ASSUME NEW x \in net', x \notin net
      PROVE  /\ x \in Datagrams /\ x.kind = "ack" /\ x.from = d.to
             /\ e \in Tombs
             /\ x.acks = [Nothing EXCEPT ![d.key] = e]
  <2> DEFINE Acks == {[kind |-> "ack", from |-> n, to |-> d.from,
                       acks |-> [Nothing EXCEPT ![d.key] = t]] : t \in {e} \cap Tombs}
  <2>1. net' = Sent(Acks)
    BY Zenon DEF ApplyDatedUpdate, Acknowledged
  <2>2. x \in Acks
    BY <1>4, <2>1, SentAdds, Zenon
  <2>3. e \in Tombs /\ x = [kind |-> "ack", from |-> n, to |-> d.from,
                            acks |-> [Nothing EXCEPT ![d.key] = e]]
    BY <2>2, Zenon
  <2>4. [Nothing EXCEPT ![d.key] = e] \in Maps
    BY <1>1, <1>2, Zenon DEF Maps
  <2> QED
    BY <2>3, <2>4, <1>1, Zenon DEF Datagrams
<1>5. clock' \in [Nodes -> 0..MaxTime] /\ \A m \in Nodes : clock'[m] >= clock[m]
  <2>1. clock' = [clock EXCEPT ![n] = IF d.entry.time > @ THEN d.entry.time ELSE @]
    BY Zenon DEF ApplyDatedUpdate
  <2> QED
    <3>1. d.entry.time \in 0..MaxTime /\ MaxTime \in Nat /\ clock \in [Nodes -> 0..MaxTime]
      BY <1>1, ReplicationAssumption DEF TypeOK, Entries
    <3>2. \A m \in Nodes : clock[m] \in Nat
      BY ClockTyped, Zenon
    <3> QED
      BY <1>1, <2>1, <3>1, <3>2
<1> HIDE DEF e, old
<1> QED
  BY <1>1, <1>2, <1>3, <1>4, <1>5, Zenon DEF old
\* What applying a local write sends.
LEMMA ApplySends ==
    ASSUME TypeOK, NEW n \in Nodes, Apply(n), NEW x \in net'
    PROVE  \/ x \in net
           \/ /\ x \in Datagrams /\ x.kind = "update"
              /\ x.key = write[n].key /\ x.entry = write[n].entry
<1> DEFINE Updates == {[kind |-> "update", from |-> n, to |-> m, key |-> write[n].key,
                        entry |-> write[n].entry] : m \in Nodes \ {n}}
<1>1. net' = Sent(Updates) /\ write[n] \in [key : Keys, entry : Entries]
  BY Zenon DEF Apply, TypeOK
<1>2. CASE x \in Updates
  BY <1>1, <1>2 DEF Datagrams
<1> QED
  BY <1>1, <1>2, SentAdds, Zenon

\* What starting a round sends.
LEMMA RoundSends ==
    ASSUME TypeOK, NEW n \in Nodes, NEW m \in Nodes, StartReconciliation(n, m), NEW x \in net'
    PROVE  \/ x \in net
           \/ /\ x \in Datagrams /\ x.kind = "compare" /\ x.from = n
              /\ x.acks = Receipts(n)
<1> DEFINE c == [kind |-> "compare", from |-> n, to |-> m,
                 segments |-> {store[n]}, acks |-> Receipts(n)]
<1>1. net' = Sent({c})
  BY Zenon DEF StartReconciliation
<1>2. store[n] \in Segments
  <2>1. store[n] \in [Keys -> Entries \cup {None}]
    BY Zenon DEF TypeOK, Maps
  <2> QED
    BY <2>1, SegmentIsMap, ReplicationAssumption, Zenon
<1>3. c \in Datagrams
  BY <1>2, ReceiptsHeld, Zenon DEF Datagrams
<1> QED
  BY <1>1, <1>3, SentAdds

\* map_insert records the tombstone it stores and forgets none.
LEMMA PutRecords ==
    ASSUME TypeOK, NEW n \in Nodes, NEW k \in Keys, NEW e \in Entries, Put(n, k, e)
    PROVE  /\ \A m \in Nodes : held[m] \subseteq held'[m]
           /\ e \in Tombs => <<k, e>> \in held'[n]
           /\ store'[n][k] = e
           /\ \A m \in Nodes, j \in Keys : m # n \/ j # k => store'[m][j] = store[m][j]
<1>1. /\ held' = [held EXCEPT ![n] = @ \cup {<<k, t>> : t \in {e} \cap Tombs}]
      /\ store' = [store EXCEPT ![n][k] = e]
  BY Zenon DEF Put
<1> QED
  BY <1>1, Zenon DEF TypeOK, Maps

\* Every tombstone held or saved is on its holder's record.
Recorded ==
    \A n \in Nodes, k \in Keys :
        /\ Dead(store[n][k]) => <<k, store[n][k]>> \in held[n]
        /\ Dead(disk[n].entries[k]) => <<k, disk[n].entries[k]>> \in held[n]

\* Every receipt in flight, on record or saved names a tombstone its sender held.
Evidence ==
    /\ Recorded
    /\ \A d \in net : d.kind # "update" =>
         \A k \in Keys : d.acks[k] # None => <<k, d.acks[k]>> \in held[d.from]
    /\ ReceiptsAreHonest
    /\ \A n, m \in Nodes, k \in Keys :
         disk[n].acks[k][m] # None => <<k, disk[n].acks[k][m]>> \in held[m]

\* A step that only adds to the record, keeps stores but one, keeps saved states.
LEMMA PutKeepsRecorded ==
    ASSUME TypeOK, Recorded, NEW n \in Nodes, NEW k \in Keys, NEW e \in Entries,
           Put(n, k, e), UNCHANGED disk
    PROVE  Recorded'
<1> SUFFICES ASSUME NEW m \in Nodes, NEW j \in Keys
             PROVE  /\ Dead(store'[m][j]) => <<j, store'[m][j]>> \in held'[m]
                    /\ Dead(disk[m].entries[j]) => <<j, disk[m].entries[j]>> \in held'[m]
  BY Zenon DEF Recorded
<1>1. /\ held[m] \subseteq held'[m]
      /\ Dead(store[m][j]) => <<j, store[m][j]>> \in held[m]
      /\ Dead(disk[m].entries[j]) => <<j, disk[m].entries[j]>> \in held[m]
  BY PutRecords, Zenon DEF Recorded
<1>2. CASE m = n /\ j = k
  <2>1. store'[m][j] = e /\ (e \in Tombs => <<j, e>> \in held'[m])
    BY <1>2, PutRecords, Zenon
  <2> QED
    BY <1>1, <2>1, DeadIsTomb, Zenon
<1>3. CASE m # n \/ j # k
  <2>1. store'[m][j] = store[m][j]
    BY <1>3, Zenon DEF Put, TypeOK, Maps
  <2> QED
    BY <1>1, <2>1, Zenon
<1> QED
  BY <1>2, <1>3, Zenon

\* Keeping receipts that are true keeps the record true.
LEMMA RecordedAcksHonest ==
    ASSUME TypeOK, ReceiptsAreHonest, NEW n \in Nodes, NEW from \in Nodes, NEW got \in Maps,
           \A k \in Keys : got[k] # None => <<k, got[k]>> \in held[from],
           RecordTombstoneAcks(n, from, got), UNCHANGED held
    PROVE  ReceiptsAreHonest'
<1> SUFFICES ASSUME NEW i \in Nodes, NEW m \in Nodes, NEW k \in Keys, acks'[i][k][m] # None
             PROVE  <<k, acks'[i][k][m]>> \in held[m]
  BY Zenon DEF ReceiptsAreHonest
<1>1. \/ acks'[i][k][m] = acks[i][k][m]
      \/ m = from /\ acks'[i][k][m] = got[k]
  BY DEF RecordTombstoneAcks, TypeOK
<1> QED
  BY <1>1, Zenon DEF ReceiptsAreHonest

(***************************************************************************)
(* Types and receipts.                                                     *)
(***************************************************************************)
\* Every step keeps the types.
LEMMA TypeStep == TypeOK /\ [Next]_vars => TypeOK'
<1> SUFFICES ASSUME TypeOK, [Next]_vars
             PROVE  TypeOK'
  OBVIOUS
<1>1. ASSUME NEW n \in Nodes, NEW k \in Keys, Mint(n, k)
      PROVE  TypeOK'
  <2>1. PICK t \in Readings(n) :
          /\ clock' = [clock EXCEPT ![n] = t]
          /\ write' = [write EXCEPT ![n] =
                         [key |-> k,
                          entry |-> [time |-> t, node |-> n, live |-> t \notin Deletes]]]
    BY <1>1, Zenon DEF Mint
  <2>2. t \in 1..MaxTime
    BY ReplicationAssumption DEF Readings, TypeOK
  <2>3. [key |-> k, entry |-> [time |-> t, node |-> n, live |-> t \notin Deletes]]
          \in [key : Keys, entry : Entries]
    BY <2>2, Zenon DEF Entries
  <2>4. clock' \in [Nodes -> 0..MaxTime] /\ writes' \in 0..MaxWrites
    BY <1>1, <2>1, <2>2, ReplicationAssumption DEF TypeOK, Mint
  <2>5. write' \in [Nodes -> [key : Keys, entry : Entries] \cup {None}]
    BY <2>1, <2>3, Zenon DEF TypeOK
  <2> QED
    BY <1>1, <2>4, <2>5, Zenon DEF TypeOK, Mint
<1>2. ASSUME NEW n \in Nodes, NEW k \in Keys, GcCollect(n, k)
      PROVE  TypeOK'
  BY <1>2, Zenon DEF TypeOK, GcCollect, HasCollectionProof
<1>3. ASSUME NEW n \in Nodes, Apply(n)
      PROVE  TypeOK'
  <2>1. /\ write[n].key \in Keys /\ write[n].entry \in Entries
        /\ Put(n, write[n].key, write[n].entry)
    BY <1>3, Zenon DEF TypeOK, Apply
  <2>2. store' \in [Nodes -> Maps] /\ held' \in [Nodes -> SUBSET (Keys \X Entries)]
    BY <2>1, PutType, Zenon
  <2>3. net' \subseteq Datagrams
    BY <1>3, ApplySends, Zenon DEF TypeOK
  <2> QED
    BY <1>3, <2>2, <2>3, Zenon DEF TypeOK, Apply
<1>4. ASSUME NEW n \in Nodes, Snapshot(n)
      PROVE  TypeOK'
  BY <1>4, Zenon DEF TypeOK, Snapshot
<1>5. ASSUME NEW n \in Nodes, Restart(n)
      PROVE  TypeOK'
  <2>1. disk[n] \in [entries : Maps, members : SUBSET Nodes,
                     acks : [Keys -> [Nodes -> Entries \cup {None}]]]
    BY Zenon DEF TypeOK
  <2>2. restarts' \in 0..MaxRestarts
    BY <1>5, ReplicationAssumption DEF TypeOK, Restart
  <2> QED
    BY <1>5, <2>1, <2>2, Zenon DEF TypeOK, Restart
<1>6. ASSUME NEW n \in Nodes, NEW m \in Nodes, StartReconciliation(n, m)
      PROVE  TypeOK'
  <2>1. net' \subseteq Datagrams
    BY <1>6, RoundSends, Zenon DEF TypeOK
  <2> QED
    BY <1>6, <2>1, Zenon DEF TypeOK, StartReconciliation
<1>7. ASSUME NEW d \in net, Receive(d)
      PROVE  TypeOK'
  <2>1. d \in Datagrams /\ d.to \in Nodes /\ d.from \in Nodes
    <3>1. d \in Datagrams
      BY Zenon DEF TypeOK
    <3> QED
      BY <3>1, DatagramFields, Zenon
  <2>2. members' \in [Nodes -> SUBSET Nodes]
    BY <1>7, <2>1, Zenon DEF TypeOK, Receive
  <2>3. ASSUME d.kind = "compare" \/ d.kind = "ack"
        PROVE  acks' \in [Nodes -> [Keys -> [Nodes -> Entries \cup {None}]]]
    <3>1. d.acks \in Maps
      BY <2>1, <2>3, DatagramFields, Zenon
    <3>2. RecordTombstoneAcks(d.to, d.from, d.acks)
      BY <1>7, <2>3, Zenon DEF Receive
    <3> QED
      BY <2>1, <3>1, <3>2, RecordedAcksType, Zenon
  <2>4. CASE d.kind = "compare"
    <3>1. HandleDatedComparison(d.to, d) /\ UNCHANGED <<store, clock, held>>
      BY <1>7, <2>4, Zenon DEF Receive
    <3>2. net' \subseteq Datagrams
      BY <2>1, <2>4, <3>1, ComparisonSends, Zenon DEF TypeOK
    <3> QED
      BY <1>7, <2>2, <2>3, <2>4, <3>1, <3>2, Zenon DEF TypeOK, Receive
  <2>5. CASE d.kind = "update"
    <3>1. ApplyDatedUpdate(d.to, d) /\ UNCHANGED acks
      BY <1>7, <2>5, Zenon DEF Receive
    <3>2. PICK e \in Entries :
            /\ Put(d.to, d.key, e)
            /\ \A x \in net' : x \in net \/ x \in Datagrams
      BY <2>5, <3>1, UpdateEffect, Zenon
    <3>3. d.key \in Keys /\ clock' \in [Nodes -> 0..MaxTime]
      BY <2>5, <3>1, UpdateEffect, Zenon
    <3>4. store' \in [Nodes -> Maps] /\ held' \in [Nodes -> SUBSET (Keys \X Entries)]
      BY <2>1, <3>2, <3>3, PutType, Zenon
    <3> QED
      BY <1>7, <2>2, <3>1, <3>2, <3>3, <3>4, Zenon DEF TypeOK, Receive
  <2>6. CASE d.kind = "ack"
    BY <1>7, <2>2, <2>3, <2>6, Zenon DEF TypeOK, Receive
  <2> QED
    BY <2>1, <2>4, <2>5, <2>6, DatagramFields, Zenon
<1>8. CASE UNCHANGED vars
  BY <1>8, Zenon DEF TypeOK, vars
<1> QED
  BY <1>1, <1>2, <1>3, <1>4, <1>5, <1>6, <1>7, <1>8, Zenon DEF Next

\* The initial state has the types.
LEMMA TypeInit == Init => TypeOK
BY ReplicationAssumption DEF Init, TypeOK, NoAcks, Nothing, Maps

\* Maps, receipts, snapshots and datagrams keep their shapes, whatever arrives and
\* whoever restarts.
THEOREM ReplicationTypes == Spec => []TypeOK
<1> QED
  BY TypeInit, TypeStep, PTL DEF Spec

\* Every step keeps the evidence.
LEMMA EvidenceStep == TypeOK /\ Evidence /\ [Next]_vars => Evidence'
<1> SUFFICES ASSUME TypeOK, Evidence, [Next]_vars
             PROVE  Evidence'
  OBVIOUS
<1> USE DEF Evidence
<1>1. ASSUME NEW n \in Nodes, NEW k \in Keys, Mint(n, k)
      PROVE  Evidence'
  BY <1>1, Zenon DEF Mint, Recorded, ReceiptsAreHonest
<1>2. ASSUME NEW n \in Nodes, NEW k \in Keys, GcCollect(n, k)
      PROVE  Evidence'
  BY <1>2, Zenon DEF GcCollect, HasCollectionProof, Recorded, ReceiptsAreHonest
<1>3. ASSUME NEW n \in Nodes, Apply(n)
      PROVE  Evidence'
  <2>1. /\ write[n].key \in Keys /\ write[n].entry \in Entries
        /\ Put(n, write[n].key, write[n].entry)
        /\ UNCHANGED <<acks, disk>>
    BY <1>3, Zenon DEF TypeOK, Apply
  <2>2. Recorded' /\ \A m \in Nodes : held[m] \subseteq held'[m]
    BY <2>1, PutKeepsRecorded, PutRecords, Zenon
  <2>3. ASSUME NEW d \in net', d.kind # "update", NEW k \in Keys, d.acks[k] # None
        PROVE  <<k, d.acks[k]>> \in held'[d.from]
    <3>1. d \in net
      BY <1>3, <2>3, ApplySends, Zenon
    <3>2. d.from \in Nodes
      BY <3>1, DatagramFields, Zenon DEF TypeOK
    <3> QED
      BY <2>2, <2>3, <3>1, <3>2, Zenon
  <2> QED
    BY <2>1, <2>2, <2>3, Zenon DEF ReceiptsAreHonest
<1>4. ASSUME NEW n \in Nodes, Snapshot(n)
      PROVE  Evidence'
  <2>1. /\ \A m \in Nodes : \/ disk'[m] = disk[m]
                            \/ disk'[m].entries = store[m] /\ disk'[m].acks = acks[m]
        /\ UNCHANGED <<store, acks, net, held>>
    BY <1>4, Zenon DEF TypeOK, Snapshot
  <2>2. Recorded'
    BY <2>1, Zenon DEF Recorded
  <2>3. ReceiptsAreHonest'
    BY <2>1, Zenon DEF ReceiptsAreHonest
  <2>4. \A i, m \in Nodes, k \in Keys :
          disk'[i].acks[k][m] # None => <<k, disk'[i].acks[k][m]>> \in held[m]
    BY <2>1 DEF ReceiptsAreHonest
  <2> QED
    BY <2>1, <2>2, <2>3, <2>4, Zenon
<1>5. ASSUME NEW n \in Nodes, Restart(n)
      PROVE  Evidence'
  <2>1. /\ \A m \in Nodes : store'[m] = store[m] \/ store'[m] = disk[m].entries
        /\ \A m \in Nodes : acks'[m] = acks[m] \/ acks'[m] = disk[m].acks
        /\ UNCHANGED <<disk, net, held>>
    BY <1>5, Zenon DEF TypeOK, Restart
  <2>2. Recorded'
    BY <2>1, Zenon DEF Recorded
  <2>3. ReceiptsAreHonest'
    BY <2>1 DEF ReceiptsAreHonest
  <2> QED
    BY <2>1, <2>2, <2>3, Zenon
<1>6. ASSUME NEW n \in Nodes, NEW m \in Nodes, StartReconciliation(n, m)
      PROVE  Evidence'
  <2>1. UNCHANGED <<store, acks, disk, held>>
    BY <1>6, Zenon DEF StartReconciliation
  <2>2. ASSUME NEW d \in net', d.kind # "update", NEW k \in Keys, d.acks[k] # None
        PROVE  <<k, d.acks[k]>> \in held[d.from]
    <3>1. d \in net \/ (d.from = n /\ d.acks = Receipts(n))
      BY <1>6, <2>2, RoundSends, Zenon
    <3>2. CASE d \in net
      BY <2>2, <3>2, Zenon
    <3>3. CASE d.from = n /\ d.acks = Receipts(n)
      <4>1. d.acks[k] = store[n][k] /\ Dead(store[n][k])
        BY <2>2, <3>3, ReceiptsHeld
      <4> QED
        BY <3>3, <4>1, Zenon DEF Recorded
    <3> QED
      BY <3>1, <3>2, <3>3, Zenon
  <2> QED
    BY <2>1, <2>2, Zenon DEF Recorded, ReceiptsAreHonest
<1>7. ASSUME NEW d \in net, Receive(d)
      PROVE  Evidence'
  <2>1. d \in Datagrams /\ d.to \in Nodes /\ d.from \in Nodes /\ UNCHANGED disk
    <3>1. d \in Datagrams
      BY Zenon DEF TypeOK
    <3> QED
      BY <1>7, <3>1, DatagramFields, Zenon DEF Receive
  <2>2. ASSUME d.kind # "update"
        PROVE  ReceiptsAreHonest' /\ UNCHANGED <<store, held>>
    <3>1. d.acks \in Maps
      BY <2>1, <2>2, DatagramFields, Zenon
    <3>2. RecordTombstoneAcks(d.to, d.from, d.acks) /\ UNCHANGED <<store, held>>
      BY <1>7, <2>2, Zenon DEF Receive
    <3> QED
      BY <2>1, <2>2, <3>1, <3>2, RecordedAcksHonest, Zenon
  <2>3. CASE d.kind = "compare"
    <3>1. HandleDatedComparison(d.to, d)
      BY <1>7, <2>3, Zenon DEF Receive
    <3>2. ASSUME NEW x \in net', x.kind # "update", NEW k \in Keys, x.acks[k] # None
          PROVE  <<k, x.acks[k]>> \in held[x.from]
      <4>1. x \in net \/ x.acks = Nothing
        BY <2>1, <2>3, <3>1, <3>2, ComparisonSends, Zenon
      <4> QED
        BY <3>2, <4>1, Zenon DEF Nothing
    <3> QED
      BY <2>1, <2>2, <2>3, <3>2, Zenon DEF Recorded
  <2>4. CASE d.kind = "update"
    <3>1. ApplyDatedUpdate(d.to, d) /\ UNCHANGED acks
      BY <1>7, <2>4, Zenon DEF Receive
    <3>2. d.key \in Keys
      BY <2>4, <3>1, UpdateEffect, Zenon
    <3>3. PICK e \in Entries :
            /\ Put(d.to, d.key, e)
            /\ \A x \in net' :
                 \/ x \in net
                 \/ /\ x.from = d.to
                    /\ e \in Tombs
                    /\ x.acks = [Nothing EXCEPT ![d.key] = e]
      BY <2>4, <3>1, UpdateEffect
    <3>4. /\ Recorded' /\ \A m \in Nodes : held[m] \subseteq held'[m]
          /\ e \in Tombs => <<d.key, e>> \in held'[d.to]
      BY <2>1, <3>2, <3>3, PutKeepsRecorded, PutRecords, Zenon
    <3>5. ASSUME NEW x \in net', x.kind # "update", NEW k \in Keys, x.acks[k] # None
          PROVE  <<k, x.acks[k]>> \in held'[x.from]
      <4>1. CASE x \in net
        <5>1. x.from \in Nodes
          BY <4>1, DatagramFields, Zenon DEF TypeOK
        <5> QED
          BY <3>4, <3>5, <4>1, <5>1, Zenon
      <4>2. CASE x \notin net
        <5>1. x.from = d.to /\ e \in Tombs /\ x.acks = [Nothing EXCEPT ![d.key] = e]
          BY <3>3, <4>2, Zenon
        <5>2. k = d.key /\ x.acks[k] = e
          BY <3>2, <3>5, <5>1, Zenon DEF Nothing
        <5> QED
          BY <3>4, <5>1, <5>2, Zenon
      <4> QED
        BY <4>1, <4>2, Zenon
    <3> QED
      BY <2>1, <3>1, <3>4, <3>5, Zenon DEF ReceiptsAreHonest
  <2>5. CASE d.kind = "ack"
    <3>1. UNCHANGED net
      BY <1>7, <2>5, Zenon DEF Receive
    <3> QED
      BY <2>1, <2>2, <2>5, <3>1, Zenon DEF Recorded
  <2> QED
    BY <2>1, <2>3, <2>4, <2>5, DatagramFields, Zenon
<1>8. CASE UNCHANGED vars
  BY <1>8, Zenon DEF vars, Recorded, ReceiptsAreHonest
<1> QED
  BY <1>1, <1>2, <1>3, <1>4, <1>5, <1>6, <1>7, <1>8, Zenon DEF Next

\* A receipt on record names a tombstone its sender really held, for any number of
\* nodes, whatever was lost, delayed, repeated or restarted in between.
THEOREM HonestReceipts == Spec => []ReceiptsAreHonest
<1>1. Init => Evidence
  BY DEF Init, Evidence, Recorded, ReceiptsAreHonest, NoAcks, Nothing, Dead
<1>2. Evidence => ReceiptsAreHonest
  BY Zenon DEF Evidence
<1> QED
  BY <1>1, <1>2, EvidenceStep, TypeInit, TypeStep, PTL DEF Spec

(***************************************************************************)
(* The history of entries.                                                 *)
(***************************************************************************)
\* An entry is known when some node holds it or some update carries it.
Known(k, e) ==
    \/ \E m \in Nodes : store[m][k] = e
    \/ \E d \in net : d.kind = "update" /\ d.key = k /\ d.entry = e

\* A pending write carries its author's latest reading.
PendingIsOwn ==
    \A n \in Nodes : write[n] # None =>
        write[n].entry.node = n /\ write[n].entry.time <= clock[n]

\* What is known was written before whatever its author is about to write, and its
\* author holds it or a newer entry.
Authored ==
    restarts = 0 =>
        \A k \in Keys, e \in Entries : Known(k, e) =>
            /\ AsNew(store[e.node][k], e)
            /\ e.time <= clock[e.node]
            /\ write[e.node] # None => e.time < write[e.node].entry.time

\* A key whose tombstone was held is not forgotten.
Remembered == restarts = 0 => \A n \in Nodes : \A h \in held[n] : store[n][h[1]] # None

\* Being as new is transitive.
LEMMA AsNewTransitive ==
    ASSUME NEW a \in Entries, NEW b \in Entries, NEW c \in Entries,
           AsNew(a, b), AsNew(b, c)
    PROVE  AsNew(a, c)
<1>1. {a.time, b.time, c.time, a.node, b.node, c.node} \subseteq Nat
  BY EntryNumbers, Zenon
<1>2. ~Newer(b, a) /\ ~Newer(c, b) /\ a # None
  BY Zenon DEF AsNew
<1>3. ~Newer(c, a)
  BY <1>1, <1>2 DEF Newer
<1> QED
  BY <1>2, <1>3, Zenon DEF AsNew

\* A step that replaces an entry by one that is as new keeps what authors hold.
LEMMA KnownStep ==
    ASSUME TypeOK, TypeOK', Authored, restarts = 0,
           \A n \in Nodes, k \in Keys : store[n][k] # None => AsNew(store'[n][k], store[n][k]),
           \A n \in Nodes : clock[n] <= clock'[n],
           UNCHANGED write,
           \A k \in Keys, e \in Entries : Known(k, e)' => Known(k, e)
    PROVE  Authored'
<1> SUFFICES ASSUME NEW k \in Keys, NEW e \in Entries, Known(k, e)
             PROVE  /\ AsNew(store'[e.node][k], e)
                    /\ e.time <= clock'[e.node]
                    /\ write[e.node] # None => e.time < write[e.node].entry.time
  BY Zenon DEF Authored
<1>1. /\ AsNew(store[e.node][k], e) /\ e.time <= clock[e.node] /\ e.node \in Nodes
      /\ write[e.node] # None => e.time < write[e.node].entry.time
  BY Zenon DEF Authored, Entries
<1>2. AsNew(store'[e.node][k], e)
  <2>1. /\ store[e.node][k] \in Entries /\ store'[e.node][k] \in Entries
        /\ AsNew(store'[e.node][k], store[e.node][k])
    BY <1>1, StoreTyped DEF AsNew
  <2> QED
    BY <1>1, <2>1, AsNewTransitive, Zenon
<1>3. e.time <= clock'[e.node]
  <2>1. e.time \in Nat /\ clock[e.node] \in Nat /\ clock'[e.node] \in Nat
    BY <1>1, EntryNumbers, ClockTyped, Zenon
  <2>2. clock[e.node] <= clock'[e.node]
    BY <1>1, Zenon
  <2> QED
    BY <1>1, <2>1, <2>2
<1> QED
  BY <1>1, <1>2, <1>3, Zenon
\* Every entry is as new as itself.
LEMMA AsNewReflexive ==
    ASSUME NEW e \in Entries
    PROVE  AsNew(e, e)
<1>1. e.time \in Nat /\ e.node \in Nat /\ e # None
  BY EntryNumbers, NoEntry, Zenon
<1> QED
  BY <1>1 DEF AsNew, Newer

\* An update that arrives leaves every map as new as it was, teaches nobody an entry
\* that was not known, and records only tombstones that are held.
LEMMA UpdateAdvances ==
    ASSUME TypeOK, NEW d \in net, d.kind = "update", Receive(d)
    PROVE  /\ \A n \in Nodes, k \in Keys : store[n][k] # None => AsNew(store'[n][k], store[n][k])
           /\ \A n \in Nodes : clock[n] <= clock'[n]
           /\ \A k \in Keys, e \in Entries : Known(k, e)' => Known(k, e)
           /\ \A n \in Nodes : \A h \in held'[n] : h \in held[n] \/ store'[n][h[1]] # None
<1>1. ApplyDatedUpdate(d.to, d)
  BY Zenon DEF Receive
<1>2. /\ d.key \in Keys /\ d.entry \in Entries /\ d.to \in Nodes
      /\ clock' \in [Nodes -> 0..MaxTime]
      /\ \A n \in Nodes : clock'[n] >= clock[n]
  BY <1>1, UpdateEffect, Zenon
<1>3. PICK e \in Entries :
        /\ e = d.entry \/ e = store[d.to][d.key]
        /\ store[d.to][d.key] # None => AsNew(e, store[d.to][d.key])
        /\ Put(d.to, d.key, e)
        /\ \A x \in net' : x \in net \/ x.kind = "ack"
  BY <1>1, UpdateEffect, Zenon
<1>4. /\ store'[d.to][d.key] = e
      /\ \A m \in Nodes, j \in Keys : m # d.to \/ j # d.key => store'[m][j] = store[m][j]
  BY <1>2, <1>3, StoreTyped, Zenon DEF Put
<1>5. ASSUME NEW n \in Nodes, NEW k \in Keys, store[n][k] # None
      PROVE  AsNew(store'[n][k], store[n][k])
  <2>1. store[n][k] \in Entries
    BY <1>5, StoreTyped, Zenon
  <2> QED
    BY <1>3, <1>4, <1>5, <2>1, AsNewReflexive, Zenon
<1>6. \A n \in Nodes : clock[n] <= clock'[n]
  BY <1>2, ClockTyped, Zenon
<1>7. ASSUME NEW k \in Keys, NEW f \in Entries, Known(k, f)'
      PROVE  Known(k, f)
  <2>1. CASE \E m \in Nodes : store'[m][k] = f
    BY <1>2, <1>3, <1>4, <2>1, Zenon DEF Known
  <2>2. CASE \E x \in net' : x.kind = "update" /\ x.key = k /\ x.entry = f
    BY <1>3, <2>2, Zenon DEF Known
  <2> QED
    BY <1>7, <2>1, <2>2, Zenon DEF Known
<1>8. ASSUME NEW n \in Nodes, NEW h \in held'[n], h \notin held[n]
      PROVE  store'[n][h[1]] # None
  <2>1. n = d.to /\ h = <<d.key, e>>
    BY <1>2, <1>3, <1>8, HeldTyped, Zenon DEF Put
  <2> QED
    BY <1>3, <1>4, <2>1, NoEntry, Zenon
<1> QED
  BY <1>5, <1>6, <1>7, <1>8, Zenon

\* While nobody restarts, only a node's own write can set an entry of its map back,
\* and nothing empties one.
LEMMA MapsAdvance ==
    ASSUME TypeOK, [Next]_vars, restarts' = 0, NEW n \in Nodes, NEW k \in Keys,
           store[n][k] # None
    PROVE  /\ store'[n][k] # None
           /\ write'[n] = write[n] => AsNew(store'[n][k], store[n][k])
<1>1. AsNew(store[n][k], store[n][k])
  <2>1. store[n][k] \in Entries
    BY StoreTyped, Zenon
  <2> QED
    BY <2>1, AsNewReflexive, Zenon
<1>2. ASSUME UNCHANGED store
      PROVE  store'[n][k] # None /\ AsNew(store'[n][k], store[n][k])
  BY <1>1, <1>2, Zenon
<1>3. CASE \E m \in Nodes, j \in Keys : Mint(m, j) \/ GcCollect(m, j)
  BY <1>2, <1>3, Zenon DEF Mint, GcCollect, HasCollectionProof
<1>4. ASSUME NEW m \in Nodes, Apply(m)
      PROVE  /\ store'[n][k] # None
             /\ write'[n] = write[n] => AsNew(store'[n][k], store[n][k])
  <2>1. /\ write[m] # None /\ write[m].key \in Keys /\ write[m].entry \in Entries
        /\ store' = [store EXCEPT ![m][write[m].key] = write[m].entry]
        /\ write' = [write EXCEPT ![m] = None]
    BY <1>4, WriteTyped, Zenon DEF Apply, Put
  <2>2. CASE m = n
    <3>1. write'[n] # write[n]
      BY <2>1, <2>2, WriteTyped, Zenon
    <3>2. store'[n][k] = store[n][k] \/ store'[n][k] = write[m].entry
      BY <2>1, <2>2, StoreTyped, Zenon
    <3> QED
      BY <2>1, <3>1, <3>2, NoEntry, Zenon
  <2>3. CASE m # n
    <3>1. store'[n][k] = store[n][k]
      BY <2>1, <2>3, StoreTyped, Zenon
    <3> QED
      BY <1>1, <3>1, Zenon
  <2> QED
    BY <2>2, <2>3, Zenon
<1>5. CASE \E m \in Nodes : Snapshot(m)
  BY <1>2, <1>5, Zenon DEF Snapshot
<1>6. CASE \E m \in Nodes : Restart(m)
  BY <1>6, RestartsCount, Zenon
<1>7. CASE \E m, j \in Nodes : StartReconciliation(m, j)
  BY <1>2, <1>7, Zenon DEF StartReconciliation
<1>8. ASSUME NEW d \in net, Receive(d)
      PROVE  store'[n][k] # None /\ AsNew(store'[n][k], store[n][k])
  <2>1. CASE d.kind = "update"
    BY <1>8, <2>1, UpdateAdvances, Zenon DEF AsNew
  <2>2. CASE d.kind # "update"
    BY <1>2, <1>8, <2>2, Zenon DEF Receive
  <2> QED
    BY <2>1, <2>2, Zenon
<1>9. CASE UNCHANGED vars
  BY <1>2, <1>9, Zenon DEF vars
<1> QED
  BY <1>3, <1>4, <1>5, <1>6, <1>7, <1>8, <1>9, Zenon DEF Next
\* Every step leaves a pending write with its author's stamp.
LEMMA PendingStep == TypeOK /\ PendingIsOwn /\ [Next]_vars => PendingIsOwn'
<1> SUFFICES ASSUME TypeOK, PendingIsOwn, [Next]_vars
             PROVE  PendingIsOwn'
  OBVIOUS
<1>1. ASSUME NEW n \in Nodes, NEW k \in Keys, Mint(n, k)
      PROVE  PendingIsOwn'
  <2>1. PICK t \in Readings(n) :
          /\ clock' = [clock EXCEPT ![n] = t]
          /\ write' = [write EXCEPT ![n] =
                         [key |-> k,
                          entry |-> [time |-> t, node |-> n, live |-> t \notin Deletes]]]
    BY <1>1, Zenon DEF Mint
  <2>2. t \in Nat
    BY ReplicationAssumption, ClockTyped DEF Readings
  <2>3. ASSUME NEW m \in Nodes, write'[m] # None
        PROVE  write'[m].entry.node = m /\ write'[m].entry.time <= clock'[m]
    <3>1. CASE m = n
      BY <2>1, <2>2, <3>1, WriteTyped, ClockTyped
    <3>2. CASE m # n
      BY <2>1, <2>3, <3>2, WriteTyped, ClockTyped, Zenon DEF PendingIsOwn
    <3> QED
      BY <3>1, <3>2, Zenon
  <2> QED
    BY <2>3, Zenon DEF PendingIsOwn
<1>2. ASSUME \A m \in Nodes : write'[m] # None => write'[m] = write[m],
             \A m \in Nodes : clock[m] <= clock'[m], TypeOK'
      PROVE  PendingIsOwn'
  <2> SUFFICES ASSUME NEW m \in Nodes, write'[m] # None
               PROVE  write'[m].entry.node = m /\ write'[m].entry.time <= clock'[m]
    BY Zenon DEF PendingIsOwn
  <2>1. /\ write'[m] = write[m] /\ write[m].entry \in Entries
        /\ write[m].entry.node = m /\ write[m].entry.time <= clock[m]
    BY <1>2, WriteTyped, Zenon DEF PendingIsOwn
  <2>2. clock[m] \in Nat /\ clock'[m] \in Nat /\ write[m].entry.time \in Nat
    BY <1>2, <2>1, EntryNumbers, ClockTyped, Zenon
  <2> QED
    BY <1>2, <2>1, <2>2
<1>3. TypeOK'
  BY TypeStep, Zenon
<1>4. ASSUME UNCHANGED clock
      PROVE  \A m \in Nodes : clock[m] <= clock'[m]
  <2>1. \A m \in Nodes : clock[m] \in Nat
    BY ClockTyped, Zenon
  <2> QED
    BY <1>4, <2>1
<1>5. CASE \E n \in Nodes, k \in Keys : GcCollect(n, k)
  BY <1>2, <1>3, <1>4, <1>5, Zenon DEF GcCollect
<1>6. ASSUME NEW n \in Nodes, Apply(n) \/ Snapshot(n) \/ Restart(n)
      PROVE  PendingIsOwn'
  <2>1. UNCHANGED clock /\ (UNCHANGED write \/ write' = [write EXCEPT ![n] = None])
    BY <1>6, Zenon DEF Apply, Snapshot, Restart
  <2>2. \A m \in Nodes : write'[m] # None => write'[m] = write[m]
    BY <2>1, WriteTyped, Zenon
  <2> QED
    BY <1>2, <1>3, <1>4, <2>1, <2>2, Zenon
<1>7. CASE \E n, m \in Nodes : StartReconciliation(n, m)
  BY <1>2, <1>3, <1>4, <1>7, Zenon DEF StartReconciliation
<1>8. ASSUME NEW d \in net, Receive(d)
      PROVE  PendingIsOwn'
  <2>1. UNCHANGED write
    BY <1>8, Zenon DEF Receive
  <2>2. CASE d.kind = "update"
    BY <1>2, <1>3, <1>8, <2>1, <2>2, UpdateAdvances, Zenon
  <2>3. CASE d.kind # "update"
    <3>1. UNCHANGED clock
      BY <1>8, <2>3, Zenon DEF Receive
    <3> QED
      BY <1>2, <1>3, <1>4, <2>1, <3>1, Zenon
  <2> QED
    BY <2>2, <2>3, Zenon
<1>9. CASE UNCHANGED vars
  BY <1>2, <1>3, <1>4, <1>9, Zenon DEF vars
<1> QED
  BY <1>1, <1>5, <1>6, <1>7, <1>8, <1>9, Zenon DEF Next

\* Every step keeps what is known with its author.
LEMMA AuthoredStep == TypeOK /\ PendingIsOwn /\ Authored /\ [Next]_vars => Authored'
<1> SUFFICES ASSUME TypeOK, PendingIsOwn, Authored, [Next]_vars, restarts' = 0
             PROVE  Authored'
  BY Zenon DEF Authored
<1>1. TypeOK'
  BY TypeStep, Zenon
<1>2. restarts = 0
  BY RestartsCount, Zenon
<1>3. ASSUME UNCHANGED <<store, clock, write>>,
             \A k \in Keys, e \in Entries : Known(k, e)' => Known(k, e)
      PROVE  Authored'
  <2>1. ASSUME NEW n \in Nodes, NEW k \in Keys, store[n][k] # None
        PROVE  AsNew(store'[n][k], store[n][k])
    <3>1. store[n][k] \in Entries
      BY <2>1, StoreTyped, Zenon
    <3> QED
      BY <1>3, <3>1, AsNewReflexive, Zenon
  <2>2. \A n \in Nodes : clock[n] <= clock'[n]
    BY <1>3, ClockTyped
  <2> QED
    BY <1>1, <1>2, <1>3, <2>1, <2>2, KnownStep, Zenon
<1>4. ASSUME NEW n \in Nodes, NEW k \in Keys, Mint(n, k)
      PROVE  Authored'
  <2>1. PICK t \in Readings(n) :
          /\ clock' = [clock EXCEPT ![n] = t]
          /\ write' = [write EXCEPT ![n] =
                         [key |-> k,
                          entry |-> [time |-> t, node |-> n, live |-> t \notin Deletes]]]
    BY <1>4, Zenon DEF Mint
  <2>2. t \in Nat /\ clock[n] \in Nat /\ clock[n] < t
    BY ReplicationAssumption, ClockTyped DEF Readings
  <2>3. UNCHANGED <<store, net>>
    BY <1>4, Zenon DEF Mint
  <2> SUFFICES ASSUME NEW j \in Keys, NEW e \in Entries, Known(j, e)
               PROVE  /\ AsNew(store[e.node][j], e)
                      /\ e.time <= clock'[e.node]
                      /\ write'[e.node] # None => e.time < write'[e.node].entry.time
    BY <2>3, Zenon DEF Authored, Known
  <2>4. /\ AsNew(store[e.node][j], e) /\ e.time <= clock[e.node]
        /\ write[e.node] # None => e.time < write[e.node].entry.time
    BY <1>2, Zenon DEF Authored
  <2>5. e.time \in Nat /\ e.node \in Nodes
    BY EntryNumbers, Zenon
  <2>6. CASE e.node = n
    <3>1. clock'[e.node] = t /\ write'[e.node].entry.time = t
      BY <2>1, <2>6, WriteTyped, ClockTyped, Zenon
    <3>2. e.time <= t /\ e.time < t
      BY <2>2, <2>4, <2>5, <2>6
    <3> QED
      BY <2>4, <3>1, <3>2, Zenon
  <2>7. CASE e.node # n
    BY <2>1, <2>4, <2>5, <2>7, WriteTyped, ClockTyped, Zenon
  <2> QED
    BY <2>6, <2>7, Zenon
<1>5. ASSUME NEW n \in Nodes, Apply(n)
      PROVE  Authored'
  <2> DEFINE w == write[n].entry
             key == write[n].key
  <2>1. /\ write[n] # None /\ key \in Keys /\ w \in Entries
        /\ store' = [store EXCEPT ![n][key] = w]
        /\ write' = [write EXCEPT ![n] = None]
        /\ UNCHANGED clock
    BY <1>5, WriteTyped, Zenon DEF Apply, Put
  <2>2. w.node = n /\ w.time <= clock[n] /\ w.time \in Nat
    BY <2>1, EntryNumbers, Zenon DEF PendingIsOwn
  <2>3. store'[n][key] = w
    BY <2>1, StoreTyped, Zenon
  <2>4. write'[n] = None /\ \A m \in Nodes : m # n => write'[m] = write[m]
    BY <2>1, WriteTyped, Zenon
  <2> HIDE DEF w, key
  <2> SUFFICES ASSUME NEW k \in Keys, NEW e \in Entries, Known(k, e)'
               PROVE  /\ AsNew(store'[e.node][k], e)
                      /\ e.time <= clock[e.node]
                      /\ write'[e.node] # None => e.time < write'[e.node].entry.time
    BY <2>1, Zenon DEF Authored
  <2>5. Known(k, e) \/ (k = key /\ e = w)
    <3>1. CASE \E m \in Nodes : store'[m][k] = e
      BY <2>1, <3>1, StoreTyped, Zenon DEF Known
    <3>2. CASE \E x \in net' : x.kind = "update" /\ x.key = k /\ x.entry = e
      BY <1>5, <3>2, ApplySends, Zenon DEF Known, w, key
    <3> QED
      BY <3>1, <3>2, Zenon DEF Known
  <2>6. CASE k = key /\ e = w
    BY <2>1, <2>2, <2>3, <2>4, <2>6, AsNewReflexive, Zenon
  <2>7. CASE Known(k, e)
    <3>1. /\ AsNew(store[e.node][k], e) /\ e.time <= clock[e.node]
          /\ write[e.node] # None => e.time < write[e.node].entry.time
          /\ e.node \in Nodes /\ e.time \in Nat
      BY <1>2, <2>7, EntryNumbers, Zenon DEF Authored
    <3>2. CASE e.node = n /\ k = key
      <4>1. e.time < w.time
        BY <2>1, <3>1, <3>2, Zenon DEF w
      <4>2. AsNew(w, e)
        <5>1. ~Newer(e, w)
          BY <2>2, <3>1, <4>1 DEF Newer
        <5> QED
          BY <2>1, <5>1, NoEntry, Zenon DEF AsNew
      <4> QED
        BY <2>3, <2>4, <3>1, <3>2, <4>2, Zenon
    <3>3. CASE e.node # n \/ k # key
      <4>1. store'[e.node][k] = store[e.node][k]
        BY <2>1, <3>1, <3>3, StoreTyped, Zenon
      <4> QED
        BY <2>4, <3>1, <4>1, Zenon
    <3> QED
      BY <3>2, <3>3, Zenon
  <2> QED
    BY <2>5, <2>6, <2>7, Zenon
<1>6. CASE \E n \in Nodes, k \in Keys : GcCollect(n, k)
  BY <1>3, <1>6, Zenon DEF GcCollect, HasCollectionProof, Known
<1>7. CASE \E n \in Nodes : Snapshot(n)
  BY <1>3, <1>7, Zenon DEF Snapshot, Known
<1>8. CASE \E n \in Nodes : Restart(n)
  BY <1>8, RestartsCount, Zenon
<1>9. ASSUME NEW n \in Nodes, NEW m \in Nodes, StartReconciliation(n, m)
      PROVE  Authored'
  <2>1. UNCHANGED <<store, clock, write>>
    BY <1>9, Zenon DEF StartReconciliation
  <2>2. ASSUME NEW k \in Keys, NEW e \in Entries, Known(k, e)'
        PROVE  Known(k, e)
    BY <1>9, <2>1, <2>2, RoundSends, Zenon DEF Known
  <2> QED
    BY <1>3, <2>1, <2>2, Zenon
<1>10. ASSUME NEW d \in net, Receive(d)
       PROVE  Authored'
  <2>1. d \in Datagrams /\ d.to \in Nodes
    <3>1. d \in Datagrams
      BY Zenon DEF TypeOK
    <3> QED
      BY <3>1, DatagramFields, Zenon
  <2>2. CASE d.kind = "compare"
    <3>1. HandleDatedComparison(d.to, d) /\ UNCHANGED <<store, clock, write>>
      BY <1>10, <2>2, Zenon DEF Receive
    <3>2. ASSUME NEW k \in Keys, NEW e \in Entries, Known(k, e)'
          PROVE  Known(k, e)
      BY <2>1, <2>2, <3>1, <3>2, ComparisonSends DEF Known
    <3> QED
      BY <1>3, <3>1, <3>2, Zenon
  <2>3. CASE d.kind = "update"
    <3>1. UNCHANGED write
      BY <1>10, Zenon DEF Receive
    <3> QED
      BY <1>1, <1>2, <1>10, <2>3, <3>1, UpdateAdvances, KnownStep, Zenon
  <2>4. CASE d.kind = "ack"
    BY <1>3, <1>10, <2>4, Zenon DEF Receive, Known
  <2> QED
    BY <2>1, <2>2, <2>3, <2>4, DatagramFields, Zenon
<1>11. CASE UNCHANGED vars
  BY <1>3, <1>11, Zenon DEF vars, Known
<1> QED
  BY <1>4, <1>5, <1>6, <1>7, <1>8, <1>9, <1>10, <1>11, Zenon DEF Next
\* Every step remembers the keys whose tombstones were held.
LEMMA RememberedStep == TypeOK /\ Remembered /\ [Next]_vars => Remembered'
<1> SUFFICES ASSUME TypeOK, Remembered, [Next]_vars, restarts' = 0,
                    NEW n \in Nodes, NEW h \in held'[n]
             PROVE  store'[n][h[1]] # None
  BY Zenon DEF Remembered
<1>1. restarts = 0
  BY RestartsCount, Zenon
<1>2. CASE h \in held[n]
  <2>1. h[1] \in Keys /\ store[n][h[1]] # None
    BY <1>1, <1>2, HeldTyped DEF Remembered
  <2> QED
    BY <2>1, MapsAdvance, Zenon
<1>3. CASE h \notin held[n]
  <2>1. CASE \E m \in Nodes : Apply(m)
    <3>1. PICK m \in Nodes : Apply(m)
      BY <2>1, Zenon
    <3>2. /\ write[m].key \in Keys /\ write[m].entry \in Entries
          /\ Put(m, write[m].key, write[m].entry)
      BY <3>1, WriteTyped, Zenon DEF Apply
    <3>3. m = n /\ h = <<write[m].key, write[m].entry>>
      BY <1>3, <3>2, HeldTyped, Zenon DEF Put
    <3> QED
      BY <3>2, <3>3, PutRecords, NoEntry
  <2>2. CASE \E d \in net : d.kind = "update" /\ Receive(d)
    BY <1>3, <2>2, UpdateAdvances, Zenon
  <2>3. CASE UNCHANGED held
    BY <1>3, <2>3, Zenon
  <2> QED
    BY <2>1, <2>2, <2>3, Zenon
       DEF Next, vars, Mint, GcCollect, Snapshot, Restart, StartReconciliation, Receive
<1> QED
  BY <1>2, <1>3, Zenon

\* The three invariants about authors and deletions hold at first.
LEMMA HistoryInit == Init => PendingIsOwn /\ Authored /\ Remembered
<1> SUFFICES ASSUME Init
             PROVE  PendingIsOwn /\ Authored /\ Remembered
  OBVIOUS
<1>1. PendingIsOwn /\ Remembered
  BY Zenon DEF Init, PendingIsOwn, Remembered
<1>2. ASSUME NEW k \in Keys, NEW e \in Entries
      PROVE  ~Known(k, e)
  BY NoEntry, Zenon DEF Init, Known, Nothing
<1> QED
  BY <1>1, <1>2, Zenon DEF Authored

\* While nobody restarts, whatever entry is held anywhere its author still holds, or
\* a newer one: taking the stamp before the locks loses no write.
THEOREM AuthorsKeepWrites == Spec => []AuthorKeepsIt
<1>1. TypeOK /\ Authored => AuthorKeepsIt
  <2> SUFFICES ASSUME TypeOK, Authored, restarts = 0, NEW n \in Nodes, NEW k \in Keys,
                      store[n][k] # None
               PROVE  AsNew(store[store[n][k].node][k], store[n][k])
    BY Zenon DEF AuthorKeepsIt
  <2>1. store[n][k] \in Entries /\ Known(k, store[n][k])
    BY StoreTyped, Zenon DEF Known
  <2> QED
    BY <2>1, Zenon DEF Authored
<1> QED
  BY <1>1, HistoryInit, PendingStep, AuthoredStep, TypeInit, TypeStep, PTL DEF Spec

\* No datagram, however delayed or repeated, brings back a key whose tombstone the
\* receiver has held and did not write over itself, because collection is closed.
THEOREM DeletionsStick == Spec => DeletionSticks
<1> DEFINE Step ==
        restarts' = 0 =>
          \A n \in Nodes : write'[n] = write[n] =>
            \A h \in held[n] :
                LET before == store[n][h[1]]
                    after == store'[n][h[1]]
                IN  (before = None \/ AsNew(before, h[2])) /\ after # None
                        => AsNew(after, h[2])
<1>1. TypeOK /\ TypeOK' /\ Remembered /\ [Next]_vars => [Step]_vars
  <2> SUFFICES ASSUME TypeOK, TypeOK', Remembered, [Next]_vars, restarts' = 0,
                      NEW n \in Nodes, write'[n] = write[n], NEW h \in held[n],
                      store[n][h[1]] = None \/ AsNew(store[n][h[1]], h[2])
               PROVE  AsNew(store'[n][h[1]], h[2])
    OBVIOUS
  <2>1. restarts = 0
    BY RestartsCount, Zenon
  <2>2. h[1] \in Keys /\ h[2] \in Entries /\ store[n][h[1]] # None
    BY <2>1, HeldTyped DEF Remembered
  <2>3. AsNew(store'[n][h[1]], store[n][h[1]])
    BY <2>2, MapsAdvance, Zenon
  <2>4. store[n][h[1]] \in Entries /\ store'[n][h[1]] \in Entries
    BY <2>2, <2>3, StoreTyped DEF AsNew
  <2> QED
    BY <2>2, <2>3, <2>4, AsNewTransitive, Zenon
<1>2. DeletionSticks <=> [][Step]_vars
  BY Zenon DEF DeletionSticks
<1> HIDE DEF Step
<1> QED
  BY <1>1, <1>2, HistoryInit, RememberedStep, TypeInit, TypeStep, PTL DEF Spec
================================================================================
