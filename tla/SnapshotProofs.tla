--------------------------- MODULE SnapshotProofs ----------------------------
(***************************************************************************)
(* The two sides of a snapshot, for any keys, entries, peers, limits and   *)
(* numbers of generations and faults.  The journal loses nothing and its   *)
(* change count is right.  The file backend keeps what it promised across  *)
(* every power loss, its chain of deltas stays short, and it implements the *)
(* atomic backend; the file system is assumed to commit a directory's own  *)
(* entry when the directory is synced.                                     *)
(***************************************************************************)
EXTENDS SnapshotJournal, FileSnapshot, FiniteSetTheorems, WellFoundedInduction, NaturalsInduction,
        TLAPS

(***************************************************************************)
(* What applying a generation does.                                        *)
(***************************************************************************)
\* Two persisted states that agree item by item are the same.
LEMMA StateEquality ==
    ASSUME NEW s \in PersistedStates, NEW t \in PersistedStates,
           \A k \in Keys : s.entries[k] = t.entries[k],
           s.members = t.members,
           \A k \in Keys, p \in Peers : s.acks[k][p] = t.acks[k][p]
    PROVE  s = t
<1>1. s.entries = t.entries
  BY DEF PersistedStates
<1>2. s.acks = t.acks
  <2>1. ASSUME NEW k \in Keys PROVE s.acks[k] = t.acks[k]
    BY DEF PersistedStates
  <2> QED
    BY <2>1 DEF PersistedStates
<1> QED
  BY <1>1, <1>2 DEF PersistedStates

\* apply_delta yields a well-formed persisted state.
LEMMA OverlayType ==
    ASSUME NEW s \in PersistedStates, NEW g \in SnapshotGenerations
    PROVE  Overlay(s, g) \in PersistedStates
  BY DEF Overlay, PersistedStates, SnapshotGenerations

\* Overlay, item by item.
LEMMA OverlayItems ==
    ASSUME NEW s \in PersistedStates, NEW g \in SnapshotGenerations
    PROVE  /\ \A k \in Keys :
                Overlay(s, g).entries[k] = IF g.entries[k] = Same THEN s.entries[k]
                                                                  ELSE g.entries[k]
           /\ Overlay(s, g).members = (s.members \cup g.joined) \ g.left
           /\ \A k \in Keys, p \in Peers :
                Overlay(s, g).acks[k][p] = IF g.acks[k][p] # Same THEN g.acks[k][p]
                                           ELSE IF k \in g.clears THEN None
                                           ELSE s.acks[k][p]
  BY Zenon DEF Overlay

\* The empty generation and the empty state are well formed.
LEMMA EmptyTypes == NoGeneration \in SnapshotGenerations /\ EmptyState \in PersistedStates
  BY Zenon DEF NoGeneration, SnapshotGenerations, EmptyState, PersistedStates

\* A generation that records nothing changes nothing.
LEMMA OverlayNothing ==
    ASSUME NEW s \in PersistedStates
    PROVE  Overlay(s, NoGeneration) = s
<1> DEFINE g == NoGeneration
<1>1. \A k \in Keys, p \in Peers : g.entries[k] = Same /\ g.acks[k][p] = Same
  BY Zenon DEF NoGeneration
<1>2. \A k \in Keys : g.entries[k] = Same
  BY Zenon DEF NoGeneration
<1>3. g.joined = {} /\ g.left = {} /\ g.clears = {}
  BY Zenon DEF NoGeneration
<1>4. g \in SnapshotGenerations
  BY EmptyTypes, Zenon
<1> HIDE DEF g
<1>5. Overlay(s, g) \in PersistedStates
  BY <1>4, OverlayType, Zenon
<1>6. \A k \in Keys : Overlay(s, g).entries[k] = s.entries[k]
  BY <1>2, <1>4, OverlayItems
<1>7. Overlay(s, g).members = s.members
  <2>1. Overlay(s, g).members = (s.members \cup g.joined) \ g.left
    BY <1>4, OverlayItems, Zenon
  <2> QED
    BY <1>3, <2>1, Zenon
<1>8. \A k \in Keys, p \in Peers : Overlay(s, g).acks[k][p] = s.acks[k][p]
  BY <1>1, <1>3, <1>4, OverlayItems
<1>9. Overlay(s, g) = s
  BY <1>5, <1>6, <1>7, <1>8, StateEquality, Zenon
<1> QED
  BY <1>9, Zenon DEF g

\* Applying again what a state already contains changes nothing: a retried
\* delta and a journal replayed over a newer full save are harmless.
LEMMA OverlayAgain ==
    ASSUME NEW s \in PersistedStates, NEW f \in SnapshotGenerations, NEW g \in SnapshotGenerations,
           NEW m \in PersistedStates, Overlay(Overlay(s, f), g) = m
    PROVE  /\ Overlay(m, g) = m
           /\ Overlay(Overlay(m, f), g) = m
<1> DEFINE t == Overlay(s, f)
           u == Overlay(m, f)
<1>1. t \in PersistedStates /\ u \in PersistedStates
  BY OverlayType, Zenon
<1>2. Overlay(t, g) = m
  OBVIOUS
<1>3. /\ Overlay(m, g) \in PersistedStates
      /\ Overlay(u, g) \in PersistedStates
  BY <1>1, OverlayType, Zenon
<1>4. /\ \A k \in Keys :
           /\ t.entries[k] = IF f.entries[k] = Same THEN s.entries[k] ELSE f.entries[k]
           /\ u.entries[k] = IF f.entries[k] = Same THEN m.entries[k] ELSE f.entries[k]
      /\ t.members = (s.members \cup f.joined) \ f.left
      /\ u.members = (m.members \cup f.joined) \ f.left
      /\ \A k \in Keys, p \in Peers :
           /\ t.acks[k][p] = IF f.acks[k][p] # Same THEN f.acks[k][p]
                             ELSE IF k \in f.clears THEN None ELSE s.acks[k][p]
           /\ u.acks[k][p] = IF f.acks[k][p] # Same THEN f.acks[k][p]
                             ELSE IF k \in f.clears THEN None ELSE m.acks[k][p]
  BY OverlayItems
<1> HIDE DEF t, u
<1>5. /\ \A k \in Keys :
           m.entries[k] = IF g.entries[k] = Same THEN t.entries[k] ELSE g.entries[k]
      /\ m.members = (t.members \cup g.joined) \ g.left
      /\ \A k \in Keys, p \in Peers :
           m.acks[k][p] = IF g.acks[k][p] # Same THEN g.acks[k][p]
                          ELSE IF k \in g.clears THEN None ELSE t.acks[k][p]
  BY <1>1, <1>2, OverlayItems
<1>6. Overlay(m, g) = m
  <2>1. \A k \in Keys : Overlay(m, g).entries[k] = m.entries[k]
    BY <1>5, OverlayItems
  <2>2. Overlay(m, g).members = m.members
    <3>1. Overlay(m, g).members = (m.members \cup g.joined) \ g.left
      BY OverlayItems
    <3> QED
      BY <1>5, <3>1, Zenon
  <2>3. \A k \in Keys, p \in Peers : Overlay(m, g).acks[k][p] = m.acks[k][p]
    BY <1>5, OverlayItems
  <2> QED
    BY <1>3, <2>1, <2>2, <2>3, StateEquality, Zenon
<1>7. Overlay(u, g) = m
  <2>1. \A k \in Keys : Overlay(u, g).entries[k] = m.entries[k]
    BY <1>1, <1>4, <1>5, OverlayItems
  <2>2. Overlay(u, g).members = m.members
    <3>1. Overlay(u, g).members = (u.members \cup g.joined) \ g.left
      BY <1>1, OverlayItems
    <3> QED
      BY <1>4, <1>5, <3>1, Zenon
  <2>3. \A k \in Keys, p \in Peers : Overlay(u, g).acks[k][p] = m.acks[k][p]
    BY <1>1, <1>4, <1>5, OverlayItems
  <2> QED
    BY <1>1, <1>3, <2>1, <2>2, <2>3, StateEquality, Zenon
<1> QED
  BY <1>6, <1>7, Zenon DEF u

(***************************************************************************)
(* Every mutation records in the open generation exactly what it does to   *)
(* memory, and counts what it records.                                     *)
(***************************************************************************)
Recorded ==
    /\ mem' \in PersistedStates
    /\ open' \in SnapshotGenerations
    /\ changes' \in Nat
    /\ changes' + open.raw = changes + open'.raw
    /\ \A s \in PersistedStates : Overlay(s, open) = mem => Overlay(s, open') = mem'
    /\ UNCHANGED <<frozen, stage, job, cut, disk>>

\* What a mutation does to m, it records in g: each item is left alone in both
\* or written alike in both.
LEMMA RecordedItemwise ==
    ASSUME NEW s \in PersistedStates, NEW m \in PersistedStates, NEW n \in PersistedStates,
           NEW g \in SnapshotGenerations, NEW h \in SnapshotGenerations,
           Overlay(s, g) = m,
           \A k \in Keys :
              \/ h.entries[k] = g.entries[k] /\ n.entries[k] = m.entries[k]
              \/ h.entries[k] # Same /\ n.entries[k] = h.entries[k],
           (s.members \cup h.joined) \ h.left = n.members,
           \A k \in Keys, p \in Peers :
              \/ /\ h.acks[k][p] = g.acks[k][p]
                 /\ k \in h.clears <=> k \in g.clears
                 /\ n.acks[k][p] = m.acks[k][p]
              \/ h.acks[k][p] # Same /\ n.acks[k][p] = h.acks[k][p]
              \/ h.acks[k][p] = Same /\ k \in h.clears /\ n.acks[k][p] = None
    PROVE  Overlay(s, h) = n
<1>1. \A k \in Keys : Overlay(s, h).entries[k] = n.entries[k]
  BY OverlayItems
<1>2. Overlay(s, h).members = n.members
  BY OverlayItems, Zenon
<1>3. \A k \in Keys, p \in Peers : Overlay(s, h).acks[k][p] = n.acks[k][p]
  BY OverlayItems, SMTT(30)
<1>4. Overlay(s, h) \in PersistedStates
  BY OverlayType, Zenon
<1> QED
  BY <1>1, <1>2, <1>3, <1>4, StateEquality, Zenon

\* The number of records of one mutation is a natural number.
LEMMA DomainCount ==
    ASSUME NEW ks \in SUBSET Keys
    PROVE  Cardinality(ks) \in Nat
  BY JournalAssumption, FS_Subset, FS_CardinalityType, Zenon

\* Local writes and accepted gossip updates are journalled as they are applied.
LEMMA WriteEntriesRecorded ==
    ASSUME JournalTypeOK, NEW ks \in SUBSET Keys, NEW upd \in [ks -> Entries], WriteEntries(upd)
    PROVE  Recorded
<1> DEFINE n == Cardinality(ks)
<1>1. n \in Nat /\ DOMAIN upd = ks
  BY DomainCount, Zenon
<1>2. /\ mem' = [mem EXCEPT !.entries = Override(mem.entries, upd)]
      /\ open' = [open EXCEPT !.entries = Override(open.entries, upd), !.raw = open.raw + n]
      /\ changes' = changes + n
      /\ UNCHANGED <<frozen, stage, job, cut, disk>>
  BY <1>1, Zenon DEF WriteEntries, RecordEntries, n
<1> HIDE DEF n
<1>3. mem \in PersistedStates /\ open \in SnapshotGenerations /\ changes \in Nat
  BY Zenon DEF JournalTypeOK
<1>4. mem' = [entries |-> Override(mem.entries, upd), members |-> mem.members,
              acks |-> mem.acks]
  BY <1>2, <1>3, Zenon DEF PersistedStates
<1>5. open' = [entries |-> Override(open.entries, upd), joined |-> open.joined,
               left |-> open.left, clears |-> open.clears, acks |-> open.acks,
               raw |-> open.raw + n]
  BY <1>2, <1>3, Zenon DEF SnapshotGenerations
<1>6. mem' \in PersistedStates
  BY <1>1, <1>3, <1>4, Zenon DEF PersistedStates, Override
<1>7. open' \in SnapshotGenerations
  <2>1. Override(open.entries, upd) \in [Keys -> Entries \cup {None, Same}]
    BY <1>1, <1>3, Zenon DEF SnapshotGenerations, Override
  <2> QED
    BY <1>1, <1>3, <1>5, <2>1 DEF SnapshotGenerations
<1>8. changes' \in Nat /\ changes' + open.raw = changes + open'.raw
  BY <1>1, <1>2, <1>3, <1>5 DEF SnapshotGenerations
<1>9. ASSUME NEW s \in PersistedStates, Overlay(s, open) = mem
      PROVE  Overlay(s, open') = mem'
  <2>1. \A k \in Keys :
           /\ mem'.entries[k] = IF k \in ks THEN upd[k] ELSE mem.entries[k]
           /\ open'.entries[k] = IF k \in ks THEN upd[k] ELSE open.entries[k]
    BY <1>1, <1>3, <1>4, <1>5, Zenon DEF PersistedStates, SnapshotGenerations, Override
  <2>2. \A k \in ks : upd[k] # Same
    BY JournalAssumption, Zenon
  <2>3. (s.members \cup open'.joined) \ open'.left = mem'.members
    BY <1>3, <1>4, <1>5, <1>9, OverlayItems
  <2>4. \A k \in Keys :
           \/ open'.entries[k] = open.entries[k] /\ mem'.entries[k] = mem.entries[k]
           \/ open'.entries[k] # Same /\ mem'.entries[k] = open'.entries[k]
    BY <2>1, <2>2, Zenon
  <2>5. \A k \in Keys, p \in Peers :
           /\ open'.acks[k][p] = open.acks[k][p]
           /\ k \in open'.clears <=> k \in open.clears
           /\ mem'.acks[k][p] = mem.acks[k][p]
    BY <1>4, <1>5, Zenon
  <2> QED
    BY <1>3, <1>6, <1>7, <1>9, <2>3, <2>4, <2>5, RecordedItemwise, SMTT(30)
<1> QED
  BY <1>2, <1>6, <1>7, <1>8, <1>9, Zenon DEF Recorded

\* A new member of the receive loop is journalled as it is added.
LEMMA AddMemberRecorded ==
    ASSUME JournalTypeOK, NEW peer \in Peers, AddMember(peer)
    PROVE  Recorded
<1>1. /\ mem' = [mem EXCEPT !.members = mem.members \cup {peer}]
      /\ open' = [open EXCEPT !.joined = open.joined \cup {peer},
                              !.left = open.left \ {peer}, !.raw = open.raw + 1]
      /\ changes' = changes + 1
      /\ UNCHANGED <<frozen, stage, job, cut, disk>>
  BY Zenon DEF AddMember, RecordMember
<1>2. mem \in PersistedStates /\ open \in SnapshotGenerations /\ changes \in Nat
  BY Zenon DEF JournalTypeOK
<1>3. mem' = [entries |-> mem.entries, members |-> mem.members \cup {peer},
              acks |-> mem.acks]
  BY <1>1, <1>2, Zenon DEF PersistedStates
<1>4. open' = [entries |-> open.entries, joined |-> open.joined \cup {peer},
               left |-> open.left \ {peer}, clears |-> open.clears,
               acks |-> open.acks, raw |-> open.raw + 1]
  BY <1>1, <1>2, Zenon DEF SnapshotGenerations
<1>5. mem' \in PersistedStates
  BY <1>2, <1>3, Zenon DEF PersistedStates
<1>6. open' \in SnapshotGenerations
  BY <1>2, <1>4 DEF SnapshotGenerations
<1>7. changes' \in Nat /\ changes' + open.raw = changes + open'.raw
  BY <1>1, <1>2, <1>4 DEF SnapshotGenerations
<1>8. ASSUME NEW s \in PersistedStates, Overlay(s, open) = mem
      PROVE  Overlay(s, open') = mem'
  <2>1. (s.members \cup open'.joined) \ open'.left = mem'.members
    <3>1. mem.members = (s.members \cup open.joined) \ open.left
      BY <1>2, <1>8, OverlayItems
    <3> QED
      BY <1>3, <1>4, <3>1, Zenon
  <2>2. \A k \in Keys :
           \/ open'.entries[k] = open.entries[k] /\ mem'.entries[k] = mem.entries[k]
           \/ open'.entries[k] # Same /\ mem'.entries[k] = open'.entries[k]
    BY <1>3, <1>4, Zenon
  <2>3. \A k \in Keys, p \in Peers :
           /\ open'.acks[k][p] = open.acks[k][p]
           /\ k \in open'.clears <=> k \in open.clears
           /\ mem'.acks[k][p] = mem.acks[k][p]
    BY <1>3, <1>4, Zenon
  <2> QED
    BY <1>2, <1>5, <1>6, <1>8, <2>1, <2>2, <2>3, RecordedItemwise, SMTT(30)
<1> QED
  BY <1>1, <1>5, <1>6, <1>7, <1>8, Zenon DEF Recorded

\* record_ack, item by item.
LEMMA RecordAcksItems ==
    ASSUME NEW g \in SnapshotGenerations, NEW peer \in Peers, NEW ks \in SUBSET Keys,
           NEW upd \in [ks -> Tombs \cup {None}]
    PROVE  LET h == RecordAcks(g, peer, upd)
           IN  /\ h \in SnapshotGenerations
               /\ h.entries = g.entries
               /\ h.joined = g.joined
               /\ h.left = g.left
               /\ h.clears = g.clears
               /\ h.raw = g.raw + Cardinality(ks)
               /\ \A k \in Keys, p \in Peers :
                    h.acks[k][p] = IF k \in ks /\ p = peer THEN upd[k] ELSE g.acks[k][p]
<1> DEFINE h == RecordAcks(g, peer, upd)
           n == Cardinality(ks)
           a == [k \in Keys |-> IF k \in ks THEN [g.acks[k] EXCEPT ![peer] = upd[k]]
                                            ELSE g.acks[k]]
<1>1. n \in Nat
  BY DomainCount, Zenon
<1>2. h = [g EXCEPT !.acks = a, !.raw = g.raw + n]
  BY Zenon DEF RecordAcks
<1> HIDE DEF h, n
<1>3. h = [entries |-> g.entries, joined |-> g.joined, left |-> g.left,
           clears |-> g.clears, acks |-> a, raw |-> g.raw + n]
  BY <1>2, Zenon DEF SnapshotGenerations
<1>4. a \in [Keys -> [Peers -> Tombs \cup {None, Same}]]
  BY Zenon DEF SnapshotGenerations
<1>5. \A k \in Keys, p \in Peers :
         a[k][p] = IF k \in ks /\ p = peer THEN upd[k] ELSE g.acks[k][p]
  BY Zenon DEF SnapshotGenerations
<1> HIDE DEF a
<1>6. h \in SnapshotGenerations
  BY <1>1, <1>3, <1>4 DEF SnapshotGenerations
<1> QED
  BY <1>3, <1>5, <1>6 DEF h, n

\* The receipts of a datagram are journalled as they are stored.
LEMMA RecordTombstoneAcksRecorded ==
    ASSUME JournalTypeOK, NEW peer \in Peers, NEW ks \in SUBSET Keys,
           NEW receipts \in [ks -> Tombs], RecordTombstoneAcks(peer, receipts)
    PROVE  Recorded
<1> DEFINE fresh == NewReceipts(peer, receipts)
           upd == [k \in fresh |-> receipts[k]]
           n == Cardinality(fresh)
           a == [k \in Keys |-> IF k \in fresh THEN [mem.acks[k] EXCEPT ![peer] = upd[k]]
                                               ELSE mem.acks[k]]
<1>1. /\ fresh \in SUBSET Keys
      /\ fresh \in SUBSET ks
      /\ upd \in [fresh -> Tombs]
      /\ upd \in [fresh -> Tombs \cup {None}]
      /\ DOMAIN upd = fresh
  BY Zenon DEF NewReceipts
<1>2. n \in Nat
  BY <1>1, DomainCount, Zenon
<1>3. /\ mem' = [mem EXCEPT !.acks = a]
      /\ open' = RecordAcks(open, peer, upd)
      /\ changes' = changes + n
      /\ UNCHANGED <<frozen, stage, job, cut, disk>>
  BY <1>1, Zenon DEF RecordTombstoneAcks
<1>4. mem \in PersistedStates /\ open \in SnapshotGenerations /\ changes \in Nat
  BY Zenon DEF JournalTypeOK
<1>5. a \in [Keys -> [Peers -> Tombs \cup {None}]]
  BY <1>1, <1>4, Zenon DEF PersistedStates
<1>6. \A k \in Keys, p \in Peers :
         a[k][p] = IF k \in fresh /\ p = peer THEN upd[k] ELSE mem.acks[k][p]
  BY <1>1, <1>4, Zenon DEF PersistedStates
<1> HIDE DEF fresh, upd, n, a
<1>7. mem' = [entries |-> mem.entries, members |-> mem.members, acks |-> a]
  BY <1>3, <1>4, Zenon DEF PersistedStates
<1>8. mem' \in PersistedStates
  BY <1>4, <1>5, <1>7, Zenon DEF PersistedStates
<1>9. /\ open' \in SnapshotGenerations
      /\ open'.entries = open.entries
      /\ open'.joined = open.joined
      /\ open'.left = open.left
      /\ open'.clears = open.clears
      /\ open'.raw = open.raw + n
      /\ \A k \in Keys, p \in Peers :
           open'.acks[k][p] = IF k \in fresh /\ p = peer THEN upd[k] ELSE open.acks[k][p]
  BY <1>1, <1>3, <1>4, RecordAcksItems DEF n
<1>10. changes' \in Nat /\ changes' + open.raw = changes + open'.raw
  BY <1>2, <1>3, <1>4, <1>9 DEF SnapshotGenerations
<1>11. ASSUME NEW s \in PersistedStates, Overlay(s, open) = mem
       PROVE  Overlay(s, open') = mem'
  <2>1. \A k \in fresh : upd[k] # Same
    BY <1>1, JournalAssumption, Zenon DEF Entries
  <2>2. \A k \in Keys :
           \/ open'.entries[k] = open.entries[k] /\ mem'.entries[k] = mem.entries[k]
           \/ open'.entries[k] # Same /\ mem'.entries[k] = open'.entries[k]
    BY <1>7, <1>9, Zenon
  <2>3. (s.members \cup open'.joined) \ open'.left = mem'.members
    BY <1>4, <1>7, <1>9, <1>11, OverlayItems
  <2>4. \A k \in Keys, p \in Peers :
           \/ /\ open'.acks[k][p] = open.acks[k][p]
              /\ k \in open'.clears <=> k \in open.clears
              /\ mem'.acks[k][p] = mem.acks[k][p]
           \/ open'.acks[k][p] # Same /\ mem'.acks[k][p] = open'.acks[k][p]
           \/ open'.acks[k][p] = Same /\ k \in open'.clears /\ mem'.acks[k][p] = None
    BY <1>6, <1>7, <1>9, <2>1
  <2>5. open' \in SnapshotGenerations
    BY <1>9, Zenon
  <2> QED
    BY <1>4, <1>8, <1>11, <2>2, <2>3, <2>4, <2>5, RecordedItemwise
<1> QED
  BY <1>3, <1>8, <1>9, <1>10, <1>11, Zenon DEF Recorded

\* The records of decommission_peer, item by item.
LEMMA RecordDepartureItems ==
    ASSUME NEW g \in SnapshotGenerations, NEW gone \in SUBSET Peers, NEW peer \in Peers,
           NEW ks \in SUBSET Keys
    PROVE  LET h == RecordDeparture(g, gone, peer, ks)
           IN  /\ h \in SnapshotGenerations
               /\ h.entries = g.entries
               /\ h.joined = g.joined \ gone
               /\ h.left = g.left \cup gone
               /\ h.clears = g.clears
               /\ h.raw = g.raw + Cardinality(ks) + Cardinality(gone)
               /\ \A k \in Keys, p \in Peers :
                    h.acks[k][p] = IF k \in ks /\ p = peer THEN None ELSE g.acks[k][p]
<1> DEFINE h == RecordDeparture(g, gone, peer, ks)
           upd == [k \in ks |-> None]
           r == RecordAcks(g, peer, upd)
           m == Cardinality(gone)
<1>1. m \in Nat
  BY JournalAssumption, FS_Subset, FS_CardinalityType, Zenon
<1>2. upd \in [ks -> Tombs \cup {None}] /\ \A k \in ks : upd[k] = None
  OBVIOUS
<1>3. h = [r EXCEPT !.joined = r.joined \ gone, !.left = r.left \cup gone, !.raw = r.raw + m]
  BY Zenon DEF RecordDeparture
<1> HIDE DEF h, upd, r, m
<1>4. /\ r \in SnapshotGenerations
      /\ r.entries = g.entries
      /\ r.joined = g.joined
      /\ r.left = g.left
      /\ r.clears = g.clears
      /\ r.raw = g.raw + Cardinality(ks)
      /\ \A k \in Keys, p \in Peers :
           r.acks[k][p] = IF k \in ks /\ p = peer THEN upd[k] ELSE g.acks[k][p]
  BY <1>2, RecordAcksItems DEF r
<1>5. h = [entries |-> r.entries, joined |-> r.joined \ gone, left |-> r.left \cup gone,
           clears |-> r.clears, acks |-> r.acks, raw |-> r.raw + m]
  BY <1>3, <1>4, Zenon DEF SnapshotGenerations
<1>6. h \in SnapshotGenerations
  <2>1. r \in SnapshotGenerations
    BY <1>4, Zenon
  <2> QED
    BY <1>1, <1>5, <2>1 DEF SnapshotGenerations
<1>7. \A k \in Keys, p \in Peers :
         h.acks[k][p] = IF k \in ks /\ p = peer THEN None ELSE g.acks[k][p]
  BY <1>2, <1>4, <1>5, Zenon
<1>8. /\ h.entries = g.entries
      /\ h.joined = g.joined \ gone
      /\ h.left = g.left \cup gone
      /\ h.clears = g.clears
      /\ h.raw = g.raw + Cardinality(ks) + m
  BY <1>4, <1>5, Zenon
<1> QED
  BY <1>6, <1>7, <1>8, Zenon DEF h, m

\* decommission_peer journals the departure and every receipt it drops.
LEMMA DecommissionPeerRecorded ==
    ASSUME JournalTypeOK, NEW peer \in Peers, DecommissionPeer(peer)
    PROVE  Recorded
<1> DEFINE acked == {k \in Keys : mem.acks[k][peer] # None}
           gone == mem.members \cap {peer}
           m == Cardinality(gone)
           n == Cardinality(acked)
           a == [k \in Keys |-> [mem.acks[k] EXCEPT ![peer] = None]]
<1>1. acked \in SUBSET Keys /\ gone \in SUBSET Peers
  OBVIOUS
<1>2. n \in Nat /\ m \in Nat
  BY <1>1, DomainCount, JournalAssumption, FS_Subset, FS_CardinalityType, Zenon
<1>3. /\ mem' = [mem EXCEPT !.members = mem.members \ gone, !.acks = a]
      /\ open' = RecordDeparture(open, gone, peer, acked)
      /\ changes' = changes + (n + m)
      /\ UNCHANGED <<frozen, stage, job, cut, disk>>
  BY Zenon DEF DecommissionPeer
<1>4. mem \in PersistedStates /\ open \in SnapshotGenerations /\ changes \in Nat
  BY Zenon DEF JournalTypeOK
<1>5. a \in [Keys -> [Peers -> Tombs \cup {None}]]
  BY <1>4, Zenon DEF PersistedStates
<1>6. \A k \in Keys, p \in Peers : a[k][p] = IF p = peer THEN None ELSE mem.acks[k][p]
  BY <1>4, Zenon DEF PersistedStates
<1>7. \A k \in Keys : k \notin acked => mem.acks[k][peer] = None
  OBVIOUS
<1> HIDE DEF acked, gone, n, m, a
<1>8. mem' = [entries |-> mem.entries, members |-> mem.members \ gone, acks |-> a]
  BY <1>3, <1>4, Zenon DEF PersistedStates
<1>9. mem' \in PersistedStates
  BY <1>4, <1>5, <1>8, Zenon DEF PersistedStates
<1>10. /\ open' \in SnapshotGenerations
       /\ open'.entries = open.entries
       /\ open'.joined = open.joined \ gone
       /\ open'.left = open.left \cup gone
       /\ open'.clears = open.clears
       /\ open'.raw = open.raw + n + m
       /\ \A k \in Keys, p \in Peers :
            open'.acks[k][p] = IF k \in acked /\ p = peer THEN None ELSE open.acks[k][p]
  BY <1>1, <1>3, <1>4, RecordDepartureItems DEF n, m
<1>11. changes' \in Nat /\ changes' + open.raw = changes + open'.raw
  BY <1>2, <1>3, <1>4, <1>10 DEF SnapshotGenerations
<1>12. ASSUME NEW s \in PersistedStates, Overlay(s, open) = mem
       PROVE  Overlay(s, open') = mem'
  <2>1. \A k \in Keys :
           \/ open'.entries[k] = open.entries[k] /\ mem'.entries[k] = mem.entries[k]
           \/ open'.entries[k] # Same /\ mem'.entries[k] = open'.entries[k]
    BY <1>8, <1>10, Zenon
  <2>2. (s.members \cup open'.joined) \ open'.left = mem'.members
    <3>1. mem.members = (s.members \cup open.joined) \ open.left
      BY <1>4, <1>12, OverlayItems
    <3>2. mem'.members = mem.members \ gone
      BY <1>8, Zenon
    <3>3. open'.joined = open.joined \ gone /\ open'.left = open.left \cup gone
      BY <1>10, Zenon
    <3> QED
      BY <3>1, <3>2, <3>3, Zenon
  <2>3. \A k \in Keys, p \in Peers :
           \/ /\ open'.acks[k][p] = open.acks[k][p]
              /\ k \in open'.clears <=> k \in open.clears
              /\ mem'.acks[k][p] = mem.acks[k][p]
           \/ open'.acks[k][p] # Same /\ mem'.acks[k][p] = open'.acks[k][p]
           \/ open'.acks[k][p] = Same /\ k \in open'.clears /\ mem'.acks[k][p] = None
    BY <1>6, <1>7, <1>8, <1>10, JournalAssumption
  <2>4. open' \in SnapshotGenerations
    BY <1>10, Zenon
  <2> QED
    BY <1>4, <1>9, <1>12, <2>1, <2>2, <2>3, <2>4, RecordedItemwise, SMTT(30)
<1> QED
  BY <1>3, <1>9, <1>10, <1>11, <1>12, Zenon DEF Recorded

\* record_physical_delete and record_ack_key_clear, item by item.
LEMMA RecordCollectionItems ==
    ASSUME NEW g \in SnapshotGenerations, NEW key \in Keys, NEW cleared \in SUBSET {key}
    PROVE  LET h == RecordAckKeyClears(RecordEntries(g, [k \in {key} |-> None]), cleared)
           IN  /\ h \in SnapshotGenerations
               /\ \A k \in Keys : h.entries[k] = IF k = key THEN None ELSE g.entries[k]
               /\ h.joined = g.joined
               /\ h.left = g.left
               /\ h.clears = g.clears \cup cleared
               /\ h.raw = g.raw + 1 + Cardinality(cleared)
               /\ \A k \in Keys, p \in Peers :
                    h.acks[k][p] = IF k \in cleared THEN Same ELSE g.acks[k][p]
<1> DEFINE upd == [k \in {key} |-> None]
           r == RecordEntries(g, upd)
           h == RecordAckKeyClears(r, cleared)
           m == Cardinality(cleared)
           e == Override(g.entries, upd)
           a == [k \in Keys |-> IF k \in cleared THEN [p \in Peers |-> Same] ELSE g.acks[k]]
<1>1. m \in Nat
  BY DomainCount, Zenon
<1>2. Cardinality(DOMAIN upd) = 1
  <2>1. DOMAIN upd = {key}
    OBVIOUS
  <2> QED
    BY <2>1, FS_Singleton, Zenon
<1>3. r = [g EXCEPT !.entries = e, !.raw = g.raw + 1]
  BY <1>2, Zenon DEF RecordEntries
<1>4. /\ e \in [Keys -> Entries \cup {None, Same}]
      /\ \A k \in Keys : e[k] = IF k = key THEN None ELSE g.entries[k]
  BY Zenon DEF Override, SnapshotGenerations
<1>5. /\ a \in [Keys -> [Peers -> Tombs \cup {None, Same}]]
      /\ \A k \in Keys, p \in Peers : a[k][p] = IF k \in cleared THEN Same ELSE g.acks[k][p]
  BY Zenon DEF SnapshotGenerations
<1> HIDE DEF e, upd
<1>6. r = [entries |-> e, joined |-> g.joined, left |-> g.left, clears |-> g.clears,
           acks |-> g.acks, raw |-> g.raw + 1]
  BY <1>3, Zenon DEF SnapshotGenerations
<1> HIDE DEF r
<1>7. h = [r EXCEPT !.clears = r.clears \cup cleared, !.acks = a, !.raw = r.raw + m]
  BY <1>6, Zenon DEF RecordAckKeyClears
<1> HIDE DEF h, a, m
<1>8. h = [entries |-> e, joined |-> g.joined, left |-> g.left,
           clears |-> g.clears \cup cleared, acks |-> a, raw |-> g.raw + 1 + m]
  BY <1>6, <1>7, Zenon
<1>9. h \in SnapshotGenerations
  BY <1>1, <1>4, <1>5, <1>8 DEF SnapshotGenerations
<1> QED
  BY <1>4, <1>5, <1>8, <1>9 DEF h, r, upd, m

\* collect_candidate journals the removed entry and the cleared receipts.
LEMMA CollectCandidateRecorded ==
    ASSUME JournalTypeOK, NEW key \in Keys, CollectCandidate(key)
    PROVE  Recorded
<1>1. PICK cleared \in SUBSET {key} :
         /\ (\E p \in Peers : mem.acks[key][p] # None) => key \in cleared
         /\ open' = RecordAckKeyClears(RecordEntries(open, [k \in {key} |-> None]), cleared)
         /\ changes' = changes + 1 + Cardinality(cleared)
  BY Zenon DEF CollectCandidate
<1> DEFINE m == Cardinality(cleared)
           e == [mem.entries EXCEPT ![key] = None]
           a == [mem.acks EXCEPT ![key] = [p \in Peers |-> None]]
<1>2. m \in Nat
  BY DomainCount, Zenon
<1>3. /\ mem' = [mem EXCEPT !.entries = e, !.acks = a]
      /\ UNCHANGED <<frozen, stage, job, cut, disk>>
  BY Zenon DEF CollectCandidate
<1>4. mem \in PersistedStates /\ open \in SnapshotGenerations /\ changes \in Nat
  BY Zenon DEF JournalTypeOK
<1>5. /\ e \in [Keys -> Entries \cup {None}]
      /\ \A k \in Keys : e[k] = IF k = key THEN None ELSE mem.entries[k]
  BY <1>4, Zenon DEF PersistedStates
<1>6. /\ a \in [Keys -> [Peers -> Tombs \cup {None}]]
      /\ \A k \in Keys, p \in Peers : a[k][p] = IF k = key THEN None ELSE mem.acks[k][p]
  BY <1>4, Zenon DEF PersistedStates
<1> HIDE DEF e, a, m
<1>7. mem' = [entries |-> e, members |-> mem.members, acks |-> a]
  BY <1>3, <1>4, Zenon DEF PersistedStates
<1>8. mem' \in PersistedStates
  BY <1>4, <1>5, <1>6, <1>7, Zenon DEF PersistedStates
<1>9. /\ open' \in SnapshotGenerations
      /\ \A k \in Keys : open'.entries[k] = IF k = key THEN None ELSE open.entries[k]
      /\ open'.joined = open.joined
      /\ open'.left = open.left
      /\ open'.clears = open.clears \cup cleared
      /\ open'.raw = open.raw + 1 + m
      /\ \A k \in Keys, p \in Peers :
           open'.acks[k][p] = IF k \in cleared THEN Same ELSE open.acks[k][p]
  BY <1>1, <1>4, RecordCollectionItems DEF m
<1>10. changes' \in Nat /\ changes' + open.raw = changes + open'.raw
  BY <1>1, <1>2, <1>4, <1>9 DEF SnapshotGenerations, m
<1>11. ASSUME NEW s \in PersistedStates, Overlay(s, open) = mem
       PROVE  Overlay(s, open') = mem'
  <2>1. \A k \in Keys :
           \/ open'.entries[k] = open.entries[k] /\ mem'.entries[k] = mem.entries[k]
           \/ open'.entries[k] # Same /\ mem'.entries[k] = open'.entries[k]
    BY <1>5, <1>7, <1>9, JournalAssumption, Zenon
  <2>2. (s.members \cup open'.joined) \ open'.left = mem'.members
    BY <1>4, <1>7, <1>9, <1>11, OverlayItems, Zenon
  <2>3. \A k \in Keys, p \in Peers :
           \/ /\ open'.acks[k][p] = open.acks[k][p]
              /\ k \in open'.clears <=> k \in open.clears
              /\ mem'.acks[k][p] = mem.acks[k][p]
           \/ open'.acks[k][p] # Same /\ mem'.acks[k][p] = open'.acks[k][p]
           \/ open'.acks[k][p] = Same /\ k \in open'.clears /\ mem'.acks[k][p] = None
    <3> SUFFICES ASSUME NEW k \in Keys, NEW p \in Peers
                 PROVE  \/ /\ open'.acks[k][p] = open.acks[k][p]
                           /\ k \in open'.clears <=> k \in open.clears
                           /\ mem'.acks[k][p] = mem.acks[k][p]
                        \/ /\ open'.acks[k][p] = Same
                           /\ k \in open'.clears
                           /\ mem'.acks[k][p] = None
      OBVIOUS
    <3>1. CASE k \in cleared
      BY <1>6, <1>7, <1>9, <3>1, Zenon
    <3>2. CASE k \notin cleared
      <4>1. k = key => mem.acks[k][p] = None
        BY <1>1, <3>2, Zenon
      <4> QED
        BY <1>6, <1>7, <1>9, <3>2, <4>1
    <3> QED
      BY <3>1, <3>2, Zenon
  <2>4. open' \in SnapshotGenerations
    BY <1>9, Zenon
  <2> QED
    BY <1>4, <1>8, <1>11, <2>1, <2>2, <2>3, <2>4, RecordedItemwise, SMTT(30)
<1> QED
  BY <1>3, <1>8, <1>9, <1>10, <1>11, Zenon DEF Recorded

\* Every mutation of the replica is journalled exactly.
LEMMA MutationRecorded == JournalTypeOK /\ Mutation => Recorded
  BY WriteEntriesRecorded, AddMemberRecorded, DecommissionPeerRecorded,
     RecordTombstoneAcksRecorded, CollectCandidateRecorded, Zenon DEF Mutation

(***************************************************************************)
(* The inductive invariant.  JournalComplete alone is not preserved by a   *)
(* full save, which replaces the durable state by a cut collected earlier: *)
(* the open generation must lead from that cut to memory as well, with and *)
(* without the frozen one in between.                                      *)
(***************************************************************************)
SnapshotInProgress ==
    /\ stage # "idle" => job = frozen
    /\ stage = "save" => /\ Overlay(cut, open) = mem
                         /\ Overlay(Overlay(cut, frozen), open) = mem

JournalInv ==
    /\ JournalTypeOK
    /\ JournalComplete
    /\ CommitLosesNothing
    /\ ChangeCountMatchesJournal
    /\ SnapshotInProgress

\* What load() returns is a well-formed persisted state.
LEMMA DurableType == JournalTypeOK => Durable \in PersistedStates
  BY EmptyTypes, Zenon DEF JournalTypeOK, Durable

\* The invariant holds of a node with an empty map and backend.
LEMMA JournalInvInit == JournalInit => JournalInv
<1> SUFFICES ASSUME JournalInit PROVE JournalInv
  OBVIOUS
<1>1. JournalTypeOK
  BY EmptyTypes, Zenon DEF JournalInit, JournalTypeOK
<1>2. JournalComplete
  BY EmptyTypes, OverlayNothing, Zenon DEF JournalInit, JournalComplete, Durable
<1>3. NoGeneration.raw = 0
  BY Zenon DEF NoGeneration
<1> QED
  BY <1>1, <1>2, <1>3 DEF JournalInit, JournalInv, CommitLosesNothing,
     ChangeCountMatchesJournal, SnapshotInProgress

\* Writers and the receive loop preserve the invariant, whatever the snapshot
\* procedure is doing.
LEMMA MutationKeepsInv == JournalInv /\ Mutation => JournalInv'
<1> SUFFICES ASSUME JournalInv, Mutation PROVE JournalInv'
  OBVIOUS
<1>1. Recorded
  BY MutationRecorded, Zenon DEF JournalInv
<1>2. \A s \in PersistedStates : Overlay(s, open) = mem => Overlay(s, open') = mem'
  BY <1>1, Zenon DEF Recorded
<1>3. UNCHANGED <<frozen, stage, job, cut, disk>> /\ Durable' = Durable
  BY <1>1, Zenon DEF Recorded, Durable
<1>4. JournalTypeOK'
  BY <1>1, Zenon DEF Recorded, JournalInv, JournalTypeOK
<1>5. /\ Durable \in PersistedStates
      /\ frozen \in SnapshotGenerations
      /\ cut \in PersistedStates
      /\ Overlay(Durable, frozen) \in PersistedStates
      /\ Overlay(cut, frozen) \in PersistedStates
  BY DurableType, OverlayType, Zenon DEF JournalInv, JournalTypeOK
<1>6. JournalComplete'
  BY <1>2, <1>3, <1>5, Zenon DEF JournalInv, JournalComplete
<1>7. CommitLosesNothing'
  BY <1>2, <1>3, <1>5, Zenon DEF JournalInv, CommitLosesNothing
<1>8. ChangeCountMatchesJournal'
  <2>1. /\ open.raw \in Nat /\ open'.raw \in Nat /\ frozen.raw \in Nat
        /\ changes \in Nat /\ changes' \in Nat
    BY <1>4, Zenon DEF JournalInv, JournalTypeOK, SnapshotGenerations
  <2>2. changes' + open.raw = changes + open'.raw
    BY <1>1, Zenon DEF Recorded
  <2> QED
    BY <1>3, <2>1, <2>2 DEF JournalInv, ChangeCountMatchesJournal
<1>9. SnapshotInProgress'
  BY <1>2, <1>3, <1>5, Zenon DEF JournalInv, SnapshotInProgress
<1> QED
  BY <1>4, <1>6, <1>7, <1>8, <1>9, Zenon DEF JournalInv

\* Every step of snapshot_inner preserves the invariant.
LEMMA SnapshotStepKeepsInv == JournalInv /\ SnapshotStep => JournalInv'
<1> SUFFICES ASSUME JournalInv, SnapshotStep PROVE JournalInv'
  OBVIOUS
<1> USE DEF JournalInv
<1>t. /\ Durable \in PersistedStates
      /\ mem \in PersistedStates /\ cut \in PersistedStates
      /\ open \in SnapshotGenerations /\ frozen \in SnapshotGenerations /\ job \in SnapshotGenerations
      /\ changes \in Nat /\ open.raw \in Nat /\ frozen.raw \in Nat
  BY DurableType, Zenon DEF JournalTypeOK, SnapshotGenerations
<1>n. NoGeneration.raw = 0 /\ NoGeneration \in SnapshotGenerations /\ EmptyState \in PersistedStates
  BY EmptyTypes, Zenon DEF NoGeneration
<1>1. CASE SnapshotFreeze
  <2> USE <1>1 DEF SnapshotFreeze
  <2>1. CASE frozen = NoGeneration /\ open.raw > 0
    <3>1. /\ frozen' = open /\ open' = NoGeneration /\ job' = open
          /\ stage = "idle" /\ stage' = "delta"
          /\ UNCHANGED <<mem, changes, cut, disk>>
      BY <2>1, Zenon
    <3>2. Overlay(Durable, frozen) = Durable
      BY <1>t, <2>1, OverlayNothing, Zenon
    <3>3. Overlay(Durable, open) = mem
      BY <3>2, Zenon DEF JournalComplete
    <3>4. Overlay(Overlay(Durable, open), NoGeneration) = mem
      BY <1>t, <3>3, OverlayNothing, Zenon
    <3>5. JournalTypeOK'
      BY <1>n, <3>1, Zenon DEF JournalTypeOK
    <3>6. JournalComplete'
      BY <3>1, <3>4, Zenon DEF JournalComplete, Durable
    <3>7. ChangeCountMatchesJournal'
      BY <1>t, <1>n, <2>1, <3>1 DEF ChangeCountMatchesJournal
    <3> QED
      BY <3>1, <3>5, <3>6, <3>7, Zenon DEF CommitLosesNothing, SnapshotInProgress
  <2>2. CASE ~(frozen = NoGeneration /\ open.raw > 0)
    <3>1. /\ job' = frozen /\ stage = "idle" /\ stage' = "delta"
          /\ UNCHANGED <<mem, open, frozen, changes, cut, disk>>
      BY <2>2, Zenon
    <3> QED
      BY <3>1, Zenon DEF JournalTypeOK, JournalComplete, Durable, CommitLosesNothing,
         ChangeCountMatchesJournal, SnapshotInProgress
  <2> QED
    BY <2>1, <2>2, Zenon
<1>2. CASE DeltaDeclined
  BY <1>2, Zenon DEF DeltaDeclined, JournalTypeOK, JournalComplete, Durable, CommitLosesNothing,
     ChangeCountMatchesJournal, SnapshotInProgress
<1>3. CASE DeltaCommitted
  <2>1. /\ stage = "delta" /\ stage' = "retire" /\ disk # None /\ disk' = Overlay(disk, job)
        /\ UNCHANGED <<mem, open, frozen, changes, job, cut>>
    BY <1>3, Zenon DEF DeltaCommitted
  <2>2. job = frozen /\ Durable = disk
    BY <2>1, Zenon DEF SnapshotInProgress, Durable
  <2>3. Overlay(Durable, frozen) \in PersistedStates
    BY <1>t, OverlayType, Zenon
  <2>4. Durable' = Overlay(Durable, frozen)
    BY <2>1, <2>2, <2>3, JournalAssumption, Zenon DEF Durable
  <2>5. Overlay(Durable', open) = mem /\ Overlay(Overlay(Durable', frozen), open) = mem
    <3>1. Overlay(Overlay(Durable', frozen), open) = mem
      <4>1. Overlay(Overlay(Durable, frozen), NoGeneration) = Overlay(Durable, frozen)
        BY <2>3, OverlayNothing, Zenon
      <4>2. Overlay(Overlay(Durable, frozen), frozen) = Overlay(Durable, frozen)
        <5>1. Overlay(Overlay(Durable, NoGeneration), frozen) = Overlay(Durable, frozen)
          BY <1>t, OverlayNothing, Zenon
        <5> QED
          BY <1>t, <1>n, <2>3, <5>1, OverlayAgain
      <4> QED
        BY <2>4, <4>2, Zenon DEF JournalComplete
    <3> QED
      BY <2>4, <3>1, Zenon DEF JournalComplete
  <2>6. JournalTypeOK'
    BY <2>1, <2>2, <2>3, Zenon DEF JournalTypeOK
  <2> QED
    BY <2>1, <2>5, <2>6, Zenon DEF JournalComplete, CommitLosesNothing,
       ChangeCountMatchesJournal, SnapshotInProgress
<1>4. CASE CollectPersistedState
  <2>1. /\ stage = "collect" /\ stage' = "save" /\ cut' = mem
        /\ UNCHANGED <<mem, open, frozen, changes, job, disk>>
    BY <1>4, Zenon DEF CollectPersistedState
  <2>2. Overlay(mem, open) = mem /\ Overlay(Overlay(mem, frozen), open) = mem
    BY <1>t, OverlayAgain DEF JournalComplete
  <2> QED
    BY <2>1, <2>2, Zenon DEF JournalTypeOK, JournalComplete, Durable, CommitLosesNothing,
       ChangeCountMatchesJournal, SnapshotInProgress
<1>5. CASE FullSaved
  <2>1. /\ stage = "save" /\ stage' = "retire" /\ disk' = cut /\ cut' = EmptyState
        /\ UNCHANGED <<mem, open, frozen, changes, job>>
    BY <1>5, Zenon DEF FullSaved
  <2>2. Durable' = cut
    BY <1>t, <2>1, JournalAssumption, Zenon DEF Durable
  <2>3. JournalTypeOK'
    BY <1>t, <1>n, <2>1, Zenon DEF JournalTypeOK
  <2> QED
    BY <2>1, <2>2, <2>3, Zenon DEF JournalComplete, CommitLosesNothing,
       ChangeCountMatchesJournal, SnapshotInProgress
<1>6. CASE SaveFailed
  <2>1. /\ stage \in {"delta", "save"} /\ stage' = "idle"
        /\ job' = NoGeneration /\ cut' = EmptyState
        /\ UNCHANGED <<mem, open, frozen, changes>>
        /\ \/ disk' = disk
           \/ stage = "save" /\ disk' = cut
           \/ stage = "delta" /\ disk # None /\ disk' = Overlay(disk, job)
    BY <1>6, Zenon DEF SaveFailed, Attempted
  <2>2. Overlay(Overlay(Durable', frozen), open) = mem /\ disk' \in PersistedStates \cup {None}
    <3>1. CASE disk' = disk
      BY <3>1, Zenon DEF Durable, JournalComplete, JournalTypeOK
    <3>2. CASE stage = "save" /\ disk' = cut
      BY <1>t, <3>2, JournalAssumption, Zenon DEF Durable, SnapshotInProgress
    <3>3. CASE stage = "delta" /\ disk # None /\ disk' = Overlay(disk, job)
      <4>1. job = frozen /\ Durable = disk
        BY <3>3, Zenon DEF SnapshotInProgress, Durable
      <4>2. Overlay(Durable, frozen) \in PersistedStates
        BY <1>t, OverlayType, Zenon
      <4>3. Durable' = Overlay(Durable, frozen)
        BY <3>3, <4>1, <4>2, JournalAssumption, Zenon DEF Durable
      <4>4. Overlay(Overlay(Durable, NoGeneration), frozen) = Overlay(Durable, frozen)
        BY <1>t, OverlayNothing, Zenon
      <4>5. Overlay(Overlay(Durable, frozen), frozen) = Overlay(Durable, frozen)
        BY <1>t, <1>n, <4>2, <4>4, OverlayAgain
      <4> QED
        BY <3>3, <4>1, <4>2, <4>3, <4>5, Zenon DEF JournalComplete
    <3> QED
      BY <2>1, <3>1, <3>2, <3>3, Zenon
  <2>3. JournalTypeOK'
    BY <1>n, <2>1, <2>2, Zenon DEF JournalTypeOK
  <2> QED
    BY <2>1, <2>2, <2>3, Zenon DEF JournalComplete, CommitLosesNothing,
       ChangeCountMatchesJournal, SnapshotInProgress
<1>7. CASE RetireChangeCount
  <2>1. /\ stage = "retire" /\ stage' = "commit"
        /\ changes' = IF changes >= job.raw THEN changes - job.raw ELSE 0
        /\ UNCHANGED <<mem, open, frozen, job, cut, disk>>
    BY <1>7, Zenon DEF RetireChangeCount
  <2>2. job = frozen /\ changes = open.raw + frozen.raw
    BY <2>1, Zenon DEF SnapshotInProgress, ChangeCountMatchesJournal
  <2>3. changes' = open.raw
    BY <1>t, <2>1, <2>2
  <2> QED
    BY <1>t, <2>1, <2>2, <2>3 DEF JournalTypeOK, JournalComplete, Durable, CommitLosesNothing,
       ChangeCountMatchesJournal, SnapshotInProgress
<1>8. CASE CommitGeneration
  <2>1. /\ stage = "commit" /\ stage' = "idle" /\ job' = NoGeneration
        /\ frozen' = IF frozen = job THEN NoGeneration ELSE frozen
        /\ UNCHANGED <<mem, open, changes, cut, disk>>
    BY <1>8, Zenon DEF CommitGeneration
  <2>2. frozen' = NoGeneration
    BY <2>1, Zenon DEF SnapshotInProgress
  <2>3. Overlay(Durable, open) = mem /\ changes = open.raw
    BY <1>t, <2>1 DEF CommitLosesNothing, ChangeCountMatchesJournal
  <2>4. Overlay(Durable, NoGeneration) = Durable
    BY <1>t, OverlayNothing, Zenon
  <2>5. JournalComplete'
    BY <2>1, <2>2, <2>3, <2>4, Zenon DEF JournalComplete, Durable
  <2>6. JournalTypeOK'
    BY <1>n, <2>1, <2>2, Zenon DEF JournalTypeOK
  <2> QED
    BY <1>t, <1>n, <2>1, <2>2, <2>3, <2>5, <2>6, Zenon DEF CommitLosesNothing,
       ChangeCountMatchesJournal, SnapshotInProgress
<1> QED
  BY <1>1, <1>2, <1>3, <1>4, <1>5, <1>6, <1>7, <1>8, Zenon DEF SnapshotStep

\* A crash at any point and the load that follows re-establish the invariant.
LEMMA RestartKeepsInv == JournalInv /\ Restart => JournalInv'
<1> SUFFICES ASSUME JournalInv, Restart PROVE JournalInv'
  OBVIOUS
<1>1. Durable \in PersistedStates /\ Durable' = Durable
  BY DurableType, Zenon DEF JournalInv, Restart, Durable
<1>2. JournalTypeOK'
  BY <1>1, EmptyTypes, Zenon DEF Restart, JournalInv, JournalTypeOK
<1>3. Overlay(Overlay(Durable, NoGeneration), NoGeneration) = Durable
  BY <1>1, OverlayNothing, Zenon
<1>4. NoGeneration.raw = 0
  BY Zenon DEF NoGeneration
<1> QED
  BY <1>1, <1>2, <1>3, <1>4 DEF Restart, JournalInv, JournalComplete, CommitLosesNothing,
     ChangeCountMatchesJournal, SnapshotInProgress

\* The inductive invariant holds in every reachable state.
THEOREM JournalInvariance == JournalSpec => []JournalInv
<1>1. JournalInv /\ [JournalNext]_journalVars => JournalInv'
  <2> SUFFICES ASSUME JournalInv, [JournalNext]_journalVars PROVE JournalInv'
    OBVIOUS
  <2>1. CASE UNCHANGED journalVars
    BY <2>1, Zenon DEF journalVars, JournalInv, JournalTypeOK, JournalComplete, Durable, CommitLosesNothing,
       ChangeCountMatchesJournal, SnapshotInProgress
  <2> QED
    BY <2>1, MutationKeepsInv, SnapshotStepKeepsInv, RestartKeepsInv, Zenon DEF JournalNext
<1> QED
  BY <1>1, JournalInvInit, PTL DEF JournalSpec

\* Every reachable state of the journal and of the snapshot procedure has the
\* shape the Rust types give it.
THEOREM TypeCorrect == JournalSpec => []JournalTypeOK
  BY JournalInvariance, PTL DEF JournalInv

\* No change is ever lost between memory and disk: through concurrent writes,
\* failed, half-failed and retried saves and crashes, the durable state plus
\* the frozen and the open generation is the state in memory.
THEOREM NothingLost == JournalSpec => []JournalComplete
  BY JournalInvariance, PTL DEF JournalInv

\* When snapshot_inner commits its generation, the durable state plus the open
\* generation already is the state in memory.
THEOREM CommitSafe == JournalSpec => []CommitLosesNothing
  BY JournalInvariance, PTL DEF JournalInv

\* changes_since_snapshot never drifts from the journal.
THEOREM ChangeCountExact == JournalSpec => []ChangeCountMatchesJournal
  BY JournalInvariance, PTL DEF JournalInv

\* The assertion of snapshot_inner on GenerationTracker::commit never fails.
THEOREM CommitAssertionHolds == JournalSpec => []CommitFindsItsGeneration
<1>1. JournalInv => CommitFindsItsGeneration
  BY Zenon DEF JournalInv, SnapshotInProgress, CommitFindsItsGeneration
<1> QED
  BY <1>1, JournalInvariance, PTL

(***************************************************************************)
(* The inductive invariant.                                                *)
(***************************************************************************)
Files == [manifest : Manifests \cup {None}, base : [Generations -> States \cup {None}],
          delta : [Generations -> Deltas \cup {None}], legacy : States \cup {None}]

TypeOK ==
    /\ fs \in Files /\ safe \in Files /\ dirSafe \in BOOLEAN
    /\ pc \in {"idle", "segment", "segment_sync", "publish", "publish_sync", "cleanup"}
    /\ call \in Calls \cup {NoCall}

\* The segments a manifest names are the same in f and h.
SameChain(f, h, m) ==
    f.base[m.base] = h.base[m.base] /\ \A g \in Committed(m) : f.delta[g] = h.delta[g]

\* A manifest that a power loss may leave has its chain, on disk as seen, and the chain
\* is short.
Sound(f, h, m) ==
    m # None => /\ Intact(f, m) /\ SameChain(f, h, m)
                /\ m.current - m.base <= MaxDeltas /\ m.deltaBytes < m.baseBytes

Recoverable ==
    /\ Sound(fs, safe, fs.manifest) /\ Sound(fs, safe, safe.manifest)
    /\ safe.manifest # None =>
         fs.manifest # None /\ safe.manifest.current <= fs.manifest.current
    /\ fs.manifest # None => dirSafe
    /\ fs.legacy = safe.legacy \/ safe.manifest # None

Written(f) ==
    IF call.op = "delta" THEN f.delta[NextGeneration] = call.arg
                         ELSE f.base[NextGeneration] = call.arg

\* What a call relies on from one file operation to the next.
Running ==
    /\ pc = "idle" <=> call = NoCall
    /\ pc \in {"segment", "segment_sync", "publish"} =>
         /\ NextGeneration \in Generations
         /\ call.op = "delta" =>
              fs.manifest # None /\ ~ShouldMaterialize(fs.manifest, DeltaBytes(call.arg))
    /\ pc \in {"segment_sync", "publish"} => Written(fs)
    /\ pc = "publish" => Written(safe) /\ fs.manifest = safe.manifest /\ dirSafe
    /\ pc \in {"publish_sync", "cleanup"} =>
         fs.manifest # None /\ (call.op = "full" => fs.manifest.base = fs.manifest.current)
    /\ pc = "cleanup" => call.op = "full" /\ fs.manifest = safe.manifest

Promise ==
    answered # None => /\ pc = "idle" /\ fs.manifest # None /\ fs.manifest = safe.manifest
                       /\ answered = Load(fs)

FileInv == TypeOK /\ Recoverable /\ Running /\ Promise

(***************************************************************************)
(* Replaying a chain.                                                      *)
(***************************************************************************)
\* The equation that the loop of load_for solves.
Unfolds(u, start, chain, base, n) ==
    u = [g \in base..n |-> IF g = base THEN start ELSE After(u[g - 1], chain[g])]

\* The least number principle.
LEMMA LeastNat ==
    ASSUME NEW T \in SUBSET Nat, T # {}
    PROVE  \E x \in T : \A y \in T : x <= y
  <1>1. \E x \in T : \A y \in T : ~(<<y, x>> \in OpToRel(<, Nat))
    BY NatLessThanWellFounded, WFMin, Zenon
  <1>2. PICK x \in T : \A y \in T : ~(<<y, x>> \in OpToRel(<, Nat))
    BY <1>1, Zenon
  <1>3. \A y \in T : ~(y < x)
    BY <1>2, Zenon DEF OpToRel
  <1> QED BY <1>3

\* One more generation extends a solution.
LEMMA Extends ==
    ASSUME NEW start, NEW chain, NEW base \in Nat, NEW n \in Nat, base <= n,
           NEW u, Unfolds(u, start, chain, base, n)
    PROVE  Unfolds([g \in base..(n + 1) |-> IF g <= n THEN u[g] ELSE After(u[n], chain[n + 1])],
                   start, chain, base, n + 1)
  <1> DEFINE v == [g \in base..(n + 1) |-> IF g <= n THEN u[g] ELSE After(u[n], chain[n + 1])]
             w == [g \in base..(n + 1) |-> IF g = base THEN start ELSE After(v[g - 1], chain[g])]
  <1>1. ASSUME NEW g \in base..(n + 1) PROVE v[g] = IF g = base THEN start ELSE After(v[g - 1], chain[g])
    <2>1. CASE g <= n /\ g = base
      BY <2>1 DEF Unfolds
    <2>2. CASE g <= n /\ g # base
      <3>1. u[g] = After(u[g - 1], chain[g])
        BY <2>2 DEF Unfolds
      <3>2. v[g] = u[g] /\ v[g - 1] = u[g - 1]
        BY <2>2
      <3> QED BY <2>2, <3>1, <3>2, Zenon
    <2>3. CASE g = n + 1
      <3>1. v[g] = After(u[n], chain[n + 1]) /\ v[g - 1] = u[n] /\ g # base
        BY <2>3
      <3> QED BY <2>3, <3>1, Zenon
    <2> QED BY <2>1, <2>2, <2>3
  <1>2. v = w
    <2> HIDE DEF v
    <2>1. v = [g \in base..(n + 1) |-> v[g]]
      BY Zenon DEF v
    <2> QED BY <1>1, <2>1, Zenon
  <1> QED BY <1>2, Zenon DEF Unfolds

\* The loop is well defined.
LEMMA Solvable ==
    ASSUME NEW start, NEW chain, NEW base \in Nat, NEW n \in Nat, base <= n
    PROVE  \E u : Unfolds(u, start, chain, base, n)
  <1> DEFINE Bad == {i \in Nat : base <= i /\ ~(\E u : Unfolds(u, start, chain, base, i))}
  <1>1. SUFFICES ASSUME Bad # {} PROVE FALSE
    OBVIOUS
  <1>2. PICK i \in Bad : \A j \in Bad : i <= j
    <2> HIDE DEF Bad
    <2>1. Bad \in SUBSET Nat
      BY Zenon DEF Bad
    <2> QED BY <1>1, <2>1, LeastNat, Zenon
  <1>3. CASE i = base
    <2>1. Unfolds([g \in base..base |-> start], start, chain, base, base)
      BY DEF Unfolds
    <2> QED BY <1>3, <2>1, Zenon
  <1>4. CASE i # base
    <2>1. i - 1 \in Nat /\ base <= i - 1 /\ (i - 1) + 1 = i /\ ~(i <= i - 1)
      BY <1>4
    <2>2. PICK u : Unfolds(u, start, chain, base, i - 1)
      BY <1>2, <2>1, Zenon
    <2>3. \E v : Unfolds(v, start, chain, base, (i - 1) + 1)
      BY <2>1, <2>2, Extends, Zenon
    <2> QED BY <2>1, <2>3, Zenon
  <1> QED BY <1>3, <1>4, Zenon

\* The loop of load_for is what it says.
LEMMA Unfolding ==
    ASSUME NEW start, NEW chain, NEW base \in Nat, NEW n \in Nat, base <= n
    PROVE  Unfolds(Replay(start, chain, base, n), start, chain, base, n)
  <1>1. \E u : Unfolds(u, start, chain, base, n)
    BY Solvable, Zenon
  <1>2. Replay(start, chain, base, n) = CHOOSE u : Unfolds(u, start, chain, base, n)
    BY Zenon DEF Replay, Unfolds
  <1> QED BY <1>1, <1>2, Zenon

\* ... and has one solution, which the later deltas do not change.
LEMMA Determined ==
    ASSUME NEW start, NEW chain, NEW other, NEW base \in Nat, NEW n \in Nat, NEW k \in Nat,
           base <= n, n <= k,
           \A g \in (base + 1)..n : chain[g] = other[g],
           NEW u, Unfolds(u, start, chain, base, n),
           NEW v, Unfolds(v, start, other, base, k)
    PROVE  \A g \in base..n : u[g] = v[g]
  <1> DEFINE Bad == {g \in base..n : u[g] # v[g]}
  <1>1. SUFFICES ASSUME Bad # {} PROVE FALSE
    OBVIOUS
  <1>2. PICK i \in Bad : \A j \in Bad : i <= j
    <2> HIDE DEF Bad
    <2>1. Bad \in SUBSET Nat
      BY DEF Bad
    <2> QED BY <1>1, <2>1, LeastNat, Zenon
  <1>3. i # base
    BY DEF Unfolds
  <1>4. i - 1 \in base..n /\ ~(i <= i - 1) /\ i \in (base + 1)..n /\ i \in base..k
    BY <1>3
  <1>5. u[i - 1] = v[i - 1]
    BY <1>2, <1>4, Zenon
  <1>6. u[i] = After(u[i - 1], chain[i]) /\ v[i] = After(v[i - 1], other[i])
    BY <1>3, <1>4, Zenon DEF Unfolds
  <1> QED BY <1>4, <1>5, <1>6, Zenon

\* Deltas and bases have sizes, and a delta is not empty.
LEMMA Sizes ==
    /\ MaxDeltas \in Nat /\ BaseOverhead \in Nat /\ BaseOverhead > 0 /\ MaxGen \in Nat
    /\ \A s : BaseBytes(s) \in Nat /\ BaseBytes(s) > 0
    /\ \A d \in Deltas : DeltaBytes(d) \in Nat /\ DeltaBytes(d) > 0
  <1>1. /\ MaxDeltas \in Nat /\ BaseOverhead \in Nat /\ BaseOverhead > 0 /\ IsFiniteSet(Keys)
        /\ MaxGen \in Nat
    BY FileAssumption
  <1>2. ASSUME NEW s PROVE BaseBytes(s) \in Nat /\ BaseBytes(s) > 0
    <2>1. Cardinality({k \in Keys : s[k] # None}) \in Nat
      <3>1. IsFiniteSet({k \in Keys : s[k] # None})
        BY <1>1, FS_Subset, Zenon
      <3> QED BY <3>1, FS_CardinalityType, Zenon
    <2> QED BY <1>1, <2>1 DEF BaseBytes
  <1>3. ASSUME NEW d \in Deltas PROVE DeltaBytes(d) \in Nat /\ DeltaBytes(d) > 0
    <2>1. DOMAIN d \in SUBSET Keys /\ DOMAIN d # {}
      BY Zenon DEF Deltas
    <2>2. IsFiniteSet(DOMAIN d)
      BY <1>1, <2>1, FS_Subset, Zenon
    <2>3. Cardinality(DOMAIN d) \in Nat /\ Cardinality(DOMAIN d) # 0
      BY <2>1, <2>2, FS_CardinalityType, FS_EmptySet, Zenon
    <2> QED BY <2>3 DEF DeltaBytes
  <1> QED BY <1>1, <1>2, <1>3, Zenon

\* Manifests, in the form the steps use.
LEMMA ManifestType ==
    ASSUME NEW m \in Manifests
    PROVE  /\ m.base \in Generations /\ m.current \in Generations
           /\ m.base \in Nat /\ m.current \in Nat /\ m.baseBytes \in Nat /\ m.deltaBytes \in Nat
           /\ Committed(m) \subseteq Generations
           /\ \A g \in Committed(m) : g \in Nat /\ m.base < g /\ g <= m.current
           /\ m # None
  <1>1. /\ m.base \in Generations /\ m.current \in Generations
        /\ m.baseBytes \in Nat /\ m.deltaBytes \in Nat
    BY Zenon DEF Manifests
  <1>2. m # None
    BY NoFile, Zenon
  <1> QED BY <1>1, <1>2, Sizes DEF Generations, Committed

\* What load() finds depends on the segments of the chain only.
LEMMA ChainDecides ==
    ASSUME NEW m \in Manifests, NEW f, NEW h, SameChain(f, h, m)
    PROVE  Recovered(f, m) = Recovered(h, m) /\ (Intact(f, m) <=> Intact(h, m))
  <1>1. [g \in Committed(m) |-> f.delta[g]] = [g \in Committed(m) |-> h.delta[g]]
    BY Zenon DEF SameChain
  <1>2. f.base[m.base] = h.base[m.base]
    BY Zenon DEF SameChain
  <1>3. Recovered(f, m) = Recovered(h, m)
    BY <1>1, <1>2, Zenon DEF Recovered
  <1>4. (\A g \in Committed(m) : f.delta[g] # None) <=> (\A g \in Committed(m) : h.delta[g] # None)
    BY Zenon DEF SameChain
  <1> QED BY <1>2, <1>3, <1>4, Zenon DEF Intact

\* A chain without deltas is its base.
LEMMA BaseOnly ==
    ASSUME NEW m \in Manifests, m.base = m.current, NEW f
    PROVE  Recovered(f, m) = [state |-> f.base[m.base], bytes |-> 0]
  <1> DEFINE start == [state |-> f.base[m.base], bytes |-> 0]
             chain == [g \in Committed(m) |-> f.delta[g]]
             u == Replay(start, chain, m.base, m.current)
  <1>1. m.base \in Nat /\ m.current \in Nat /\ m.base <= m.current
    BY ManifestType
  <1> HIDE DEF start, chain
  <1>2. Unfolds(u, start, chain, m.base, m.current)
    BY <1>1, Unfolding, Zenon
  <1> HIDE DEF u
  <1>3. u[m.current] = start
    BY <1>1, <1>2 DEF Unfolds
  <1> QED BY <1>3, Zenon DEF Recovered, u, start, chain

\* One more delta is applied to what the shorter chain gives.
LEMMA OneMore ==
    ASSUME NEW m \in Manifests, NEW n \in Manifests, m.base <= m.current,
           n.base = m.base, n.current = m.current + 1, NEW f
    PROVE  Recovered(f, n) = After(Recovered(f, m), f.delta[n.current])
  <1> DEFINE start == [state |-> f.base[m.base], bytes |-> 0]
             chain == [g \in Committed(m) |-> f.delta[g]]
             longer == [g \in Committed(n) |-> f.delta[g]]
             b == m.base
             c == m.current
             d == n.current
             u == Replay(start, chain, b, c)
             v == Replay(start, longer, b, d)
  <1>1. /\ b \in Nat /\ c \in Nat /\ d \in Nat /\ b <= c /\ b <= d /\ d = c + 1 /\ c <= d
        /\ Committed(m) = (b + 1)..c /\ Committed(n) = (b + 1)..d
    BY ManifestType DEF Committed
  <1>2. (\A g \in (b + 1)..c : chain[g] = longer[g]) /\ longer[d] = f.delta[d]
    BY <1>1
  <1>3. Recovered(f, m) = u[c] /\ Recovered(f, n) = v[d]
    BY Zenon DEF Recovered
  <1> HIDE DEF start, chain, longer, b, c, d
  <1>4. Unfolds(u, start, chain, b, c) /\ Unfolds(v, start, longer, b, d)
    BY <1>1, Unfolding, Zenon
  <1> HIDE DEF u, v
  <1>5. \A g \in b..c : u[g] = v[g]
    BY <1>1, <1>2, <1>4, Determined
  <1>6. v[d] = After(v[c], longer[d])
    <2>1. d \in b..d /\ d # b /\ d - 1 = c
      BY <1>1
    <2> QED BY <1>4, <2>1, Zenon DEF Unfolds
  <1>7. c \in b..c
    BY <1>1
  <1>8. Recovered(f, n) = After(Recovered(f, m), f.delta[d])
    BY <1>2, <1>3, <1>5, <1>6, <1>7, Zenon
  <1> QED BY <1>8, Zenon DEF d

(***************************************************************************)
(* What a power loss may leave.                                            *)
(***************************************************************************)
\* Every file is as one side has it.
LEMMA MixedIs ==
    ASSUME NEW S, NEW T, NEW f \in [S -> T], NEW g \in [S -> T]
    PROVE  /\ f \in Mixed(f, g)
           /\ \A h \in Mixed(f, g) : h \in [S -> T] /\ \A x \in S : h[x] \in {f[x], g[x]}
  <1> DEFINE D == {x \in DOMAIN f : f[x] # g[x]}
             M(A) == [x \in DOMAIN f |-> IF x \in A THEN f[x] ELSE g[x]]
  <1>1. DOMAIN f = S /\ DOMAIN g = S /\ f = [x \in S |-> f[x]]
    OBVIOUS
  <1>2. \A x \in S : M(D)[x] = f[x]
    BY <1>1, Zenon
  <1>3. M(D) = f
    BY <1>1, <1>2, Zenon
  <1>4. D \in SUBSET D
    OBVIOUS
  <1>5. f \in Mixed(f, g)
    BY <1>3, <1>4, Zenon DEF Mixed
  <1>6. ASSUME NEW h \in Mixed(f, g)
        PROVE  h \in [S -> T] /\ \A x \in S : h[x] \in {f[x], g[x]}
    <2>1. PICK A \in SUBSET D : h = M(A)
      BY <1>6, Zenon DEF Mixed
    <2> QED BY <1>1, <2>1, Zenon
  <1> QED BY <1>5, <1>6, Zenon

\* A power loss leaves one of two manifests, with its chain and the legacy file.
LEMMA OutcomeIs ==
    ASSUME FileInv, NEW f \in Outcomes
    PROVE  /\ f \in Files /\ f.manifest \in {fs.manifest, safe.manifest}
           /\ f.legacy \in {fs.legacy, safe.legacy}
           /\ f.manifest # None => SameChain(f, fs, f.manifest)
  <1>1. fs \in Files /\ safe \in Files /\ dirSafe \in BOOLEAN
    BY Zenon DEF FileInv, TypeOK
  <1>2. CASE f \in [manifest : {fs.manifest, safe.manifest}, base : Mixed(fs.base, safe.base),
                    delta : Mixed(fs.delta, safe.delta), legacy : {fs.legacy, safe.legacy}]
    <2>1. /\ fs.base \in [Generations -> States \cup {None}]
          /\ safe.base \in [Generations -> States \cup {None}]
          /\ fs.delta \in [Generations -> Deltas \cup {None}]
          /\ safe.delta \in [Generations -> Deltas \cup {None}]
      BY <1>1, Zenon DEF Files
    <2>2. f.base \in Mixed(fs.base, safe.base) /\ f.delta \in Mixed(fs.delta, safe.delta)
      BY <1>2, Zenon
    <2>3. /\ f.base \in [Generations -> States \cup {None}]
          /\ \A x \in Generations : f.base[x] \in {fs.base[x], safe.base[x]}
      BY <2>1, <2>2, MixedIs, Zenon
    <2>4. /\ f.delta \in [Generations -> Deltas \cup {None}]
          /\ \A x \in Generations : f.delta[x] \in {fs.delta[x], safe.delta[x]}
      BY <2>1, <2>2, MixedIs, Zenon
    <2>5. f.manifest \in {fs.manifest, safe.manifest} /\ f.legacy \in {fs.legacy, safe.legacy}
      BY <1>2, Zenon
    <2>6. f \in Files
      BY <1>1, <1>2, <2>3, <2>4, <2>5, Zenon DEF Files
    <2>7. ASSUME f.manifest # None PROVE SameChain(f, fs, f.manifest)
      <3>1. f.manifest \in Manifests
        BY <2>6, <2>7, Zenon DEF Files
      <3>2. SameChain(fs, safe, f.manifest)
        BY <2>5, <2>7 DEF FileInv, Recoverable, Sound
      <3>3. f.manifest.base \in Generations /\ Committed(f.manifest) \subseteq Generations
        BY <3>1, ManifestType, Zenon
      <3> QED BY <2>3, <2>4, <3>2, <3>3, Zenon DEF SameChain
    <2> QED BY <2>5, <2>6, <2>7, Zenon
  <1>3. CASE ~dirSafe /\ f \in [manifest : {None}, base : {NoFiles}, delta : {NoFiles},
                                legacy : {fs.legacy, safe.legacy}]
    <2>1. fs.manifest = None
      BY <1>3, Zenon DEF FileInv, Recoverable
    <2>2. NoFiles \in [Generations -> States \cup {None}] /\ NoFiles \in [Generations -> Deltas \cup {None}]
      BY Zenon DEF NoFiles
    <2>3. f.manifest = None /\ f.legacy \in {fs.legacy, safe.legacy}
      BY <1>3, Zenon
    <2>4. f \in Files
      BY <1>1, <1>3, <2>2, Zenon DEF Files
    <2> QED BY <2>1, <2>3, <2>4, Zenon
  <1> QED BY <1>1, <1>2, <1>3, Zenon DEF Outcomes

\* What load() returns for a manifest that a power loss may leave.
Value(f, m) == IF m = None THEN f.legacy ELSE Recovered(f, m).state

\* load() is never refused: it finds the value of the manifest.
LEMMA LoadIs ==
    ASSUME FileInv
    PROVE  /\ Load(fs) = Value(fs, fs.manifest)
           /\ \A f \in Outcomes : Load(f) = Value(fs, f.manifest)
  <1>1. ASSUME NEW f \in Outcomes PROVE Load(f) = Value(fs, f.manifest)
    <2>1. /\ f \in Files /\ f.manifest \in {fs.manifest, safe.manifest}
          /\ f.legacy \in {fs.legacy, safe.legacy}
          /\ f.manifest # None => SameChain(f, fs, f.manifest)
      BY OutcomeIs, Zenon
    <2>2. CASE f.manifest = None
      <3>1. safe.manifest = None
        BY <2>1, <2>2, Zenon DEF FileInv, Recoverable
      <3>2. f.legacy = fs.legacy
        BY <2>1, <3>1, Zenon DEF FileInv, Recoverable
      <3> QED BY <2>2, <3>2, Zenon DEF Load, Value
    <2>3. CASE f.manifest # None
      <3>1. f.manifest \in Manifests
        BY <2>1, <2>3, Zenon DEF Files
      <3>2. Intact(fs, f.manifest)
        BY <2>1, <2>3 DEF FileInv, Recoverable, Sound
      <3>3. Recovered(f, f.manifest) = Recovered(fs, f.manifest) /\ Intact(f, f.manifest)
        BY <2>1, <2>3, <3>1, <3>2, ChainDecides, Zenon
      <3> QED BY <2>3, <3>3, Zenon DEF Load, Value
    <2> QED BY <2>2, <2>3, Zenon
  <1>2. Load(fs) = Value(fs, fs.manifest)
    BY Zenon DEF FileInv, Recoverable, Sound, Load, Value
  <1> QED BY <1>1, <1>2, Zenon

\* Either manifest may be left.
LEMMA KeptIs ==
    FileInv => Kept = {Value(fs, fs.manifest), Value(fs, safe.manifest)}
  <1> SUFFICES ASSUME FileInv PROVE Kept = {Value(fs, fs.manifest), Value(fs, safe.manifest)}
    OBVIOUS
  <1>1. ASSUME NEW m \in {fs.manifest, safe.manifest}
        PROVE  \E f \in Outcomes : f.manifest = m
    <2> DEFINE f == [manifest |-> m, base |-> fs.base, delta |-> fs.delta, legacy |-> fs.legacy]
    <2>1. /\ fs.base \in [Generations -> States \cup {None}]
          /\ safe.base \in [Generations -> States \cup {None}]
          /\ fs.delta \in [Generations -> Deltas \cup {None}]
          /\ safe.delta \in [Generations -> Deltas \cup {None}]
      BY Zenon DEF FileInv, TypeOK, Files
    <2>2. fs.base \in Mixed(fs.base, safe.base) /\ fs.delta \in Mixed(fs.delta, safe.delta)
      BY <2>1, MixedIs, Zenon
    <2>3. f \in Outcomes
      BY <2>2, Zenon DEF Outcomes
    <2>4. f.manifest = m
      OBVIOUS
    <2> QED BY <2>3, <2>4, Zenon
  <1>2. \A f \in Outcomes : f.manifest \in {fs.manifest, safe.manifest}
    BY OutcomeIs, Zenon
  <1>3. \A f \in Outcomes : Load(f) = Value(fs, f.manifest)
    BY LoadIs, Zenon
  <1> QED BY <1>1, <1>2, <1>3, Zenon DEF Kept

(***************************************************************************)
(* The invariant is kept by every step.                                    *)
(***************************************************************************)
\* A manifest stays sound as long as its chain is not touched.
LEMMA SoundMoves ==
    ASSUME NEW m \in Manifests \cup {None}, NEW f, NEW h, NEW f2, NEW h2, Sound(f, h, m),
           m # None => SameChain(f2, f, m) /\ SameChain(h2, h, m)
    PROVE  Sound(f2, h2, m)
  <1> SUFFICES ASSUME m # None
               PROVE  /\ Intact(f2, m) /\ SameChain(f2, h2, m)
                      /\ m.current - m.base <= MaxDeltas /\ m.deltaBytes < m.baseBytes
    BY Zenon DEF Sound
  <1>1. /\ Intact(f, m) /\ SameChain(f, h, m)
        /\ m.current - m.base <= MaxDeltas /\ m.deltaBytes < m.baseBytes
    BY Zenon DEF Sound
  <1>2. Intact(f2, m)
    BY <1>1, ChainDecides, Zenon
  <1>3. SameChain(f2, h2, m)
    BY <1>1, Zenon DEF SameChain
  <1> QED BY <1>1, <1>2, <1>3, Zenon

\* Initially there is no manifest.
LEMMA InitFile == Init => FileInv
  <1> SUFFICES ASSUME Init PROVE FileInv
    OBVIOUS
  <1>1. PICK old \in States \cup {None} :
          fs = [manifest |-> None, base |-> NoFiles, delta |-> NoFiles, legacy |-> old]
    BY Zenon DEF Init
  <1>2. /\ safe = fs /\ dirSafe = FALSE /\ pc = "idle" /\ call = NoCall /\ answered = None
    BY Zenon DEF Init
  <1>3. fs \in Files
    BY <1>1, Zenon DEF Files, NoFiles
  <1>4. TypeOK
    BY <1>2, <1>3, Zenon DEF TypeOK
  <1>5. Recoverable
    BY <1>1, <1>2, Zenon DEF Recoverable, Sound
  <1>6. Running
    BY <1>2, Zenon DEF Running
  <1> QED BY <1>2, <1>4, <1>5, <1>6, Zenon DEF FileInv, Promise

\* The manifests, and where the next generation is.
LEMMA Current ==
    ASSUME FileInv
    PROVE  /\ fs.manifest \in Manifests \cup {None} /\ safe.manifest \in Manifests \cup {None}
           /\ NextGeneration \in Nat /\ NextGeneration > 0
           /\ \A m \in {fs.manifest, safe.manifest} : m # None =>
                /\ m \in Manifests /\ m.base < NextGeneration
                /\ \A g \in Committed(m) : g # NextGeneration
  <1>1. fs.manifest \in Manifests \cup {None} /\ safe.manifest \in Manifests \cup {None}
    BY Zenon DEF FileInv, TypeOK, Files
  <1>2. NextGeneration \in Nat /\ NextGeneration > 0
    BY <1>1, ManifestType DEF NextGeneration
  <1>3. ASSUME NEW m \in {fs.manifest, safe.manifest}, m # None
        PROVE  /\ m \in Manifests /\ m.base < NextGeneration
               /\ \A g \in Committed(m) : g # NextGeneration
    <2>1. m \in Manifests /\ Intact(fs, m)
      BY <1>1, <1>3, Zenon DEF FileInv, Recoverable, Sound
    <2>2. fs.manifest # None /\ m.current <= fs.manifest.current
      <3>1. fs.manifest # None
        BY <1>3, Zenon DEF FileInv, Recoverable
      <3>2. fs.manifest.current \in Nat
        BY <1>1, <3>1, ManifestType, Zenon
      <3> QED BY <1>3, <3>1, <3>2 DEF FileInv, Recoverable
    <2>3. NextGeneration = fs.manifest.current + 1 /\ fs.manifest.current \in Nat
      BY <1>1, <2>2, ManifestType, Zenon DEF NextGeneration
    <2>4. m.base \in Nat /\ m.current \in Nat /\ m.base <= m.current
      BY <2>1, ManifestType, Zenon DEF Intact, ManifestValid
    <2>5. \A g \in Committed(m) : g \in Nat /\ g <= m.current
      BY <2>1, ManifestType, Zenon
    <2> QED BY <2>1, <2>2, <2>3, <2>4, <2>5
  <1> QED BY <1>1, <1>2, <1>3, Zenon

\* A call begins.
LEMMA BeginFile ==
    ASSUME FileInv, UNCHANGED <<fs, safe, dirSafe>>, pc' = "segment", answered' = None,
           call' \in Calls, NextGeneration \in Generations,
           call'.op = "delta" =>
             fs.manifest # None /\ ~ShouldMaterialize(fs.manifest, DeltaBytes(call'.arg))
    PROVE  FileInv'
  <1>1. TypeOK'
    BY Zenon DEF FileInv, TypeOK
  <1>2. Recoverable'
    BY Zenon DEF FileInv, Recoverable
  <1>3. call' # NoCall
    BY DEF Calls, NoCall
  <1>4. NextGeneration' = NextGeneration
    BY Zenon DEF NextGeneration
  <1>5. Running'
    BY <1>3, <1>4, Zenon DEF Running
  <1> QED BY <1>1, <1>2, <1>5, Zenon DEF FileInv, Promise

\* try_save_delta begins.
LEMMA DeltaFile == ASSUME FileInv, NEW d \in Deltas, TrySaveDelta(d) PROVE FileInv'
  <1>1. call' \in Calls /\ call'.op = "delta" /\ call'.arg = d
    BY Zenon DEF TrySaveDelta, Calls
  <1> QED BY <1>1, BeginFile, Zenon DEF TrySaveDelta

\* save begins.
LEMMA FullFile == ASSUME FileInv, NEW s \in States, SaveFull(s) PROVE FileInv'
  <1>1. call' \in Calls /\ call'.op = "full"
    BY Zenon DEF SaveFull, Calls
  <1> QED BY <1>1, BeginFile, Zenon DEF SaveFull

\* A new segment is in no chain yet.
LEMMA SegmentFile == ASSUME FileInv, WriteSegment PROVE FileInv'
  <1> DEFINE n == NextGeneration
  <1>1. /\ pc = "segment" /\ pc' = "segment_sync" /\ n \in Generations /\ call \in Calls
        /\ UNCHANGED <<safe, dirSafe, call, answered>>
        /\ call.op = "delta" =>
             fs.manifest # None /\ ~ShouldMaterialize(fs.manifest, DeltaBytes(call.arg))
    BY Zenon DEF WriteSegment, FileInv, TypeOK, Running
  <1>2. fs \in Files /\ safe \in Files /\ dirSafe \in BOOLEAN
    BY Zenon DEF FileInv, TypeOK
  <1>3. \/ call.op = "delta" /\ call.arg \in Deltas
        \/ call.op = "full" /\ call.arg \in States
    BY <1>1, Zenon DEF Calls
  <1>4. /\ fs' \in Files /\ fs'.manifest = fs.manifest /\ fs'.legacy = fs.legacy
        /\ IF call.op = "delta" THEN fs'.delta[n] = call.arg ELSE fs'.base[n] = call.arg
        /\ \A g \in Generations : g # n => fs'.base[g] = fs.base[g] /\ fs'.delta[g] = fs.delta[g]
    <2>1. CASE call.op = "delta" /\ call.arg \in Deltas
      <3>1. fs' = [fs EXCEPT !.delta[n] = call.arg]
        BY <2>1, Zenon DEF WriteSegment
      <3> QED BY <1>1, <1>2, <2>1, <3>1, Zenon DEF Files
    <2>2. CASE call.op = "full" /\ call.arg \in States
      <3>1. fs' = [fs EXCEPT !.base[n] = call.arg]
        BY <2>2, Zenon DEF WriteSegment
      <3> QED BY <1>1, <1>2, <2>2, <3>1, Zenon DEF Files
    <2> QED BY <1>3, <2>1, <2>2, Zenon
  <1>5. n' = n
    BY <1>4, Zenon DEF NextGeneration
  <1>6. ASSUME NEW m \in {fs.manifest, safe.manifest}, Sound(fs, safe, m)
        PROVE  Sound(fs', safe', m)
    <2>1. m # None => /\ m \in Manifests /\ m.base # n /\ \A g \in Committed(m) : g # n
      BY Current
    <2>2. m # None => m.base \in Generations /\ Committed(m) \subseteq Generations
      BY <2>1, ManifestType, Zenon
    <2>3. m # None => SameChain(fs', fs, m)
      BY <1>4, <2>1, <2>2, Zenon DEF SameChain
    <2>4. m # None => SameChain(safe', safe, m)
      BY <1>1, Zenon DEF SameChain
    <2>5. m \in Manifests \cup {None}
      BY Current, Zenon
    <2> QED BY <1>6, <2>3, <2>4, <2>5, SoundMoves, Zenon
  <1>7. TypeOK'
    BY <1>1, <1>2, <1>4, Zenon DEF TypeOK
  <1>8. Recoverable'
    BY <1>1, <1>4, <1>6, Zenon DEF FileInv, Recoverable
  <1>9. Running'
    <2>1. call # NoCall
      BY <1>1 DEF Calls, NoCall
    <2>2. Written(fs)'
      BY <1>1, <1>4, <1>5, Zenon DEF Written
    <2> QED BY <1>1, <1>4, <1>5, <2>1, <2>2, Zenon DEF Running
  <1>10. answered = None
    BY <1>1, Zenon DEF FileInv, Promise
  <1> QED BY <1>1, <1>7, <1>8, <1>9, <1>10, Zenon DEF FileInv, Promise

\* Syncing the store leaves one manifest, on disk as seen.
LEMMA SyncFile ==
    ASSUME FileInv, SyncStore, OrderedMetadata
    PROVE  /\ safe' \in Files /\ fs' = fs /\ dirSafe' = TRUE /\ Recoverable'
           /\ safe'.manifest = fs.manifest /\ safe'.base = fs.base /\ safe'.delta = fs.delta
  <1>1. fs \in Files /\ safe \in Files
    BY Zenon DEF FileInv, TypeOK
  <1>2. fs' = fs /\ safe' = [fs EXCEPT !.legacy = safe.legacy] /\ dirSafe' = TRUE
    BY Zenon DEF SyncStore
  <1>3. /\ safe' \in Files /\ safe'.manifest = fs.manifest /\ safe'.base = fs.base
        /\ safe'.delta = fs.delta /\ safe'.legacy = safe.legacy
    BY <1>1, <1>2, Zenon DEF Files
  <1>4. Sound(fs, safe', fs.manifest)
    BY <1>3, Zenon DEF FileInv, Recoverable, Sound, SameChain
  <1>5. fs.manifest # None => fs.manifest.current \in Nat
    BY <1>1, ManifestType, Zenon DEF Files
  <1>6. fs.legacy = safe'.legacy \/ fs.manifest # None
    BY <1>3, Zenon DEF FileInv, Recoverable
  <1> QED BY <1>2, <1>3, <1>4, <1>5, <1>6 DEF Recoverable

\* The segment is durable before it is named.
LEMMA SyncSegmentFile == ASSUME FileInv, SyncSegment, OrderedMetadata PROVE FileInv'
  <1>1. /\ pc = "segment_sync" /\ pc' = "publish" /\ SyncStore /\ UNCHANGED <<call, answered>>
    BY Zenon DEF SyncSegment
  <1>2. /\ safe' \in Files /\ fs' = fs /\ dirSafe' = TRUE /\ Recoverable'
        /\ safe'.manifest = fs.manifest /\ safe'.base = fs.base /\ safe'.delta = fs.delta
    BY <1>1, SyncFile, Zenon
  <1>3. /\ fs \in Files /\ call \in Calls \cup {NoCall} /\ call # NoCall /\ Written(fs)
        /\ NextGeneration \in Generations
        /\ call.op = "delta" =>
             fs.manifest # None /\ ~ShouldMaterialize(fs.manifest, DeltaBytes(call.arg))
    BY <1>1, Zenon DEF FileInv, TypeOK, Running
  <1>4. NextGeneration' = NextGeneration
    BY <1>2, Zenon DEF NextGeneration
  <1>5. Written(fs)' /\ Written(safe)'
    BY <1>1, <1>2, <1>3, <1>4, Zenon DEF Written
  <1>6. TypeOK'
    BY <1>1, <1>2, <1>3, Zenon DEF TypeOK
  <1>7. Running'
    BY <1>1, <1>2, <1>3, <1>4, <1>5, Zenon DEF Running
  <1>8. answered = None
    BY <1>1, Zenon DEF FileInv, Promise
  <1> QED BY <1>1, <1>2, <1>6, <1>7, <1>8, Zenon DEF FileInv, Promise

\* The manifest that is published names an intact chain, and the state it stands for is
\* what the call asks for.
LEMMA Publishes ==
    ASSUME FileInv, pc = "publish"
    PROVE  /\ NewManifest \in Manifests /\ NewManifest.current = NextGeneration
           /\ Sound(fs, safe, NewManifest)
           /\ call.op = "full" => NewManifest.base = NewManifest.current
           /\ Recovered(fs, NewManifest).state =
                IF call.op = "delta" THEN Apply(Recovered(fs, fs.manifest).state, call.arg)
                ELSE call.arg
  <1> DEFINE n == NewManifest
             x == NextGeneration
  <1>1. /\ fs \in Files /\ safe \in Files /\ call \in Calls /\ x \in Generations /\ x \in Nat /\ x > 0
        /\ Written(fs) /\ Written(safe) /\ fs.manifest = safe.manifest
        /\ call.op = "delta" =>
             fs.manifest # None /\ ~ShouldMaterialize(fs.manifest, DeltaBytes(call.arg))
    BY Current, Zenon DEF FileInv, TypeOK, Running
  <1>2. CASE call.op = "delta"
    <2> DEFINE m == fs.manifest
               bytes == DeltaBytes(call.arg)
    <2>1. /\ call.arg \in Deltas /\ m # None /\ m \in Manifests /\ ~ShouldMaterialize(m, bytes)
          /\ fs.delta[x] = call.arg /\ safe.delta[x] = call.arg /\ call.arg # None
      BY <1>1, <1>2, NoFile, Zenon DEF Calls, Files, Written
    <2>2. Intact(fs, m) /\ SameChain(fs, safe, m)
      BY <1>1, <2>1, Zenon DEF FileInv, Recoverable, Sound
    <2>3. /\ m.base \in Nat /\ m.current \in Nat /\ m.baseBytes \in Nat /\ m.deltaBytes \in Nat
          /\ m.base \in Generations /\ m.base <= m.current /\ 0 < m.base /\ 0 < m.baseBytes
          /\ bytes \in Nat /\ bytes > 0 /\ MaxDeltas \in Nat /\ x = m.current + 1
      <3>1. x = m.current + 1
        BY <2>1, Zenon DEF NextGeneration
      <3> QED BY <2>1, <2>2, <3>1, ManifestType, Sizes, Zenon DEF Intact, ManifestValid
    <2>4. /\ n = [m EXCEPT !.current = x, !.deltaBytes = @ + bytes]
      BY <1>2, Zenon DEF NewManifest
    <2> HIDE DEF n, m, bytes, x
    <2>5. /\ n \in Manifests /\ n.base = m.base /\ n.current = x
          /\ n.baseBytes = m.baseBytes /\ n.deltaBytes = m.deltaBytes + bytes
      <3>1. m.deltaBytes + bytes \in Nat
        BY <2>3
      <3> QED BY <1>1, <2>1, <2>4, <3>1, Zenon DEF Manifests
    <2>6. Committed(n) = Committed(m) \cup {x}
      BY <2>3, <2>5 DEF Committed
    <2>7. Recovered(fs, n) = After(Recovered(fs, m), call.arg)
      <3>1. Recovered(fs, n) = After(Recovered(fs, m), fs.delta[n.current])
        BY <2>1, <2>3, <2>5, OneMore, Zenon
      <3> QED BY <2>1, <2>5, <3>1, Zenon
    <2>8. /\ Recovered(fs, n).bytes = m.deltaBytes + bytes
          /\ Recovered(fs, n).state = Apply(Recovered(fs, m).state, call.arg)
      <3>1. Recovered(fs, m).bytes = m.deltaBytes
        BY <2>2, Zenon DEF Intact
      <3> QED BY <2>7, <3>1 DEF After, bytes
    <2>9. ManifestValid(n)
      BY <2>3, <2>5 DEF ManifestValid
    <2>10. Intact(fs, n)
      BY <2>1, <2>2, <2>5, <2>6, <2>8, <2>9, Zenon DEF Intact
    <2>11. SameChain(fs, safe, n)
      BY <2>1, <2>2, <2>5, <2>6, Zenon DEF SameChain
    <2>12. n.current - n.base <= MaxDeltas /\ n.deltaBytes < n.baseBytes
      BY <2>1, <2>3, <2>5 DEF ShouldMaterialize
    <2> QED BY <1>2, <2>5, <2>8, <2>10, <2>11, <2>12, Zenon DEF Sound, n, m, x
  <1>3. CASE call.op = "full"
    <2>1. /\ call.arg \in States /\ fs.base[x] = call.arg /\ safe.base[x] = call.arg
          /\ call.arg # None
      BY <1>1, <1>3, NoFile, Zenon DEF Calls, Written
    <2>2. n = [base |-> x, baseBytes |-> BaseBytes(call.arg), current |-> x, deltaBytes |-> 0]
      BY <1>3, Zenon DEF NewManifest
    <2>3. BaseBytes(call.arg) \in Nat /\ BaseBytes(call.arg) > 0 /\ MaxDeltas \in Nat
      BY Sizes, Zenon
    <2>4. /\ n \in Manifests /\ n.base = x /\ n.current = x /\ n.deltaBytes = 0
          /\ n.baseBytes = BaseBytes(call.arg)
      BY <1>1, <2>2, <2>3, Zenon DEF Manifests
    <2> HIDE DEF n, x
    <2>5. Committed(n) = {}
      BY <1>1, <2>4 DEF Committed
    <2>6. Recovered(fs, n) = [state |-> call.arg, bytes |-> 0]
      BY <2>1, <2>4, BaseOnly, Zenon
    <2>7. Recovered(fs, n).state = call.arg /\ Recovered(fs, n).bytes = 0
      BY <2>6
    <2>8. ManifestValid(n)
      BY <1>1, <2>3, <2>4 DEF ManifestValid
    <2>9. Intact(fs, n)
      BY <2>1, <2>4, <2>5, <2>7, <2>8, Zenon DEF Intact
    <2>10. SameChain(fs, safe, n)
      BY <2>1, <2>4, <2>5, Zenon DEF SameChain
    <2>11. n.current - n.base <= MaxDeltas /\ n.deltaBytes < n.baseBytes
      BY <1>1, <2>3, <2>4
    <2> QED BY <1>3, <2>4, <2>7, <2>9, <2>10, <2>11, Zenon DEF Sound, n, x
  <1> QED BY <1>1, <1>2, <1>3, Zenon DEF Calls

\* The manifest is replaced.
LEMMA PublishFile == ASSUME FileInv, PublishManifest PROVE FileInv'
  <1>1. /\ pc = "publish" /\ pc' = "publish_sync" /\ fs' = [fs EXCEPT !.manifest = NewManifest]
        /\ UNCHANGED <<safe, dirSafe, call, answered>>
    BY Zenon DEF PublishManifest
  <1>2. /\ fs \in Files /\ safe \in Files /\ dirSafe = TRUE /\ call \in Calls \cup {NoCall}
        /\ call # NoCall /\ fs.manifest = safe.manifest
    BY <1>1, Zenon DEF FileInv, TypeOK, Running
  <1>3. /\ NewManifest \in Manifests /\ NewManifest.current = NextGeneration
        /\ Sound(fs, safe, NewManifest)
        /\ call.op = "full" => NewManifest.base = NewManifest.current
    BY <1>1, Publishes, Zenon
  <1>4. /\ fs' \in Files /\ fs'.manifest = NewManifest /\ fs'.legacy = fs.legacy
        /\ fs'.base = fs.base /\ fs'.delta = fs.delta
    BY <1>1, <1>2, <1>3, Zenon DEF Files
  <1>5. fs'.manifest # None
    BY <1>3, <1>4, NoFile, Zenon
  <1>6. ASSUME NEW m \in Manifests \cup {None}, Sound(fs, safe, m) PROVE Sound(fs', safe', m)
    <2>1. SameChain(fs', fs, m) /\ SameChain(safe', safe, m)
      BY <1>1, <1>4, Zenon DEF SameChain
    <2> QED BY <1>6, <2>1, SoundMoves, Zenon
  <1>7. safe.manifest # None => safe.manifest.current <= NewManifest.current
    <2> SUFFICES ASSUME safe.manifest # None PROVE safe.manifest.current <= NewManifest.current
      OBVIOUS
    <2>1. safe.manifest.current \in Nat
      BY <1>2, ManifestType, Zenon DEF Files
    <2> QED BY <1>2, <1>3, <2>1 DEF NextGeneration
  <1>8. Recoverable'
    <2>1. safe.manifest \in Manifests \cup {None} /\ Sound(fs, safe, safe.manifest)
      BY <1>2, Zenon DEF FileInv, Recoverable, Files
    <2>2. Sound(fs', safe', fs'.manifest) /\ Sound(fs', safe', safe'.manifest)
      BY <1>1, <1>3, <1>4, <1>6, <2>1, Zenon
    <2>3. fs.legacy = safe.legacy \/ safe.manifest # None
      BY Zenon DEF FileInv, Recoverable
    <2> QED BY <1>1, <1>2, <1>4, <1>5, <1>7, <2>2, <2>3, Zenon DEF Recoverable
  <1>9. TypeOK'
    BY <1>1, <1>2, <1>4, Zenon DEF TypeOK
  <1>10. Running'
    BY <1>1, <1>2, <1>3, <1>4, <1>5, Zenon DEF Running
  <1>11. answered = None
    BY <1>1, Zenon DEF FileInv, Promise
  <1> QED BY <1>1, <1>8, <1>9, <1>10, <1>11, Zenon DEF FileInv, Promise

\* The manifest is durable; a delta is answered.
LEMMA SyncManifestFile == ASSUME FileInv, SyncManifest, OrderedMetadata PROVE FileInv'
  <1>1. /\ pc = "publish_sync" /\ SyncStore
        /\ \/ call.op = "delta" /\ pc' = "idle" /\ call' = NoCall /\ answered' = Load(fs)
           \/ call.op # "delta" /\ pc' = "cleanup" /\ UNCHANGED <<call, answered>>
    BY Zenon DEF SyncManifest, AnswerOk
  <1>2. /\ safe' \in Files /\ fs' = fs /\ dirSafe' = TRUE /\ Recoverable'
        /\ safe'.manifest = fs.manifest
    BY <1>1, SyncFile, Zenon
  <1>3. /\ fs \in Files /\ call \in Calls /\ call # NoCall /\ fs.manifest # None
        /\ call.op = "full" => fs.manifest.base = fs.manifest.current
        /\ answered = None
    BY <1>1, Zenon DEF FileInv, TypeOK, Running, Promise
  <1>4. call.op \in {"delta", "full"}
    BY <1>3, Zenon DEF Calls
  <1>5. TypeOK'
    BY <1>1, <1>2, <1>3, Zenon DEF TypeOK
  <1>6. Running'
    BY <1>1, <1>2, <1>3, <1>4, Zenon DEF Running
  <1>7. Promise'
    BY <1>1, <1>2, <1>3, Zenon DEF Promise
  <1> QED BY <1>2, <1>5, <1>6, <1>7, Zenon DEF FileInv

\* What is removed after a full save is in no chain.
LEMMA RemoveFile == ASSUME FileInv, RemoveObsolete PROVE FileInv'
  <1> DEFINE m == fs.manifest
  <1>1. /\ pc = "cleanup" /\ UNCHANGED <<safe, dirSafe, pc, call, answered>>
    BY Zenon DEF RemoveObsolete
  <1>2. /\ fs \in Files /\ safe \in Files /\ m \in Manifests /\ m # None /\ call.op = "full"
        /\ m = safe.manifest /\ m.base = m.current /\ answered = None
    BY <1>1, Zenon DEF FileInv, TypeOK, Running, Files, Promise
  <1>3. m.base \in Generations /\ Committed(m) = {}
    BY <1>2, ManifestType DEF Committed
  <1>4. fs' \in Files /\ fs'.manifest = m /\ fs'.base[m.base] = fs.base[m.base]
    <2>1. ASSUME NEW g \in Generations \ {m.base}, fs' = [fs EXCEPT !.base[g] = None]
          PROVE  fs' \in Files /\ fs'.manifest = m /\ fs'.base[m.base] = fs.base[m.base]
      BY <1>2, <1>3, <2>1, Zenon DEF Files
    <2>2. ASSUME NEW g \in Generations, fs' = [fs EXCEPT !.delta[g] = None]
          PROVE  fs' \in Files /\ fs'.manifest = m /\ fs'.base[m.base] = fs.base[m.base]
      BY <1>2, <1>3, <2>2, Zenon DEF Files
    <2>3. ASSUME fs' = [fs EXCEPT !.legacy = None]
          PROVE  fs' \in Files /\ fs'.manifest = m /\ fs'.base[m.base] = fs.base[m.base]
      BY <1>2, <1>3, <2>3, Zenon DEF Files
    <2> QED BY <2>1, <2>2, <2>3, Zenon DEF RemoveObsolete
  <1>5. Sound(fs', safe', m)
    <2>1. SameChain(fs', fs, m) /\ SameChain(safe', safe, m)
      BY <1>1, <1>3, <1>4, Zenon DEF SameChain
    <2>2. Sound(fs, safe, m)
      BY Zenon DEF FileInv, Recoverable
    <2> QED BY <1>2, <2>1, <2>2, SoundMoves, Zenon
  <1>6. Recoverable'
    <2>1. m.current \in Nat
      BY <1>2, ManifestType, Zenon
    <2>2. dirSafe
      BY <1>2, Zenon DEF FileInv, Recoverable
    <2> QED BY <1>1, <1>2, <1>4, <1>5, <2>1, <2>2 DEF Recoverable
  <1>7. TypeOK'
    BY <1>1, <1>4, Zenon DEF FileInv, TypeOK
  <1>8. Running'
    BY <1>1, <1>2, <1>4, Zenon DEF FileInv, Running
  <1> QED BY <1>1, <1>2, <1>6, <1>7, <1>8, Zenon DEF FileInv, Promise

\* A full save is answered, whether or not its last sync succeeded.
LEMMA FinishFile == ASSUME FileInv, FinishCleanup, OrderedMetadata PROVE FileInv'
  <1>1. /\ pc = "cleanup" /\ pc' = "idle" /\ call' = NoCall /\ answered' = Load(fs)
    BY Zenon DEF FinishCleanup, AnswerOk
  <1>2. fs \in Files /\ fs.manifest # None /\ fs.manifest = safe.manifest
    BY <1>1, Zenon DEF FileInv, TypeOK, Running
  <1>3. fs' = fs /\ safe' \in Files /\ dirSafe' \in BOOLEAN /\ safe'.manifest = fs.manifest /\ Recoverable'
    <2>1. CASE SyncStore
      BY <2>1, SyncFile, Zenon
    <2>2. CASE UNCHANGED <<fs, safe, dirSafe>>
      BY <1>2, <2>2, Zenon DEF FileInv, TypeOK, Recoverable
    <2> QED BY <2>1, <2>2, Zenon DEF FinishCleanup
  <1>4. TypeOK'
    BY <1>1, <1>2, <1>3, Zenon DEF TypeOK
  <1>5. Running'
    BY <1>1, Zenon DEF Running
  <1>6. Promise'
    BY <1>1, <1>2, <1>3, Zenon DEF Promise
  <1> QED BY <1>3, <1>4, <1>5, <1>6, Zenon DEF FileInv

\* A call that fails or is cut short leaves the files.
LEMMA CutFile == ASSUME FileInv, FailCall \/ Stop PROVE FileInv'
  <1>1. pc # "idle" /\ pc' = "idle" /\ call' = NoCall /\ UNCHANGED <<fs, safe, dirSafe, answered>>
    BY Zenon DEF FailCall, Stop
  <1>2. answered = None
    BY <1>1, Zenon DEF FileInv, Promise
  <1>3. TypeOK' /\ Recoverable'
    BY <1>1, Zenon DEF FileInv, TypeOK, Recoverable
  <1> QED BY <1>1, <1>2, <1>3, Zenon DEF FileInv, Running, Promise

\* So does the kernel.
LEMMA WriteBackFile == ASSUME FileInv, WriteBack PROVE FileInv'
  <1>1. dirSafe' = TRUE /\ UNCHANGED <<fs, safe, pc, call, answered>>
    BY Zenon DEF WriteBack
  <1>2. TypeOK' /\ Recoverable'
    BY <1>1, Zenon DEF FileInv, TypeOK, Recoverable
  <1>3. NextGeneration' = NextGeneration
    BY <1>1, Zenon DEF NextGeneration
  <1>4. Running'
    BY <1>1, <1>3, Zenon DEF FileInv, Running, Written
  <1> QED BY <1>1, <1>2, <1>4, Zenon DEF FileInv, Promise

\* What a power loss leaves is one of the manifests with its chain.
LEMMA PowerFile == ASSUME FileInv, PowerLoss PROVE FileInv'
  <1> DEFINE m == fs'.manifest
  <1>1. /\ fs' \in Outcomes /\ safe' = fs' /\ dirSafe' = (m # None)
        /\ pc' = "idle" /\ call' = NoCall /\ answered' = answered
    BY Zenon DEF PowerLoss
  <1>2. /\ fs' \in Files /\ m \in {fs.manifest, safe.manifest}
        /\ m # None => SameChain(fs', fs, m)
    BY <1>1, OutcomeIs, Zenon
  <1>3. m \in Manifests \cup {None}
    BY <1>2, Zenon DEF Files
  <1>4. Sound(fs', fs', m)
    <2>1. Sound(fs, safe, m)
      BY <1>2, Zenon DEF FileInv, Recoverable
    <2>2. m # None => SameChain(fs', safe, m)
      BY <1>2, <2>1, Zenon DEF Sound, SameChain
    <2> QED BY <1>2, <1>3, <2>1, <2>2, SoundMoves, Zenon
  <1>5. TypeOK'
    BY <1>1, <1>2, Zenon DEF TypeOK
  <1>6. Recoverable'
    <2>1. m # None => m.current \in Nat
      BY <1>3, ManifestType, Zenon
    <2>2. m # None => dirSafe'
      BY <1>1, Zenon
    <2>3. safe' = fs'
      BY <1>1, Zenon
    <2> QED BY <1>4, <2>1, <2>2, <2>3 DEF Recoverable
  <1>7. Promise'
    <2> SUFFICES ASSUME answered # None PROVE m # None /\ answered = Load(fs')
      BY <1>1, Zenon DEF Promise
    <2>1. m = fs.manifest /\ m # None /\ answered = Load(fs)
      BY <1>2, Zenon DEF FileInv, Promise
    <2> QED BY <1>1, <2>1, LoadIs, Zenon
  <1> QED BY <1>1, <1>5, <1>6, <1>7, Zenon DEF FileInv, Running

\* The invariant, for every number of generations, deltas and faults.
THEOREM FilesInvariant == ASSUME OrderedMetadata PROVE Spec => []FileInv
  <1>1. FileInv /\ [Next]_vars => FileInv'
    <2> SUFFICES ASSUME FileInv, [Next]_vars PROVE FileInv'
      OBVIOUS
    <2>1. CASE UNCHANGED vars
      BY <2>1, Zenon DEF vars, FileInv, TypeOK, Recoverable, Running, Promise, Written, NextGeneration
    <2>2. ASSUME NEW d \in Deltas \cup {None}, NothingWritten(d) PROVE FileInv'
      BY <2>1, <2>2, Zenon DEF NothingWritten
    <2> QED BY <2>1, <2>2, DeltaFile, FullFile, SegmentFile, SyncSegmentFile, PublishFile,
               SyncManifestFile, RemoveFile, FinishFile, CutFile, WriteBackFile, PowerFile, Zenon
            DEF Next
  <1> QED BY <1>1, InitFile, PTL DEF Spec

\* The chain that load() replays stays shorter than MaxDeltas and smaller than its base,
\* whatever call failed, whenever the process stopped or the power was lost.
THEOREM ChainShort == ASSUME OrderedMetadata PROVE Spec => []ChainIsShort
  <1>1. FileInv => ChainIsShort
    <2> SUFFICES ASSUME FileInv, NEW f \in Outcomes, f.manifest # None
                 PROVE  /\ f.manifest.current - f.manifest.base <= MaxDeltas
                        /\ f.manifest.deltaBytes < f.manifest.baseBytes
      BY Zenon DEF ChainIsShort
    <2>1. f.manifest \in {fs.manifest, safe.manifest}
      BY OutcomeIs, Zenon
    <2> QED BY <2>1 DEF FileInv, Recoverable, Sound
  <1> QED BY <1>1, FilesInvariant, PTL

\* What save or try_save_delta answered Ok to is what every later power loss leaves, until
\* the next call.
THEOREM SavedSurvives == ASSUME OrderedMetadata PROVE Spec => []SavedSurvivesPowerLoss
  <1>1. FileInv => SavedSurvivesPowerLoss
    <2> SUFFICES ASSUME FileInv, answered # None, NEW f \in Outcomes PROVE Load(f) = answered
      BY Zenon DEF SavedSurvivesPowerLoss
    <2>1. f.manifest = fs.manifest
      BY OutcomeIs, Zenon DEF FileInv, Promise
    <2>2. Load(fs) = Value(fs, fs.manifest) /\ Load(f) = Value(fs, f.manifest)
      BY LoadIs, Zenon
    <2> QED BY <2>1, <2>2, Zenon DEF FileInv, Promise
  <1> QED BY <1>1, FilesInvariant, PTL

(***************************************************************************)
(* The files implement the atomic backend.                                 *)
(***************************************************************************)
\* What load() shows and what a power loss may leave.
Viewed ==
    /\ Load(fs) = Value(fs, fs.manifest)
    /\ Kept = {Value(fs, fs.manifest), Value(fs, safe.manifest)}

\* Both are so in every state that satisfies the invariant.
LEMMA ViewsNow == FileInv => Viewed
  BY LoadIs, KeptIs, Zenon DEF Viewed

\* Hence before and after a step.
LEMMA Views ==
    /\ FileInv => /\ Load(fs) = Value(fs, fs.manifest)
                  /\ Kept = {Value(fs, fs.manifest), Value(fs, safe.manifest)}
    /\ FileInv' => /\ Load(fs') = Value(fs', fs'.manifest)
                   /\ Kept' = {Value(fs', fs'.manifest), Value(fs', safe'.manifest)}
  <1>1. FileInv' => Viewed'
    BY ViewsNow, PTL
  <1> QED BY <1>1, ViewsNow, Zenon DEF Viewed

\* A step that leaves the manifests, and what either stands for, changes neither view.
LEMMA SameViews ==
    ASSUME FileInv, FileInv', fs'.manifest = fs.manifest, safe'.manifest = safe.manifest,
           \A m \in {fs.manifest, safe.manifest} : Value(fs', m) = Value(fs, m)
    PROVE  Load(fs') = Load(fs) /\ Kept' = Kept
  BY Views, Zenon

\* After the store is synced a power loss leaves what load() shows.
LEMMA SyncViews ==
    ASSUME FileInv, FileInv', SyncStore
    PROVE  Load(fs') = Load(fs) /\ Kept' = {Load(fs)}
  <1>1. fs' = fs /\ safe'.manifest = fs.manifest
    BY Zenon DEF SyncStore, FileInv, TypeOK, Files
  <1> QED BY <1>1, Views, Zenon

\* A step the backend does not see.
LEMMA Unseen ==
    ASSUME Load(fs') = Load(fs), Kept' = Kept, call' = call,
           pc' \in {"publish_sync", "cleanup"} <=> pc \in {"publish_sync", "cleanup"}
    PROVE  UNCHANGED Backend!vars
  BY DEF Backend!vars

\* A call begins.
LEMMA BeginsAtomic ==
    ASSUME FileInv, FileInv',
           \/ \E d \in Deltas : TrySaveDelta(d)
           \/ \E s \in States : SaveFull(s)
    PROVE  Backend!Next
  <1>1. /\ pc = "idle" /\ pc' = "segment" /\ call' \in Calls /\ UNCHANGED <<fs, safe, dirSafe>>
    BY DEF TrySaveDelta, SaveFull, Calls
  <1>2. call = NoCall /\ call' \in Backend!Calls
    BY <1>1, Zenon DEF FileInv, Running, Calls, Backend!Calls
  <1>3. Load(fs') = Load(fs) /\ Kept' = Kept
    BY <1>1, SameViews, Zenon
  <1>4. (pc' \in {"publish_sync", "cleanup"}) = (pc \in {"publish_sync", "cleanup"})
    BY <1>1
  <1>5. Backend!Begin(call')
    BY <1>2, <1>3, <1>4, Zenon DEF Backend!Begin
  <1> QED BY <1>2, <1>5, Zenon DEF Backend!Next

\* A segment that no manifest names is not seen.
LEMMA SegmentUnseen == ASSUME FileInv, FileInv', WriteSegment PROVE UNCHANGED Backend!vars
  <1>1. pc = "segment" /\ pc' = "segment_sync" /\ UNCHANGED <<safe, call>>
    BY Zenon DEF WriteSegment
  <1>2. /\ fs \in Files /\ fs'.manifest = fs.manifest /\ fs'.legacy = fs.legacy
        /\ \A g \in Generations \ {NextGeneration} :
             fs'.base[g] = fs.base[g] /\ fs'.delta[g] = fs.delta[g]
    BY Zenon DEF FileInv, TypeOK, Files, WriteSegment
  <1>3. ASSUME NEW m \in {fs.manifest, safe.manifest} PROVE Value(fs', m) = Value(fs, m)
    <2>1. CASE m = None
      BY <1>2, <2>1, Zenon DEF Value
    <2>2. CASE m # None
      <3>1. /\ m \in Manifests /\ m.base < NextGeneration /\ NextGeneration \in Nat
            /\ \A g \in Committed(m) : g # NextGeneration
        BY <2>2, Current, Zenon
      <3>2. /\ m.base \in Generations /\ m.base \in Nat /\ Committed(m) \subseteq Generations
            /\ Intact(fs, m)
        BY <2>2, <3>1, ManifestType, Zenon DEF FileInv, Recoverable, Sound
      <3>3. SameChain(fs', fs, m)
        BY <1>2, <3>1, <3>2 DEF SameChain
      <3>4. Recovered(fs', m) = Recovered(fs, m)
        BY <3>1, <3>2, <3>3, ChainDecides, Zenon
      <3> QED BY <2>2, <3>4, Zenon DEF Value
    <2> QED BY <2>1, <2>2, Zenon
  <1>4. Load(fs') = Load(fs) /\ Kept' = Kept
    BY <1>1, <1>2, <1>3, SameViews, Zenon
  <1> QED BY <1>1, <1>4, Unseen, Zenon

\* The new manifest is the instant at which the call takes effect.
LEMMA PublishTakesEffect ==
    ASSUME FileInv, FileInv', PublishManifest PROVE Backend!TakeEffect
  <1>1. /\ pc = "publish" /\ pc' = "publish_sync" /\ fs' = [fs EXCEPT !.manifest = NewManifest]
        /\ UNCHANGED <<safe, call>>
    BY Zenon DEF PublishManifest
  <1>2. /\ fs \in Files /\ call # NoCall /\ call \in Calls /\ fs.manifest = safe.manifest
        /\ call.op = "delta" => fs.manifest # None
    BY <1>1, Zenon DEF FileInv, TypeOK, Running
  <1>3. /\ NewManifest \in Manifests /\ Sound(fs, safe, NewManifest)
        /\ Recovered(fs, NewManifest).state =
             IF call.op = "delta" THEN Apply(Recovered(fs, fs.manifest).state, call.arg)
             ELSE call.arg
    BY <1>1, Publishes, Zenon
  <1>4. /\ fs'.manifest = NewManifest /\ fs'.legacy = fs.legacy
        /\ fs'.base = fs.base /\ fs'.delta = fs.delta /\ NewManifest # None
    BY <1>1, <1>2, <1>3, NoFile, Zenon DEF Files
  <1>5. \A m : Value(fs', m) = Value(fs, m)
    BY <1>4, Zenon DEF Value, Recovered
  <1>6. Value(fs, NewManifest) = Backend!Target
    <2>1. Load(fs) = Value(fs, fs.manifest)
      BY Views, Zenon
    <2>2. CASE call.op = "delta"
      BY <1>2, <1>3, <1>4, <2>1, <2>2, Zenon DEF Value, Backend!Target
    <2>3. CASE call.op # "delta"
      BY <1>3, <1>4, <2>3, Zenon DEF Value, Backend!Target
    <2> QED BY <2>2, <2>3, Zenon
  <1>7. Load(fs') = Backend!Target /\ Kept' = Kept \cup {Backend!Target}
    <2>1. /\ Kept = {Value(fs, fs.manifest), Value(fs, safe.manifest)}
          /\ Load(fs') = Value(fs', fs'.manifest)
          /\ Kept' = {Value(fs', fs'.manifest), Value(fs', safe'.manifest)}
      BY Views, Zenon
    <2>2. /\ Kept = {Value(fs, fs.manifest)} /\ Load(fs') = Backend!Target
          /\ Kept' = {Backend!Target, Value(fs, fs.manifest)}
      BY <1>1, <1>2, <1>4, <1>5, <1>6, <2>1, Zenon
    <2> QED BY <2>2, Zenon
  <1>8. ~(pc \in {"publish_sync", "cleanup"}) /\ (pc' \in {"publish_sync", "cleanup"}) = TRUE
    BY <1>1, Zenon
  <1> QED BY <1>1, <1>2, <1>7, <1>8, Zenon DEF Backend!TakeEffect

\* Syncing the store undoes nothing; for a delta it comes just before the answer.
LEMMA SyncIsDurable ==
    ASSUME FileInv, FileInv', SyncSegment \/ SyncManifest PROVE Backend!Next
  <1>1. SyncStore
    BY Zenon DEF SyncSegment, SyncManifest
  <1>2. Load(fs') = Load(fs) /\ Kept' = {Load(fs)}
    BY <1>1, SyncViews, Zenon
  <1>3. CASE call' = call /\ pc \in {"segment_sync", "publish_sync"} /\
             (pc = "segment_sync" => pc' = "publish") /\ (pc = "publish_sync" => pc' = "cleanup")
    <2>1. (pc' \in {"publish_sync", "cleanup"}) = (pc \in {"publish_sync", "cleanup"})
      BY <1>3
    <2> QED BY <1>2, <1>3, <2>1, Zenon DEF Backend!MakeDurable, Backend!Next
  <1>4. CASE pc = "publish_sync" /\ pc' = "idle" /\ call' = NoCall
    <2>1. call # NoCall
      BY <1>4, Zenon DEF FileInv, Running
    <2>2. pc \in {"publish_sync", "cleanup"} /\ (pc' \in {"publish_sync", "cleanup"}) = FALSE
      BY <1>4
    <2> QED BY <1>2, <1>4, <2>1, <2>2, Zenon DEF Backend!ReturnOk, Backend!Next
  <1> QED BY <1>3, <1>4, Zenon DEF SyncSegment, SyncManifest, AnswerOk

\* What a full save removes is not seen.
LEMMA RemovalUnseen == ASSUME FileInv, FileInv', RemoveObsolete PROVE UNCHANGED Backend!vars
  <1> DEFINE m == fs.manifest
  <1>1. pc = "cleanup" /\ UNCHANGED <<safe, pc, call>>
    BY Zenon DEF RemoveObsolete
  <1>2. /\ fs \in Files /\ m \in Manifests /\ m # None /\ call.op = "full" /\ m = safe.manifest
        /\ m.base = m.current
    BY <1>1, Zenon DEF FileInv, TypeOK, Running, Files
  <1>3. m.base \in Generations /\ Committed(m) = {} /\ Intact(fs, m)
    BY <1>2, ManifestType DEF Committed, FileInv, Recoverable, Sound
  <1>4. fs'.manifest = m /\ fs'.base[m.base] = fs.base[m.base]
    <2>1. ASSUME NEW g \in Generations \ {m.base}, fs' = [fs EXCEPT !.base[g] = None]
          PROVE  fs'.manifest = m /\ fs'.base[m.base] = fs.base[m.base]
      BY <1>2, <1>3, <2>1, Zenon DEF Files
    <2>2. ASSUME NEW g \in Generations, fs' = [fs EXCEPT !.delta[g] = None]
          PROVE  fs'.manifest = m /\ fs'.base[m.base] = fs.base[m.base]
      BY <1>2, <1>3, <2>2, Zenon DEF Files
    <2>3. ASSUME fs' = [fs EXCEPT !.legacy = None]
          PROVE  fs'.manifest = m /\ fs'.base[m.base] = fs.base[m.base]
      BY <1>2, <1>3, <2>3, Zenon DEF Files
    <2> QED BY <2>1, <2>2, <2>3, Zenon DEF RemoveObsolete
  <1>5. SameChain(fs', fs, m)
    BY <1>3, <1>4, Zenon DEF SameChain
  <1>6. Recovered(fs', m) = Recovered(fs, m)
    BY <1>2, <1>3, <1>5, ChainDecides, Zenon
  <1>7. Value(fs', m) = Value(fs, m)
    BY <1>2, <1>6, Zenon DEF Value
  <1>8. Load(fs') = Load(fs) /\ Kept' = Kept
    BY <1>1, <1>2, <1>4, <1>7, SameViews, Zenon
  <1> QED BY <1>1, <1>8, Unseen, Zenon

\* A full save is answered: its effect was durable before the cleanup.
LEMMA FinishReturns == ASSUME FileInv, FileInv', FinishCleanup PROVE Backend!ReturnOk
  <1>1. pc = "cleanup" /\ pc' = "idle" /\ call' = NoCall
    BY Zenon DEF FinishCleanup, AnswerOk
  <1>2. fs.manifest = safe.manifest /\ call # NoCall
    BY <1>1, Zenon DEF FileInv, Running
  <1>3. Load(fs') = Load(fs) /\ Kept' = {Load(fs)}
    <2>1. CASE SyncStore
      BY <2>1, SyncViews, Zenon
    <2>2. CASE UNCHANGED <<fs, safe, dirSafe>>
      BY <1>2, <2>2, Views, Zenon
    <2> QED BY <2>1, <2>2, Zenon DEF FinishCleanup
  <1>4. pc \in {"publish_sync", "cleanup"} /\ (pc' \in {"publish_sync", "cleanup"}) = FALSE
    BY <1>1
  <1> QED BY <1>1, <1>2, <1>3, <1>4, Zenon DEF Backend!ReturnOk

\* An error, or the end of the process, leaves the old state or the new one.
LEMMA CutIsCut == ASSUME FileInv, FileInv', FailCall \/ Stop PROVE Backend!CutShort
  <1>1. pc # "idle" /\ pc' = "idle" /\ call' = NoCall /\ UNCHANGED <<fs, safe, dirSafe>>
    BY Zenon DEF FailCall, Stop
  <1>2. call # NoCall
    BY <1>1, Zenon DEF FileInv, Running
  <1>3. Load(fs') = Load(fs) /\ Kept' = Kept
    BY <1>1, SameViews, Zenon
  <1>4. (pc' \in {"publish_sync", "cleanup"}) = FALSE
    BY <1>1
  <1> QED BY <1>1, <1>2, <1>3, <1>4, Zenon DEF Backend!CutShort

\* A power loss leaves one of the states that may be kept, and then only that one.
LEMMA LossIsLoss == ASSUME FileInv, FileInv', PowerLoss PROVE Backend!PowerLoss
  <1>1. fs' \in Outcomes /\ safe' = fs' /\ pc' = "idle" /\ call' = NoCall
    BY Zenon DEF PowerLoss
  <1>2. Load(fs') \in Kept
    BY <1>1, Zenon DEF Kept
  <1>3. Kept' = {Load(fs')}
    BY <1>1, Views, Zenon
  <1>4. (pc' \in {"publish_sync", "cleanup"}) = FALSE
    BY <1>1
  <1> QED BY <1>1, <1>2, <1>3, <1>4, Zenon DEF Backend!PowerLoss

\* The file backend implements the atomic one: save and try_save_delta take effect at one
\* instant, an Ok means that no power loss undoes it, a failed call leaves the old state or
\* the new one.
THEOREM FilesAreAtomic == ASSUME OrderedMetadata PROVE Spec => ImplementsAtomicBackend
  <1>1. FileInv /\ FileInv' /\ [Next]_vars => [Backend!Next]_(Backend!vars)
    <2> SUFFICES ASSUME FileInv, FileInv', [Next]_vars PROVE Backend!Next \/ UNCHANGED Backend!vars
      BY Zenon
    <2>1. ASSUME UNCHANGED <<fs, safe, pc, call>> PROVE UNCHANGED Backend!vars
      BY <2>1, SameViews, Unseen, Zenon
    <2>2. CASE UNCHANGED vars \/ WriteBack \/ \E d \in Deltas \cup {None} : NothingWritten(d)
      BY <2>1, <2>2, Zenon DEF vars, WriteBack, NothingWritten
    <2>3. CASE PublishManifest \/ FinishCleanup \/ FailCall \/ Stop \/ PowerLoss
      BY <2>3, PublishTakesEffect, FinishReturns, CutIsCut, LossIsLoss, Zenon DEF Backend!Next
    <2> QED BY <2>2, <2>3, BeginsAtomic, SegmentUnseen, SyncIsDurable, RemovalUnseen, Zenon DEF Next
  <1>2. Init => FileInv /\ Backend!Init
    <2> SUFFICES ASSUME Init PROVE FileInv /\ Backend!Init
      OBVIOUS
    <2>1. FileInv
      BY InitFile, Zenon
    <2>2. Load(fs) = Value(fs, fs.manifest) /\ Kept = {Value(fs, fs.manifest), Value(fs, safe.manifest)}
      BY <2>1, Views, Zenon
    <2>3. /\ fs.manifest = None /\ fs.legacy \in States \cup {None} /\ safe = fs
          /\ pc = "idle" /\ call = NoCall
      BY DEF Init
    <2>4. Load(fs) \in States \cup {None} /\ Kept = {Load(fs)}
      BY <2>2, <2>3, Zenon DEF Value
    <2>5. (pc \in {"publish_sync", "cleanup"}) = FALSE
      BY <2>3
    <2> QED BY <2>1, <2>3, <2>4, <2>5, Zenon DEF Backend!Init
  <1> QED BY <1>1, <1>2, FilesInvariant, PTL DEF Spec, ImplementsAtomicBackend, Backend!Spec
==============================================================================
