-------------------------- MODULE ReadReplicaProofs --------------------------
(***************************************************************************)
(* For any number of peers, readers, keys and networks: discovery drops    *)
(* only members that have long been absent, and a reader never becomes a   *)
(* member.                                                                 *)
(*                                                                         *)
(* The counters of discover_periodically are compared with the history of  *)
(* what its source answered, which they never run ahead of: a round first  *)
(* ages them all, then counts one miss per member it has yet to account    *)
(* for.  Readers stay out because what the wire carries to the full        *)
(* replica is never of the dated channel.                                  *)
(***************************************************************************)
EXTENDS ReadReplica, FiniteSetTheorems, TLAPS

Absences == [misses : 0..MissThreshold, age : 0..Floor]

\* What discovery, the receipts and the members range over.
NodeTypeOK ==
    /\ setup \in Setups
    /\ members \subseteq Peers /\ todo \subseteq Peers
    /\ presence \in [Hosts -> Absences \cup {None}]
    /\ absent \in [Peers -> Absences \cup {None}]
    /\ doomed \in [member : Peers, checked : Nat] \cup {None}
    /\ entry \in [Keys -> [at : Nat, live : BOOLEAN]]
    /\ acks \in [Keys -> [Hosts -> Nat]]
    /\ writes \in Nat /\ writes <= setup.writes

\* An absence is at least as long as discovery takes it to be.
NeverAhead(p, h) == p # None => h # None /\ h.misses >= p.misses /\ h.age >= p.age

\* And has a miss in hand for each member a round has yet to account for.
MissInHand(p, h) == p # None /\ h.misses >= Min({MissThreshold, p.misses + 1})

\* What was true of a member when discovery found it eligible, and still is.
DoomedForCause ==
    doomed # None =>
        LET p == presence[doomed.member]
        IN  /\ doomed.member \notin todo
            /\ p # None /\ p.misses >= MissThreshold
            /\ doomed.checked <= Clock
            /\ \/ p.age >= Floor
               \/ doomed.member \in members =>
                    \A k \in Keys : Owes(doomed.member, k) => entry[k].at > doomed.checked

\* The inductive invariant of discovery.
NodeInv ==
    /\ NodeTypeOK
    /\ \A a \in Peers : NeverAhead(presence[a], absent[a])
    /\ \A m \in todo : MissInHand(presence[m], absent[m])
    /\ DoomedForCause

\* std::cmp::min, which saturating counters use.
LEMMA MinPair ==
    ASSUME NEW a \in Nat, NEW b \in Nat
    PROVE  Min({a, b}) = IF a <= b THEN a ELSE b
  <1>1. \E x \in {a, b} : \A y \in {a, b} : x <= y
    OBVIOUS
  <1> QED BY <1>1 DEF Min

\* The bounds of the counters are numbers, and None is no counter.
LEMMA CounterBounds ==
    /\ MissThreshold \in Nat \ {0} /\ Floor \in Nat
    /\ None \notin Absences /\ None \notin [member : Peers, checked : Nat]
  <1>1. MissThreshold \in Nat \ {0} /\ Floor \in Nat
    BY NeighboursAssumption, Zenon
  <1>2. Absences \subseteq [misses : Nat, age : Nat]
    BY <1>1 DEF Absences
  <1>3. [member : Peers, checked : Nat] \subseteq [member : Hosts, checked : Nat]
    BY Zenon DEF Hosts
  <1> QED BY <1>1, <1>2, <1>3, NeighboursAssumption, Zenon

\* Aging leaves the misses alone, starts with the first of them and stops at the floor.
LEMMA AgedShape ==
    ASSUME NEW p \in Absences
    PROVE  /\ Aged(p) \in Absences
           /\ Aged(p).misses = p.misses
           /\ Aged(p).age = IF p.misses > 0 /\ p.age < Floor THEN p.age + 1 ELSE p.age
  <1>1. MissThreshold \in Nat /\ Floor \in Nat /\ p # None
    BY CounterBounds, Zenon
  <1>2. Min({Floor, p.age + 1}) = IF Floor <= p.age + 1 THEN Floor ELSE p.age + 1
    BY <1>1, MinPair DEF Absences
  <1> QED BY <1>1, <1>2 DEF Aged, Absences

\* A miss is one more, up to the threshold.
LEMMA MissedShape ==
    ASSUME NEW p \in Absences
    PROVE  /\ MarkMissed(p) \in Absences
           /\ MarkMissed(p).age = p.age
           /\ MarkMissed(p).misses = IF p.misses < MissThreshold THEN p.misses + 1 ELSE p.misses
  <1>1. MissThreshold \in Nat /\ Floor \in Nat
    BY CounterBounds, Zenon
  <1>2. Min({MissThreshold, p.misses + 1})
          = IF MissThreshold <= p.misses + 1 THEN MissThreshold ELSE p.misses + 1
    BY <1>1, MinPair DEF Absences
  <1> QED BY <1>1, <1>2 DEF MarkMissed, Absences

LEMMA PresentShape == Present \in Absences /\ Present.misses = 0 /\ Present.age = 0
  BY CounterBounds DEF Present, Absences

\* An interval ages an absence as much as the counter of it.
LEMMA AgedTogether ==
    ASSUME NEW p \in Absences \cup {None}, NEW h \in Absences \cup {None}, NeverAhead(p, h)
    PROVE  /\ Aged(p) \in Absences \cup {None} /\ Aged(h) \in Absences \cup {None}
           /\ (Aged(p) = None) = (p = None) /\ (Aged(h) = None) = (h = None)
           /\ NeverAhead(Aged(p), Aged(h))
  <1>1. /\ Floor \in Nat /\ MissThreshold \in Nat /\ None \notin Absences
        /\ Aged(None) = None
    BY CounterBounds, Zenon DEF Aged
  <1>2. CASE p = None
    BY <1>1, <1>2, AgedShape, Zenon DEF NeverAhead
  <1>3. CASE p # None
    <2>1. p \in Absences /\ h \in Absences /\ h.misses >= p.misses /\ h.age >= p.age
      BY <1>3, Zenon DEF NeverAhead
    <2>2. Aged(h).misses >= Aged(p).misses /\ Aged(h).age >= Aged(p).age
      BY <1>1, <2>1, AgedShape DEF Absences
    <2>3. Aged(p) \in Absences /\ Aged(h) \in Absences
      BY <2>1, AgedShape, Zenon
    <2> QED BY <1>1, <2>1, <2>2, <2>3, Zenon DEF NeverAhead
  <1> QED BY <1>2, <1>3, Zenon

(***************************************************************************)
(* What each step does to the invariant of discovery.                      *)
(***************************************************************************)
\* Steps that leave members, receipts, entries and discovery alone.
LEMMA OthersKeep ==
    NodeInv /\ UNCHANGED <<setup, members, sourceVars, entry, acks, writes>> => NodeInv'
  BY Zenon DEF NodeInv, NodeTypeOK, sourceVars, DoomedForCause, Owes, Tombstone, Clock

\* A write is later than whatever discovery has checked.
LEMMA WriteKeeps ==
    ASSUME NodeInv, NEW k \in Keys, NEW live \in BOOLEAN, Write(k, live)
    PROVE  NodeInv'
  <1>1. /\ UNCHANGED <<setup, members, presence, todo, doomed, absent, acks>>
        /\ writes' = writes - 1 /\ writes > 0
        /\ entry' = [entry EXCEPT ![k] = [at |-> Clock + 1, live |-> live]]
    BY Zenon DEF Write, peerVars, sourceVars
  <1>2. setup.writes \in Nat /\ Clock \in Nat /\ Clock' = Clock + 1
    BY <1>1, SetupAssumption DEF NodeInv, NodeTypeOK, Setup, Clock
  <1>3. NodeTypeOK'
    BY <1>1, <1>2 DEF NodeInv, NodeTypeOK
  <1>4. DoomedForCause'
    <2> SUFFICES ASSUME doomed # None PROVE DoomedForCause'
      BY <1>1, Zenon DEF DoomedForCause
    <2>1. doomed.member \in Peers /\ doomed.checked \in Nat /\ doomed.checked <= Clock
      BY Zenon DEF NodeInv, NodeTypeOK, DoomedForCause
    <2>2. \A j \in Keys : Owes(doomed.member, j)' =>
              (j = k /\ entry'[j].at = Clock + 1) \/ (Owes(doomed.member, j) /\ entry'[j] = entry[j])
      BY <1>1, <1>2, Zenon DEF Owes, Tombstone, NodeInv, NodeTypeOK
    <2>3. doomed.checked <= Clock'
      BY <1>2, <2>1
    <2>4. Clock + 1 > doomed.checked
      BY <1>2, <2>1
    <2> QED BY <1>1, <2>2, <2>3, <2>4, Zenon DEF NodeInv, DoomedForCause
  <1> QED BY <1>1, <1>3, <1>4, Zenon DEF NodeInv

\* Discovery looks up the receipts of one member; those of another that is
\* decommissioned meanwhile are not among them.
LEMMA ForgetKeeps ==
    ASSUME NodeInv, NEW a \in Hosts, ForgetPeer(a)
    PROVE  NodeInv'
  <1>1. /\ UNCHANGED <<setup, presence, todo, doomed, absent, entry, writes>>
        /\ members' = members \ {a}
        /\ acks' = [k \in Keys |-> [acks[k] EXCEPT ![a] = 0]]
    BY Zenon DEF ForgetPeer, DecommissionPeer, sourceVars
  <1>2. NodeTypeOK'
    BY <1>1, Zenon DEF NodeInv, NodeTypeOK
  <1>3. ASSUME doomed # None, doomed.member # a, NEW k \in Keys, Owes(doomed.member, k)'
        PROVE  Owes(doomed.member, k)
    BY <1>1, <1>3, Zenon DEF Owes, Tombstone, NodeInv, NodeTypeOK, Hosts
  <1>4. DoomedForCause'
    BY <1>1, <1>3, Zenon DEF DoomedForCause, NodeInv, Clock
  <1> QED BY <1>1, <1>2, <1>4, Zenon DEF NodeInv

\* A datagram is not handled while discovery is at work.
LEMMA HearKeeps ==
    ASSUME NodeInv, NEW a \in Peers, NEW k \in Keys, NEW version \in Nat, NEW streams \in BOOLEAN,
           Hear(a, k, version, streams)
    PROVE  NodeInv'
  <1>1. /\ UNCHANGED <<setup, presence, todo, doomed, absent, entry, writes>>
        /\ todo = {} /\ doomed = None
        /\ members' = members \cup {a}
        /\ acks' = IF version > 0 THEN [acks EXCEPT ![k][a] = version] ELSE acks
    BY Zenon DEF Hear, Idle, sourceVars
  <1>2. NodeTypeOK'
    <2>1. a \in Hosts
      BY Zenon DEF Hosts
    <2>2. acks' \in [Keys -> [Hosts -> Nat]]
      BY <1>1, <2>1, Zenon DEF NodeInv, NodeTypeOK
    <2> QED BY <1>1, <2>2, Zenon DEF NodeInv, NodeTypeOK
  <1> QED BY <1>1, <1>2, Zenon DEF NodeInv, DoomedForCause

\* An answer adds a miss to every absence it leaves going, in hand until the round has
\* counted it.
LEMMA DiscoverKeeps ==
    ASSUME NodeInv, NEW found \in SUBSET Hosts, Discover(found)
    PROVE  NodeInv'
  <1>1. /\ UNCHANGED <<setup, members, doomed, entry, acks, writes>>
        /\ todo = {} /\ doomed = None
        /\ todo' = {m \in members \ found : presence[m] # None}
        /\ presence' = [a \in Hosts |-> IF a \in found THEN Present ELSE Aged(presence[a])]
        /\ absent' = [a \in Peers |-> Noted(a, found)]
    BY Zenon DEF Discover, Idle, MarkSeen, storeVars
  <1>2. /\ MissThreshold \in Nat /\ Floor \in Nat /\ None \notin Absences
        /\ Aged(None) = None /\ found # None
    BY CounterBounds, NeighboursAssumption, Zenon DEF Aged
  <1>3. ASSUME NEW a \in Hosts PROVE presence'[a] \in Absences \cup {None}
    BY <1>1, <1>2, AgedShape, PresentShape, Zenon DEF NodeInv, NodeTypeOK
  <1>4. ASSUME NEW a \in Peers
        PROVE  /\ absent'[a] \in Absences \cup {None}
               /\ NeverAhead(presence'[a], absent'[a])
               /\ a \in todo' => MissInHand(presence'[a], absent'[a])
    <2>1. CASE a \in found
      BY <1>1, <1>2, <2>1, PresentShape DEF Noted, NeverAhead, Hosts
    <2>2. CASE a \notin found
      <3>1. presence'[a] = Aged(presence[a])
        BY <1>1, <2>2, Zenon DEF Hosts
      <3>2. absent'[a] = IF absent[a] = None THEN None ELSE MarkMissed(Aged(absent[a]))
        BY <1>1, <1>2, <2>2, Zenon DEF Noted
      <3>3. /\ presence[a] \in Absences \cup {None} /\ absent[a] \in Absences \cup {None}
            /\ NeverAhead(presence[a], absent[a])
        BY Zenon DEF NodeInv, NodeTypeOK, Hosts
      <3>4. CASE absent[a] = None
        <4>1. presence[a] = None
          BY <3>3, <3>4, Zenon DEF NeverAhead
        <4> QED BY <1>1, <1>2, <3>1, <3>2, <3>4, <4>1, Zenon DEF NeverAhead
      <3>5. CASE absent[a] # None
        <4> DEFINE h == Aged(absent[a])
        <4>1. h \in Absences /\ NeverAhead(Aged(presence[a]), h)
          BY <3>3, <3>5, AgedShape, AgedTogether, Zenon
        <4> HIDE DEF h
        <4>2. absent'[a] = MarkMissed(h)
          BY <3>2, <3>5, Zenon DEF h
        <4>3. MarkMissed(h) \in Absences
          BY <4>1, MissedShape, Zenon
        <4>4. CASE presence[a] = None
          BY <1>1, <1>2, <3>1, <4>2, <4>3, <4>4, Zenon DEF NeverAhead
        <4>5. CASE presence[a] # None
          <5> DEFINE p == Aged(presence[a])
          <5>1. p \in Absences /\ h.misses >= p.misses /\ h.age >= p.age
            BY <1>2, <3>3, <4>1, <4>5, AgedShape, Zenon DEF NeverAhead
          <5> HIDE DEF p
          <5>2. MarkMissed(h).misses >= p.misses /\ MarkMissed(h).age >= p.age
            BY <1>2, <4>1, <5>1, MissedShape DEF Absences
          <5>3. Min({MissThreshold, p.misses + 1})
                  = IF MissThreshold <= p.misses + 1 THEN MissThreshold ELSE p.misses + 1
            BY <1>2, <5>1, MinPair DEF Absences
          <5>4. MarkMissed(h).misses >= Min({MissThreshold, p.misses + 1})
            BY <1>2, <4>1, <5>1, <5>3, MissedShape DEF Absences
          <5>5. presence'[a] = p /\ p # None /\ MarkMissed(h) # None
            BY <1>2, <3>1, <4>3, <5>1, Zenon DEF p
          <5> QED BY <4>2, <4>3, <5>2, <5>4, <5>5, Zenon DEF NeverAhead, MissInHand
        <4> QED BY <4>4, <4>5, Zenon
      <3> QED BY <3>4, <3>5, Zenon
    <2> QED BY <2>1, <2>2, Zenon
  <1>5. NodeTypeOK'
    <2>1. presence' \in [Hosts -> Absences \cup {None}]
      BY <1>1, <1>3, Zenon
    <2>2. absent' \in [Peers -> Absences \cup {None}]
      BY <1>1, <1>4, Zenon
    <2> QED BY <1>1, <2>1, <2>2, Zenon DEF NodeInv, NodeTypeOK
  <1>6. todo' \subseteq Peers
    BY <1>5, Zenon DEF NodeTypeOK
  <1> QED BY <1>1, <1>4, <1>5, <1>6, Zenon DEF NodeInv, DoomedForCause

\* A failure ages absences and adds no miss.
LEMMA DiscoverFailsKeeps ==
    ASSUME NodeInv, DiscoverFails
    PROVE  NodeInv'
  <1>1. /\ UNCHANGED <<setup, members, todo, doomed, entry, acks, writes>>
        /\ todo = {} /\ doomed = None
        /\ presence' = [a \in Hosts |-> Aged(presence[a])]
        /\ absent' = [a \in Peers |-> Aged(absent[a])]
    BY Zenon DEF DiscoverFails, Idle, Noted, peerVars, storeVars
  <1>2. Aged(None) = None
    BY Zenon DEF Aged
  <1>3. ASSUME NEW a \in Hosts PROVE presence'[a] \in Absences \cup {None}
    BY <1>1, <1>2, AgedShape, Zenon DEF NodeInv, NodeTypeOK
  <1>4. ASSUME NEW a \in Peers
        PROVE  absent'[a] \in Absences \cup {None} /\ NeverAhead(presence'[a], absent'[a])
    <2>1. /\ presence[a] \in Absences \cup {None} /\ absent[a] \in Absences \cup {None}
          /\ NeverAhead(presence[a], absent[a])
      BY Zenon DEF NodeInv, NodeTypeOK, Hosts
    <2> QED BY <1>1, <2>1, AgedTogether, Zenon DEF Hosts
  <1>5. NodeTypeOK'
    <2>1. presence' \in [Hosts -> Absences \cup {None}]
      BY <1>1, <1>3, Zenon
    <2>2. absent' \in [Peers -> Absences \cup {None}]
      BY <1>1, <1>4, Zenon
    <2> QED BY <1>1, <2>1, <2>2, Zenon DEF NodeInv, NodeTypeOK
  <1> QED BY <1>1, <1>4, <1>5, Zenon DEF NodeInv, DoomedForCause

\* The miss that is counted was in hand.
LEMMA AccountForKeeps ==
    ASSUME NodeInv, NEW m \in todo, AccountFor(m)
    PROVE  NodeInv'
  <1>1. /\ UNCHANGED <<setup, members, absent, entry, acks, writes>>
        /\ doomed = None
        /\ todo' = todo \ {m}
        /\ presence' = [presence EXCEPT ![m] = MarkMissed(presence[m])]
        /\ doomed' = IF EligibleForDecommission(presence'[m], HasPendingTombstoneAcks(m))
                     THEN [member |-> m, checked |-> Clock] ELSE None
    BY Zenon DEF AccountFor, peerVars, storeVars
  <1>2. /\ m \in Peers /\ m \in Hosts /\ presence[m] \in Absences
        /\ absent[m] \in Absences /\ MissInHand(presence[m], absent[m])
        /\ NeverAhead(presence[m], absent[m])
    BY Zenon DEF NodeInv, NodeTypeOK, MissInHand, NeverAhead, Hosts
  <1>3. /\ MissThreshold \in Nat /\ Floor \in Nat /\ None \notin Absences
        /\ None \notin [member : Peers, checked : Nat]
    BY CounterBounds, Zenon
  <1>4. presence'[m] = MarkMissed(presence[m]) /\ presence'[m] \in Absences
    BY <1>1, <1>2, MissedShape, Zenon DEF NodeInv, NodeTypeOK
  <1>5. \A a \in Hosts \ {m} : presence'[a] = presence[a]
    BY <1>1, Zenon DEF NodeInv, NodeTypeOK
  <1>6. Min({MissThreshold, presence[m].misses + 1})
          = IF MissThreshold <= presence[m].misses + 1 THEN MissThreshold
                                                       ELSE presence[m].misses + 1
    BY <1>2, <1>3, MinPair DEF Absences
  <1>7. NeverAhead(presence'[m], absent'[m])
    <2>1. absent[m].misses >= presence'[m].misses /\ absent[m].age >= presence'[m].age
      BY <1>2, <1>3, <1>4, <1>6, MissedShape DEF MissInHand, NeverAhead, Absences
    <2> QED BY <1>1, <1>2, <1>3, <2>1, Zenon DEF NeverAhead
  <1>8. Clock \in Nat
    BY SetupAssumption DEF NodeInv, NodeTypeOK, Setup, Clock
  <1>9. NodeTypeOK'
    <2>1. presence' \in [Hosts -> Absences \cup {None}]
      BY <1>1, <1>4, Zenon DEF NodeInv, NodeTypeOK
    <2>2. doomed' \in [member : Peers, checked : Nat] \cup {None}
      BY <1>1, <1>2, <1>8, Zenon
    <2> QED BY <1>1, <2>1, <2>2, Zenon DEF NodeInv, NodeTypeOK
  <1>10. DoomedForCause'
    <2> SUFFICES ASSUME doomed' # None PROVE DoomedForCause'
      BY Zenon DEF DoomedForCause
    <2>1. /\ doomed'.member = m /\ doomed'.checked = Clock
          /\ EligibleForDecommission(presence'[m], HasPendingTombstoneAcks(m))
      BY <1>1, Zenon
    <2>2. Clock' = Clock
      BY <1>1, Zenon DEF Clock
    <2>3. \A k \in Keys : Owes(m, k)' = Owes(m, k)
      BY <1>1, Zenon DEF Owes, Tombstone
    <2>4. presence'[m].misses >= MissThreshold
      BY <2>1, Zenon DEF EligibleForDecommission
    <2>5. presence'[m].age >= Floor \/ \A k \in Keys : ~Owes(m, k)
      BY <2>1, Zenon DEF EligibleForDecommission, HasPendingTombstoneAcks
    <2>6. presence'[m] # None /\ m \notin todo' /\ doomed'.checked <= Clock'
      BY <1>1, <1>3, <1>4, <1>8, <2>1, <2>2
    <2> QED BY <2>1, <2>3, <2>4, <2>5, <2>6, Zenon DEF DoomedForCause
  <1>11. \A a \in Peers : NeverAhead(presence'[a], absent'[a])
    BY <1>1, <1>5, <1>7, Zenon DEF NodeInv, Hosts
  <1>12. \A a \in todo' : MissInHand(presence'[a], absent'[a])
    BY <1>1, <1>5, Zenon DEF NodeInv, NodeTypeOK, Hosts
  <1> QED BY <1>9, <1>10, <1>11, <1>12, Zenon DEF NodeInv

\* Whoever is dismissed was never discovered, as far as later rounds can tell.
LEMMA DismissKeeps ==
    ASSUME NodeInv, Dismiss
    PROVE  NodeInv'
  <1> DEFINE dm == doomed.member
  <1>1. /\ UNCHANGED <<setup, todo, absent, entry, writes>>
        /\ doomed # None /\ doomed' = None
        /\ members' = members \ {dm}
        /\ acks' = [k \in Keys |-> [acks[k] EXCEPT ![dm] = 0]]
        /\ presence' = [presence EXCEPT ![dm] = None]
    BY Zenon DEF Dismiss, DecommissionPeer
  <1>2. dm \in Peers /\ dm \in Hosts /\ dm \notin todo
    BY <1>1, Zenon DEF NodeInv, NodeTypeOK, DoomedForCause, Hosts
  <1> HIDE DEF dm
  <1>3. NodeTypeOK'
    BY <1>1, <1>2, Zenon DEF NodeInv, NodeTypeOK
  <1>4. presence'[dm] = None /\ \A a \in Hosts \ {dm} : presence'[a] = presence[a]
    BY <1>1, <1>2, Zenon DEF NodeInv, NodeTypeOK
  <1>5. \A a \in Peers : NeverAhead(presence'[a], absent'[a])
    BY <1>1, <1>4, Zenon DEF NodeInv, NeverAhead, Hosts
  <1>6. \A a \in todo' : MissInHand(presence'[a], absent'[a])
    BY <1>1, <1>2, <1>4, Zenon DEF NodeInv, NodeTypeOK, Hosts
  <1> QED BY <1>1, <1>3, <1>5, <1>6, Zenon DEF NodeInv, DoomedForCause

(***************************************************************************)
(* The wire.                                                               *)
(***************************************************************************)
\* Datagrams that say nothing of the dated channel to the full replica.
Undated(X) == \A x \in X : x.to = Self => x.kind # "dated"

\* What is on the wire is a sequence of those.
WireInv == \E X : wire \in Seq(X) /\ Undated(X)

\* One message to each of some addresses is a sequence of messages to them.
LEMMA ToEachShape ==
    ASSUME NEW kind, NEW from, NEW body, NEW addresses, IsFiniteSet(addresses)
    PROVE  ToEach(kind, from, body, addresses)
             \in Seq({Datagram(kind, from, a, body) : a \in addresses})
  <1> DEFINE n == Cardinality(addresses)
             each == CHOOSE s \in Bijection(1..n, addresses) : TRUE
  <1>1. n \in Nat /\ ExistsBijection(1..n, addresses)
    BY FS_CardinalityType, Zenon
  <1>2. each \in Bijection(1..n, addresses)
    BY <1>1, Zenon DEF ExistsBijection
  <1>3. each \in [1..n -> addresses]
    BY <1>2, Zenon DEF Bijection, Injection
  <1> HIDE DEF each, n
  <1>4. [i \in DOMAIN each |-> Datagram(kind, from, each[i], body)]
          \in [1..n -> {Datagram(kind, from, a, body) : a \in addresses}]
    BY <1>3, Zenon
  <1>5. ToEach(kind, from, body, addresses)
          \in [1..n -> {Datagram(kind, from, a, body) : a \in addresses}]
    BY <1>4, Zenon DEF ToEach, each, n
  <1> QED BY <1>1, <1>5 DEF n

\* What is left when a datagram is taken off.
LEMMA OthersShape ==
    ASSUME NEW X, wire \in Seq(X), NEW i \in DOMAIN wire
    PROVE  Others(i) \in Seq(X)
  <1>1. i \in Int /\ Len(wire) \in Nat /\ i <= Len(wire) /\ i >= 1
    OBVIOUS
  <1>2. SubSeq(wire, 1, i - 1) \in Seq(X)
    BY <1>1
  <1>3. SubSeq(wire, i + 1, Len(wire)) \in Seq(X)
    BY <1>1
  <1> QED BY <1>2, <1>3 DEF Others

\* Sequences of undated datagrams follow one another.
LEMMA UndatedJoin ==
    ASSUME NEW X, NEW Y, NEW s \in Seq(X), NEW t \in Seq(Y), Undated(X), Undated(Y)
    PROVE  \E Z : s \o t \in Seq(Z) /\ Undated(Z)
  <1>1. s \in Seq(X \cup Y) /\ t \in Seq(X \cup Y)
    OBVIOUS
  <1>2. s \o t \in Seq(X \cup Y)
    BY <1>1
  <1>3. Undated(X \cup Y)
    BY Zenon DEF Undated
  <1> QED BY <1>2, <1>3, Zenon

\* The replies to a comparison are ranges and states.
LEMMA RepliesUndated ==
    ASSUME NEW from, NEW to, NEW held, NEW differing, NEW listed
    PROVE  /\ \E Y : Bounced(from, to, held, differing, listed) \in Seq(Y) /\ Undated(Y)
           /\ \E Y : Dumped(to, listed) \in Seq(Y) /\ Undated(Y)
  <1> DEFINE b == Datagram("ranges", from, to, Refined(held, differing, listed))
             d == Datagram("states", Self, to, Enumerated(Projection, listed))
  <1>1. b.kind = "ranges" /\ d.kind = "states"
    BY Zenon DEF Datagram
  <1>2. Bounced(from, to, held, differing, listed) \in {<<>>, <<b>>}
    BY Zenon DEF Bounced
  <1>3. Dumped(to, listed) \in {<<>>, <<d>>}
    BY Zenon DEF Dumped
  <1> HIDE DEF b, d
  <1>4. Undated({b}) /\ Undated({d})
    BY <1>1, Zenon DEF Undated
  <1>5. <<>> \in Seq({b}) /\ <<b>> \in Seq({b}) /\ <<>> \in Seq({d}) /\ <<d>> \in Seq({d})
    OBVIOUS
  <1>6. Bounced(from, to, held, differing, listed) \in Seq({b})
    BY <1>2, <1>5, Zenon
  <1>7. Dumped(to, listed) \in Seq({d})
    BY <1>3, <1>5, Zenon
  <1> QED BY <1>4, <1>6, <1>7, Zenon

\* No step puts a dated datagram for the full replica on the wire.
LEMMA WireStep ==
    ASSUME NodeInv, WireInv, [Next]_vars
    PROVE  WireInv'
  <1>1. PICK X : wire \in Seq(X) /\ Undated(X)
    BY Zenon DEF WireInv
  <1>2. /\ IsFiniteSet(Hosts) /\ Self \notin Hosts /\ Readers \subseteq Hosts
        /\ setup.hosts \subseteq Hosts
    BY NeighboursAssumption, SetupAssumption, Zenon DEF Hosts, NodeInv, NodeTypeOK, Setup
  <1>3. CASE UNCHANGED wire
    BY <1>3, Zenon DEF WireInv
  <1>4. ASSUME NEW addresses, NodeSends(addresses) PROVE WireInv'
    <2> DEFINE to == addresses \cap Readers
               Y == {Datagram("dated", Self, a, {}) : a \in to}
    <2>1. IsFiniteSet(to)
      BY <1>2, FS_Subset, Zenon
    <2>2. ToEach("dated", Self, {}, to) \in Seq(Y)
      BY <2>1, ToEachShape
    <2>3. Undated(Y)
      BY <1>2 DEF Undated, Datagram
    <2>4. wire' = wire \o ToEach("dated", Self, {}, to)
      BY <1>4, Zenon DEF NodeSends
    <2> HIDE DEF Y, to
    <2> QED BY <1>1, <2>2, <2>3, <2>4, UndatedJoin DEF WireInv
  <1>5. ASSUME NEW r, NEW probe, ReaderRound(r, probe) PROVE WireInv'
    <2> DEFINE to == (known[r] \cup {probe}) \cap ((setup.hosts \cup {Self}) \ {r})
               body == {tree[r]}
               Y == {Datagram("ranges", r, a, body) : a \in to}
    <2>1. wire' = wire \o ToEach("ranges", r, body, to)
      BY <1>5, Zenon DEF ReaderRound
    <2>2. IsFiniteSet(Hosts \cup {Self})
      BY <1>2, FS_AddElement, Zenon
    <2>3. IsFiniteSet(to)
      BY <1>2, <2>2, FS_Subset
    <2> HIDE DEF to, body
    <2>4. ToEach("ranges", r, body, to) \in Seq(Y)
      BY <2>3, ToEachShape
    <2>5. Undated(Y)
      BY DEF Undated, Datagram
    <2> HIDE DEF Y
    <2> QED BY <1>1, <2>1, <2>4, <2>5, UndatedJoin DEF WireInv
  <1>6. ASSUME NEW i \in DOMAIN wire, NEW from, NEW to, NEW held, NEW differing, NEW listed,
               wire' = Others(i) \o Bounced(from, to, held, differing, listed)
        PROVE  WireInv'
    <2> DEFINE out == Bounced(from, to, held, differing, listed)
    <2>1. PICK Y : out \in Seq(Y) /\ Undated(Y)
      BY RepliesUndated, Zenon
    <2>2. Others(i) \in Seq(X)
      BY <1>1, OthersShape, Zenon
    <2> HIDE DEF out
    <2>3. \E Z : Others(i) \o out \in Seq(Z) /\ Undated(Z)
      BY <1>1, <2>1, <2>2, UndatedJoin, Zenon
    <2>4. wire' = Others(i) \o out
      BY <1>6, Zenon DEF out
    <2> QED BY <2>3, <2>4, Zenon DEF WireInv
  <1>7. ASSUME NEW i \in DOMAIN wire, wire' = Others(i) PROVE WireInv'
    BY <1>1, <1>7, OthersShape, Zenon DEF WireInv
  <1>8. ASSUME NEW i \in DOMAIN wire, NodeReceives(i) PROVE WireInv'
    <2>1. CASE wire' = Others(i)
      BY <1>7, <2>1, Zenon
    <2>2. CASE HandleValueComparison(i, wire[i])
      <3> DEFINE differing == Differing(Projection, wire[i].body)
                 kept(l) == Others(i) \o Bounced(Self, wire[i].from, Projection, differing, l)
                 dump(l) == Dumped(wire[i].from, l)
      <3>1. PICK l \in Listings(differing) : wire' = kept(l) \o dump(l) \/ wire' = kept(l)
        BY <2>2, Zenon DEF HandleValueComparison
      <3>2. PICK Y : /\ Bounced(Self, wire[i].from, Projection, differing, l) \in Seq(Y)
                     /\ Undated(Y)
        BY RepliesUndated, Zenon
      <3>3. PICK Z : kept(l) \in Seq(Z) /\ Undated(Z)
        BY <1>1, <3>2, OthersShape, UndatedJoin
      <3>4. PICK W : dump(l) \in Seq(W) /\ Undated(W)
        BY RepliesUndated, Zenon
      <3> HIDE DEF kept, dump
      <3>5. \E V : kept(l) \o dump(l) \in Seq(V) /\ Undated(V)
        BY <3>3, <3>4, UndatedJoin, Zenon
      <3> QED BY <3>1, <3>3, <3>5, Zenon DEF WireInv
    <2> QED BY <1>8, <2>1, <2>2, Zenon DEF NodeReceives
  <1>9. ASSUME NEW i \in DOMAIN wire, ReaderReceives(i) PROVE WireInv'
    <2> DEFINE d == wire[i]
               differing == Differing(tree[d.to], d.body)
    <2>1. CASE wire' = Others(i)
      BY <1>7, <2>1, Zenon
    <2>2. CASE \E listed \in Listings(differing) :
                 wire' = Others(i) \o Bounced(d.to, d.from, tree[d.to], differing, listed)
      BY <1>6, <2>2, Zenon
    <2> QED BY <1>9, <2>1, <2>2, Zenon DEF ReaderReceives, HandleMessages
  <1>10. ASSUME NEW i \in DOMAIN wire, Lose(i) PROVE WireInv'
    BY <1>7, <1>10, Zenon DEF Lose
  <1>11. CASE Local \/ NodeStarts
    BY <1>3, <1>11, Zenon DEF Local, NodeStarts
  <1>12. CASE \/ \E a \in setup.hosts : NodeRound(a)
              \/ \E due \in SUBSET setup.hosts : NodeRepairs(due)
    BY <1>4, <1>12, Zenon DEF NodeRound, NodeRepairs
  <1>13. CASE \E r \in Readers \cap setup.hosts :
               \/ \E probe \in setup.reach \cup {None} : ReaderRound(r, probe)
               \/ \E found \in SUBSET (setup.hosts \cup {Self}) : ReaderDiscovers(r, found)
               \/ \E a \in known[r] : ReaderExpires(r, a)
    BY <1>3, <1>5, <1>13, Zenon DEF ReaderDiscovers, ReaderExpires
  <1>14. CASE UNCHANGED vars
    BY <1>3, <1>14, Zenon DEF vars
  <1> QED BY <1>8, <1>9, <1>10, <1>11, <1>12, <1>13, <1>14, Zenon DEF Next

\* The steps of the node itself.
LEMMA LocalStep ==
    ASSUME NodeInv, Local
    PROVE  NodeInv'
  <1>1. setup.hosts \subseteq Hosts /\ setup.keys \subseteq Keys
    BY SetupAssumption, Zenon DEF NodeInv, NodeTypeOK, Setup
  <1>2. CASE ApplicationCall
    <2>1. ASSUME NEW list \in NetLists, SetNets(list) \/ SetNetsReturns(list) PROVE NodeInv'
      BY <2>1, OthersKeep, Zenon DEF SetNets, SetNetsReturns, peerVars, storeVars
    <2>2. ASSUME NEW n \in Nets, AddNet(n) \/ RemoveNet(n) PROVE NodeInv'
      BY <2>2, OthersKeep, Zenon DEF AddNet, RemoveNet, Declare, peerVars, storeVars
    <2>3. ASSUME NEW a \in setup.hosts, SeedPeer(a) PROVE NodeInv'
      BY <2>3, OthersKeep, Zenon DEF SeedPeer, storeVars
    <2> QED BY <1>1, <1>2, <2>1, <2>2, <2>3, WriteKeeps, ForgetKeeps, Zenon DEF ApplicationCall
  <1>3. CASE Listen
    <2>1. ASSUME NEW a \in setup.hosts, BulkEnds(a) \/ Expire(a) PROVE NodeInv'
      BY <2>1, OthersKeep, Zenon DEF BulkEnds, Expire, storeVars
    <2>2. ASSUME NEW a \in Peers \cap setup.hosts, NEW k \in setup.keys, NEW streams \in BOOLEAN,
                 NEW version \in 0..entry[k].at, Hear(a, k, version, streams)
          PROVE  NodeInv'
      <3>1. a \in Peers /\ k \in Keys
        BY <1>1, Zenon
      <3>2. version \in Nat
        BY <3>1 DEF NodeInv, NodeTypeOK
      <3> QED BY <2>2, <3>1, <3>2, HearKeeps, Zenon
    <2> QED BY <1>3, <2>1, <2>2, Zenon DEF Listen
  <1>4. CASE Discovery
    BY <1>1, <1>4, DiscoverKeeps, DiscoverFailsKeeps, AccountForKeeps, DismissKeeps, Zenon DEF Discovery
  <1> QED BY <1>2, <1>3, <1>4, Zenon DEF Local

\* A datagram of a reader makes it no member: it is not of the dated channel.
LEMMA ReceiveKeeps ==
    ASSUME NodeInv, WireInv, NEW i \in DOMAIN wire, NodeReceives(i)
    PROVE  NodeInv'
  <1>1. PICK X : wire \in Seq(X) /\ Undated(X)
    BY Zenon DEF WireInv
  <1>2. wire[i] \in X
    BY <1>1
  <1>3. wire[i].to = Self /\ ~SpokeDated(wire[i])
    BY <1>1, <1>2, Zenon DEF NodeReceives, Undated, SpokeDated
  <1>4. UNCHANGED <<setup, members, sourceVars, entry, acks, writes>>
    BY <1>3, Zenon DEF NodeReceives, storeVars
  <1> QED BY <1>4, OthersKeep, Zenon

\* Both invariants are inductive together.
LEMMA NodeStep == NodeInv /\ WireInv /\ [Next]_vars => NodeInv' /\ WireInv'
  <1> SUFFICES ASSUME NodeInv, WireInv, [Next]_vars PROVE NodeInv'
    BY WireStep, Zenon
  <1>1. ASSUME NEW due, RetryDueRepairs(due) PROVE NodeInv'
    BY <1>1, OthersKeep, Zenon DEF RetryDueRepairs, peerVars, storeVars
  <1>2. ASSUME NEW a, Reconcile(a) PROVE NodeInv'
    BY <1>2, OthersKeep, Zenon DEF Reconcile, peerVars, storeVars
  <1>3. ASSUME UNCHANGED nodeVars PROVE NodeInv'
    BY <1>3, OthersKeep, Zenon DEF nodeVars, peerVars, storeVars
  <1>4. CASE NodeStarts
    BY <1>4, OthersKeep, Zenon DEF NodeStarts, StartRound, peerVars, storeVars
  <1>5. ASSUME NEW r, NEW a, ReaderExpires(r, a) PROVE NodeInv'
    BY <1>5, OthersKeep, Zenon DEF ReaderExpires, peerVars, storeVars
  <1>6. ASSUME NEW i \in DOMAIN wire, ReaderReceives(i) \/ Lose(i) PROVE NodeInv'
    BY <1>3, <1>6, OthersKeep, Zenon DEF ReaderReceives, Lose, peerVars, storeVars
  <1>7. CASE \E r \in Readers \cap setup.hosts :
               \/ \E probe \in setup.reach \cup {None} : ReaderRound(r, probe)
               \/ \E found \in SUBSET (setup.hosts \cup {Self}) : ReaderDiscovers(r, found)
               \/ \E a \in known[r] : ReaderExpires(r, a)
    BY <1>3, <1>5, <1>7, Zenon DEF ReaderRound, ReaderDiscovers
  <1>8. CASE \/ \E a \in setup.hosts : NodeRound(a)
             \/ \E due \in SUBSET setup.hosts : NodeRepairs(due)
    BY <1>1, <1>2, <1>8, Zenon DEF NodeRound, NodeRepairs
  <1>9. CASE UNCHANGED vars
    BY <1>3, <1>9, Zenon DEF vars
  <1> QED BY <1>4, <1>6, <1>7, <1>8, <1>9, LocalStep, ReceiveKeeps, Zenon DEF Next

LEMMA NodeStart == Init => NodeInv /\ WireInv
  <1> SUFFICES ASSUME Init PROVE NodeInv /\ WireInv
    OBVIOUS
  <1> USE DEF Init, NodeInit
  <1>1. WireInv
    <2>1. wire \in Seq({}) /\ Undated({})
      BY DEF Undated
    <2> QED BY <2>1, Zenon DEF WireInv
  <1>2. setup.writes \in Nat
    BY SetupAssumption, Zenon DEF Setup
  <1>3. NodeTypeOK
    BY <1>2 DEF NodeTypeOK
  <1>4. \A a \in Peers : presence[a] = None
    BY Zenon DEF Hosts
  <1> QED BY <1>1, <1>3, <1>4, Zenon DEF NodeInv, NeverAhead, DoomedForCause

LEMMA NodeSafe == Spec => [](NodeInv /\ WireInv)
  BY NodeStart, NodeStep, PTL DEF Spec

(***************************************************************************)
(* The theorems.                                                           *)
(***************************************************************************)
\* discover_periodically drops a member only after MissThreshold answers in a row that
\* left it out, and before the floor only with every receipt in, but for those of
\* deletions made while it was deciding: for any number of peers, keys and rounds,
\* whatever the application calls meanwhile.
THEOREM OnlyAbsentDropped == Spec => []OnlyLongAbsentDropped
  <1>1. NodeInv => OnlyLongAbsentDropped
    <2> SUFFICES ASSUME NodeInv, doomed # None, doomed.member \in members
                 PROVE  OnlyLongAbsentDropped
      BY Zenon DEF OnlyLongAbsentDropped
    <2> DEFINE p == presence[doomed.member]
               h == absent[doomed.member]
    <2>1. /\ MissThreshold \in Nat /\ Floor \in Nat /\ None \notin Absences
          /\ doomed.member \in Peers
      BY CounterBounds, Zenon DEF NodeInv, NodeTypeOK
    <2>2. /\ p # None /\ p.misses >= MissThreshold
          /\ p.age >= Floor \/ \A k \in Keys : Owes(doomed.member, k) => entry[k].at > doomed.checked
      BY <2>1, Zenon DEF NodeInv, DoomedForCause
    <2>3. /\ p \in Absences \cup {None} /\ h \in Absences \cup {None}
          /\ NeverAhead(p, h)
      BY <2>1, Zenon DEF NodeInv, NodeTypeOK, Hosts
    <2> HIDE DEF p, h
    <2>4. h # None /\ h.misses >= p.misses /\ h.age >= p.age /\ p \in Absences /\ h \in Absences
      BY <2>2, <2>3, Zenon DEF NeverAhead
    <2>5. h.misses >= MissThreshold /\ (p.age >= Floor => h.age >= Floor)
      BY <2>1, <2>2, <2>4 DEF Absences
    <2> QED BY <2>2, <2>4, <2>5, Zenon DEF OnlyLongAbsentDropped, h
  <1> QED BY <1>1, NodeSafe, PTL

\* However many readers there are and whatever they send on the value-only channel, a
\* full replica never waits for the receipts of one.
THEOREM ReadersStayOut == Spec => []ReadersNeverGate
  <1>1. NodeInv => ReadersNeverGate
    BY NeighboursAssumption, Zenon DEF NodeInv, NodeTypeOK, ReadersNeverGate
  <1> QED BY <1>1, NodeSafe, PTL
==============================================================================
