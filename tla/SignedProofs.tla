---------------------------- MODULE SignedProofs -----------------------------
(***************************************************************************)
(* The signed runtime and the replay filter in front of it.  Stable        *)
(* tombstones were received, outsiders have no hold and restarts keep      *)
(* blockers, for any nodes, addresses, keys, setups and faults; a datagram *)
(* of a sender's current run is accepted at most once, for any window,     *)
(* freshness, clock step and number of runs.                               *)
(***************************************************************************)
EXTENDS SignedReplica, ReplayFilter, WellFoundedInduction, NaturalsInduction, TLAPS

(***************************************************************************)
(* The inductive invariant.                                                *)
(***************************************************************************)
\* Every node has one cell for each index in S.
Table(t, S) == t = [n \in Nodes |-> [x \in S |-> t[n][x]]]

\* There is one receipt, or None, for each key and authority.
Cells(receipts) == \A k \in Keys : receipts[k] = [p \in Authorities |-> receipts[k][p]]

Shape ==
    /\ setup \in Setup /\ up \subseteq Nodes
    /\ roster \in [Nodes -> SUBSET Nodes] /\ members \in [Nodes -> SUBSET Nodes]
    /\ Table(entries, Keys) /\ Table(acks, Keys) /\ \A n \in Nodes : Cells(acks[n])
    /\ Table(confirmed, Nodes) /\ Table(pending, Nodes) /\ Table(cursors, Nodes)
    /\ disk = [n \in Nodes |-> disk[n]]

\* Tombstones held and receipts recorded in a map are in the history.
Evident(n, map, receipts) ==
    \A k \in Keys :
        /\ Tombstone(map[k]) => <<n, k, map[k]>> \in received
        /\ \A p \in Authorities : receipts[k][p] # None => <<p, k, receipts[k][p]>> \in received

\* A receipt is a causal member's.
Gated(receipts, gate) ==
    \A k \in Keys, p \in Authorities : receipts[k][p] # None => p \in gate

\* So are the receipts on their way, and what is saved.
Evidence ==
    /\ \A n \in Nodes : Evident(n, entries[n], acks[n])
    /\ \A d \in net : d.body.kind \in {"update", "ack"} => d.body.key \in Keys
    /\ \A d \in net : d.body.kind = "ack" => <<d.by, d.body.key, d.body.entry>> \in received

Saved ==
    \A n \in Nodes : disk[n] # None =>
        /\ disk[n].entries = [k \in Keys |-> disk[n].entries[k]]
        /\ disk[n].acks = [k \in Keys |-> disk[n].acks[k]] /\ Cells(disk[n].acks)
        /\ Evident(n, disk[n].entries, disk[n].acks)
        /\ Gated(disk[n].acks, disk[n].members)

\* A node that is down knows nobody; nobody else is known than the roster.
Holds ==
    \A n \in Nodes :
        /\ n \notin up => roster[n] = {}
        /\ members[n] = CausalMembers(n, roster[n])
        /\ \A p \in Nodes \ roster[n] :
             confirmed[n][p] = None /\ pending[n][p] = None /\ cursors[n][p] = None
        /\ Gated(acks[n], members[n])

SignedInv == Shape /\ Evidence /\ Saved /\ Holds

(***************************************************************************)
(* Tables, keys and datagrams.                                             *)
(***************************************************************************)
\* A table with one cell, and with one row, set.
WithCell(t, n, x, v) == [t EXCEPT ![n][x] = v]
WithRow(t, n, r) == [t EXCEPT ![n] = r]

\* One cell of a table is set: a route, a challenge, a cursor, an entry.
LEMMA SetCell ==
    ASSUME NEW t, NEW S, Table(t, S), NEW n \in Nodes, NEW x \in S, NEW v
    PROVE  /\ Table(WithCell(t, n, x, v), S) /\ WithCell(t, n, x, v)[n][x] = v
           /\ \A m \in Nodes, y \in S : m # n \/ y # x => WithCell(t, n, x, v)[m][y] = t[m][y]
  BY Zenon DEF Table, WithCell

\* One row of a table is set: all that a node has of a kind.
LEMMA SetRow ==
    ASSUME NEW t, NEW S, Table(t, S), NEW n \in Nodes, NEW r, r = [x \in S |-> r[x]]
    PROVE  /\ Table(WithRow(t, n, r), S) /\ WithRow(t, n, r)[n] = r
           /\ \A m \in Nodes \ {n} : WithRow(t, n, r)[m] = t[m]
  BY Zenon DEF Table, WithRow

\* The least number principle.
LEMMA LeastNat ==
    ASSUME NEW T \in SUBSET Nat, T # {}
    PROVE  Min(T) \in T
  <1>1. \E x \in T : \A y \in T : ~(<<y, x>> \in OpToRel(<, Nat))
    BY NatLessThanWellFounded, WFMin, Zenon
  <1>2. PICK x \in T : \A y \in T : ~(<<y, x>> \in OpToRel(<, Nat))
    BY <1>1, Zenon
  <1>3. \A y \in T : ~(y < x)
    BY <1>2, Zenon DEF OpToRel
  <1>4. \A y \in T : x <= y
    BY <1>3
  <1> QED BY <1>4, Zenon DEF Min

\* reconcile sends keys that are held.
LEMMA NextKeyHeld ==
    ASSUME NEW n \in Nodes, NEW p \in Nodes, Held(n) # {}
    PROVE  NextKey(n, p) \in Keys
  <1> DEFINE x == cursors[n][p]
             after == {y \in Held(n) : x = None \/ y > x}
  <1>1. Held(n) \subseteq Keys /\ Held(n) \in SUBSET Nat /\ after \in SUBSET Nat /\ after \subseteq Keys
    BY SignedAssumption, Zenon DEF Held
  <1>2. NextKey(n, p) = IF after # {} THEN Min(after) ELSE Min(Held(n))
    BY Zenon DEF NextKey, Following
  <1> HIDE DEF after
  <1>3. (after # {} => Min(after) \in after) /\ Min(Held(n)) \in Held(n)
    BY <1>1, LeastNat, Zenon
  <1> QED BY <1>1, <1>2, <1>3, Zenon

(***************************************************************************)
(* What keeps each part of the invariant.                                  *)
(***************************************************************************)
\* Evidence is kept when whatever is new is in the history.
LEMMA EvidenceKept ==
    ASSUME Evidence, received \subseteq received',
           \A n \in Nodes, k \in Keys :
             entries'[n][k] = entries[n][k] \/ entries'[n][k] = None
               \/ <<n, k, entries'[n][k]>> \in received' \/ ~entries'[n][k].dead,
           \A n \in Nodes, k \in Keys, p \in Authorities :
             acks'[n][k][p] = acks[n][k][p] \/ acks'[n][k][p] = None
               \/ <<p, k, acks'[n][k][p]>> \in received',
           \A d \in net' \ net :
             /\ d.body.kind \in {"update", "ack"} => d.body.key \in Keys
             /\ d.body.kind = "ack" => <<d.by, d.body.key, d.body.entry>> \in received'
    PROVE  Evidence'
  <1>1. ASSUME NEW n \in Nodes, NEW k \in Keys, Tombstone(entries'[n][k])
        PROVE  <<n, k, entries'[n][k]>> \in received'
    <2>1. Tombstone(entries[n][k]) => <<n, k, entries[n][k]>> \in received
      BY Zenon DEF Evidence, Evident
    <2> QED BY <1>1, <2>1, Zenon DEF Tombstone
  <1>2. ASSUME NEW n \in Nodes, NEW k \in Keys, NEW p \in Authorities, acks'[n][k][p] # None
        PROVE  <<p, k, acks'[n][k][p]>> \in received'
    <2>1. acks[n][k][p] # None => <<p, k, acks[n][k][p]>> \in received
      BY Zenon DEF Evidence, Evident
    <2> QED BY <1>2, <2>1, Zenon
  <1>3. \A n \in Nodes : Evident(n, entries[n], acks[n])'
    BY <1>1, <1>2, Zenon DEF Evident
  <1>4. ASSUME NEW d \in net', d.body.kind \in {"update", "ack"} PROVE d.body.key \in Keys
    BY <1>4, Zenon DEF Evidence
  <1>5. ASSUME NEW d \in net', d.body.kind = "ack"
        PROVE  <<d.by, d.body.key, d.body.entry>> \in received'
    BY <1>5, Zenon DEF Evidence
  <1> QED BY <1>3, <1>4, <1>5, Zenon DEF Evidence

\* Snapshots stay true while the history grows.
LEMMA SavedKept ==
    ASSUME Saved, UNCHANGED disk, received \subseteq received' PROVE Saved'
  BY Zenon DEF Saved, Evident

\* A datagram that is no receipt, and an update only of a key.
Harmless(d) ==
    d.body.kind # "ack" /\ (d.body.kind = "update" => d.body.key \in Keys)

\* A step that leaves rosters, maps and receipts: it may send, and change routes to the
\* roster.
LEMMA QuietStep ==
    ASSUME SignedInv, UNCHANGED <<setup, up, roster, members, entries, acks, received, disk>>,
           Table(confirmed', Nodes), Table(pending', Nodes), Table(cursors', Nodes),
           \A n \in Nodes, p \in Nodes :
             confirmed[n][p] = None /\ p \notin roster[n] => confirmed'[n][p] = None,
           \A n \in Nodes, p \in Nodes :
             pending[n][p] = None /\ p \notin roster[n] => pending'[n][p] = None,
           \A n \in Nodes, p \in Nodes :
             cursors[n][p] = None /\ p \notin roster[n] => cursors'[n][p] = None,
           \A d \in net' \ net : Harmless(d)
    PROVE  SignedInv'
  <1>1. Shape'
    <2>1. Shape
      BY Zenon DEF SignedInv
    <2> QED BY <2>1, Zenon DEF Shape, Table
  <1>2. \A d \in net' \ net :
          /\ d.body.kind \in {"update", "ack"} => d.body.key \in Keys
          /\ d.body.kind = "ack" => <<d.by, d.body.key, d.body.entry>> \in received'
    BY Zenon DEF Harmless
  <1>3. Evidence'
    BY <1>2, EvidenceKept, Zenon DEF SignedInv
  <1>4. Saved'
    BY SavedKept, Zenon DEF SignedInv
  <1>5. Holds'
    BY ZenonT(60) DEF SignedInv, Holds
  <1> QED BY <1>1, <1>3, <1>4, <1>5, Zenon DEF SignedInv

\* A step that leaves routes as well.
LEMMA SendStep ==
    ASSUME SignedInv, UNCHANGED <<setup, up, roster, members, entries, acks, received, disk>>,
           UNCHANGED <<confirmed, pending, cursors>>,
           \A d \in net' \ net : Harmless(d)
    PROVE  SignedInv'
  <1>1. Table(confirmed, Nodes) /\ Table(pending, Nodes) /\ Table(cursors, Nodes)
    BY Zenon DEF SignedInv, Shape
  <1>2. Table(confirmed', Nodes) /\ Table(pending', Nodes) /\ Table(cursors', Nodes)
    BY <1>1, Zenon DEF Table
  <1>3. \A n \in Nodes, p \in Nodes : /\ confirmed'[n][p] = confirmed[n][p]
                                     /\ pending'[n][p] = pending[n][p]
                                     /\ cursors'[n][p] = cursors[n][p]
    BY Zenon
  <1>4. /\ \A n \in Nodes, p \in Nodes :
             confirmed[n][p] = None /\ p \notin roster[n] => confirmed'[n][p] = None
        /\ \A n \in Nodes, p \in Nodes :
             pending[n][p] = None /\ p \notin roster[n] => pending'[n][p] = None
        /\ \A n \in Nodes, p \in Nodes :
             cursors[n][p] = None /\ p \notin roster[n] => cursors'[n][p] = None
    BY <1>3, Zenon
  <1> QED BY <1>2, <1>4, QuietStep, Zenon

\* A step that leaves rosters and routes: what it records and sends is in the history,
\* and a new receipt is a causal member's.
LEMMA RecordStep ==
    ASSUME SignedInv, UNCHANGED <<setup, up, roster, members, disk, confirmed, pending, cursors>>,
           received \subseteq received', Table(entries', Keys), Table(acks', Keys),
           \A n \in Nodes : Cells(acks'[n]),
           \A n \in Nodes, k \in Keys :
             entries'[n][k] = entries[n][k] \/ entries'[n][k] = None
               \/ <<n, k, entries'[n][k]>> \in received' \/ ~entries'[n][k].dead,
           \A n \in Nodes, k \in Keys, p \in Authorities :
             \/ acks'[n][k][p] = acks[n][k][p] \/ acks'[n][k][p] = None
             \/ p \in members[n] /\ <<p, k, acks'[n][k][p]>> \in received',
           \A d \in net' \ net :
             /\ d.body.kind \in {"update", "ack"} => d.body.key \in Keys
             /\ d.body.kind = "ack" => <<d.by, d.body.key, d.body.entry>> \in received'
    PROVE  SignedInv'
  <1>1. Shape'
    <2>1. Shape
      BY Zenon DEF SignedInv
    <2> QED BY <2>1, Zenon DEF Shape, Table
  <1>2. Evidence'
    <2>1. \A n \in Nodes, k \in Keys, p \in Authorities :
            acks'[n][k][p] = acks[n][k][p] \/ acks'[n][k][p] = None
              \/ <<p, k, acks'[n][k][p]>> \in received'
      BY Zenon
    <2> QED BY <2>1, EvidenceKept, Zenon DEF SignedInv
  <1>3. Saved'
    BY SavedKept, Zenon DEF SignedInv
  <1>4. Holds'
    <2>1. ASSUME NEW n \in Nodes, NEW k \in Keys, NEW p \in Authorities, acks'[n][k][p] # None
          PROVE  p \in members[n]
      <3>1. acks[n][k][p] # None => p \in members[n]
        BY Zenon DEF SignedInv, Holds, Gated
      <3> QED BY <2>1, <3>1, Zenon
    <2>2. \A n \in Nodes : Gated(acks'[n], members[n])
      BY <2>1, Zenon DEF Gated
    <2> QED BY <2>2, Zenon DEF SignedInv, Holds
  <1> QED BY <1>1, <1>2, <1>3, <1>4, Zenon DEF SignedInv

(***************************************************************************)
(* One lemma for each action.                                              *)
(***************************************************************************)
\* refresh learns addresses.
LEMMA RefreshKeeps ==
    ASSUME SignedInv, NEW n \in up, NEW found, Refresh(n, found) PROVE SignedInv'
  <1>1. /\ UNCHANGED <<setup, up, roster, members, entries, acks, received, disk>>
        /\ UNCHANGED <<confirmed, pending, cursors>>
        /\ net' = net
    BY Zenon DEF Refresh, rosterVars, causalVars, routeVars
  <1> QED BY <1>1, SendStep, Zenon

\* probe_discovered sends a hello.
LEMMA ProbeKeeps ==
    ASSUME SignedInv, NEW n \in up, Probe(n) PROVE SignedInv'
  <1> DEFINE hello == Datagram(n, hints[n].next, Hello)
  <1>1. /\ UNCHANGED <<setup, up, roster, members, entries, acks, received, disk>>
        /\ UNCHANGED <<confirmed, pending, cursors>>
        /\ net' = net \cup {hello}
    BY Zenon DEF Probe, rosterVars, causalVars, routeVars, worldVars
  <1>2. hello.body.kind = "hello"
    BY Zenon DEF Datagram, Hello
  <1> HIDE DEF hello
  <1>3. \A d \in net' \ net : Harmless(d)
    BY <1>1, <1>2, Zenon DEF Harmless
  <1> QED BY <1>1, <1>3, SendStep, Zenon

\* reconcile serves only confirmed peers.
LEMMA ServedConfirmed ==
    ASSUME NEW n, NEW asked PROVE Served(n, asked) \subseteq ConfirmedPeers(n)
  BY Zenon DEF Served

\* reconcile sends keys that are held, to peers on the roster.
LEMMA ReconcileKeeps ==
    ASSUME SignedInv, NEW n \in up, NEW asked, Reconcile(n, asked) PROVE SignedInv'
  <1> DEFINE served == Served(n, asked)
             row == [p \in Nodes |-> IF p \in served THEN NextKey(n, p) ELSE cursors[n][p]]
  <1>1. /\ UNCHANGED <<setup, up, roster, members, entries, acks, received, disk>>
        /\ UNCHANGED <<confirmed, pending>>
        /\ Held(n) # {}
        /\ net' = net \cup {NextUpdate(n, p) : p \in served}
        /\ cursors' = [cursors EXCEPT ![n] = row]
    BY Zenon DEF Reconcile, rosterVars, causalVars, routeVars
  <1>2. n \in Nodes /\ Table(confirmed, Nodes) /\ Table(pending, Nodes) /\ Table(cursors, Nodes)
    BY Zenon DEF SignedInv, Shape
  <1>3. served \subseteq roster[n] /\ served \subseteq Nodes
    <2>1. served \subseteq ConfirmedPeers(n)
      BY ServedConfirmed, Zenon
    <2>2. \A p \in Nodes \ roster[n] : confirmed[n][p] = None
      BY <1>2, Zenon DEF SignedInv, Holds
    <2> HIDE DEF served
    <2> QED BY <2>1, <2>2, Zenon DEF ConfirmedPeers
  <1> HIDE DEF served
  <1>4. \A p \in served : NextKey(n, p) \in Keys
    BY <1>1, <1>2, <1>3, NextKeyHeld, Zenon
  <1>5. row = [p \in Nodes |-> row[p]]
    BY Zenon
  <1>a. \A p \in Nodes \ roster[n] : row[p] = cursors[n][p]
    BY <1>3, Zenon
  <1> HIDE DEF row
  <1>6. Table(cursors', Nodes) /\ cursors'[n] = row /\ \A m \in Nodes \ {n} : cursors'[m] = cursors[m]
    <2>1. cursors' = WithRow(cursors, n, row)
      BY <1>1, Zenon DEF WithRow
    <2> QED BY <1>2, <1>5, <2>1, SetRow
  <1>7. Table(confirmed', Nodes) /\ Table(pending', Nodes)
    BY <1>1, <1>2, Zenon DEF Table
  <1>8. \A m \in Nodes, p \in Nodes :
          cursors[m][p] = None /\ p \notin roster[m] => cursors'[m][p] = None
    BY <1>a, <1>6, Zenon
  <1>9. /\ \A m \in Nodes, p \in Nodes :
             confirmed[m][p] = None /\ p \notin roster[m] => confirmed'[m][p] = None
        /\ \A m \in Nodes, p \in Nodes :
             pending[m][p] = None /\ p \notin roster[m] => pending'[m][p] = None
    BY <1>1, Zenon
  <1>10. ASSUME NEW d \in net' \ net PROVE Harmless(d)
    <2>1. \E p \in served : d = NextUpdate(n, p)
      BY <1>1, <1>10, Zenon
    <2>2. PICK p \in served : d = NextUpdate(n, p)
      BY <2>1, Zenon
    <2>3. d.body.kind = "update" /\ d.body.key = NextKey(n, p)
      BY <2>2, Zenon DEF NextUpdate, Datagram, Update
    <2>4. d.body.key \in Keys
      BY <1>4, <2>3, Zenon
    <2> QED BY <2>3, <2>4, Zenon DEF Harmless
  <1> QED BY <1>1, <1>6, <1>7, <1>8, <1>9, <1>10, QuietStep, Zenon

\* start_probe changes the challenges of a node and sends a challenge.
LEMMA ReceiveUnconfirmedKeeps ==
    ASSUME SignedInv, NEW n \in up, NEW d \in net, Admitted(n, d), ReceiveUnconfirmed(n, d)
    PROVE  SignedInv'
  <1> DEFINE P == Purged(n)
             probe == [addr |-> d.from, nonce |-> FreshNonce, old |-> FALSE]
             challenge == Datagram(n, d.from, Challenge(d.by, FreshNonce))
             Q == [P EXCEPT ![d.by] = probe]
  <1>1. UNCHANGED <<setup, up, roster, members, entries, acks, received, disk, confirmed, cursors>>
    BY Zenon DEF ReceiveUnconfirmed, rosterVars, causalVars, sendVars, worldVars
  <1>2. /\ pending' = [pending EXCEPT ![n] = P] \/ pending' = [pending EXCEPT ![n] = Q]
        /\ net' \subseteq net \cup {challenge}
    BY Zenon DEF ReceiveUnconfirmed, StartProbe
  <1>3. n \in Nodes /\ Table(confirmed, Nodes) /\ Table(pending, Nodes) /\ Table(cursors, Nodes)
    BY Zenon DEF SignedInv, Shape
  <1>4. d.by \in roster[n]
    BY Zenon DEF Admitted
  <1>5. /\ P = [p \in Nodes |-> P[p]] /\ Q = [p \in Nodes |-> Q[p]]
        /\ \A p \in Nodes : pending[n][p] = None => P[p] = None
        /\ \A p \in Nodes \ roster[n] : Q[p] = P[p]
    BY <1>4, Zenon DEF Purged
  <1>6. challenge.body.kind = "challenge"
    BY Zenon DEF Datagram, Challenge
  <1> HIDE DEF P, Q, challenge
  <1>a. pending' = WithRow(pending, n, P) \/ pending' = WithRow(pending, n, Q)
    BY <1>2, Zenon DEF WithRow
  <1>7. PICK row : /\ pending' = WithRow(pending, n, row) /\ row = [p \in Nodes |-> row[p]]
                   /\ \A p \in Nodes \ roster[n] : pending[n][p] = None => row[p] = None
    BY <1>a, <1>5, ZenonT(60)
  <1>8. /\ Table(pending', Nodes) /\ pending'[n] = row
        /\ \A m \in Nodes \ {n} : pending'[m] = pending[m]
    BY <1>3, <1>7, SetRow, SMTT(30)
  <1>9. \A m \in Nodes, p \in Nodes :
          pending[m][p] = None /\ p \notin roster[m] => pending'[m][p] = None
    BY <1>7, <1>8, Zenon
  <1>10. Table(confirmed', Nodes) /\ Table(cursors', Nodes)
    BY <1>1, <1>3, Zenon DEF Table
  <1>11. /\ \A m \in Nodes, p \in Nodes :
              confirmed[m][p] = None /\ p \notin roster[m] => confirmed'[m][p] = None
         /\ \A m \in Nodes, p \in Nodes :
              cursors[m][p] = None /\ p \notin roster[m] => cursors'[m][p] = None
    BY <1>1, Zenon
  <1>12. \A x \in net' \ net : Harmless(x)
    BY <1>2, <1>6, Zenon DEF Harmless
  <1> QED BY <1>1, <1>8, <1>9, <1>10, <1>11, <1>12, QuietStep, Zenon

\* A challenge is answered.
LEMMA ReceiveChallengeKeeps ==
    ASSUME SignedInv, NEW n \in up, NEW d \in net, ReceiveChallenge(n, d) PROVE SignedInv'
  <1> DEFINE answer == Datagram(n, d.from, Response(d.by, d.body.nonce))
  <1>1. /\ UNCHANGED <<setup, up, roster, members, entries, acks, received, disk>>
        /\ UNCHANGED <<confirmed, pending, cursors>>
    BY Zenon DEF ReceiveChallenge, rosterVars, causalVars, routeVars, sendVars, worldVars
  <1>2. net' \subseteq net \cup {answer}
    BY Zenon DEF ReceiveChallenge
  <1>3. answer.body.kind = "response"
    BY Zenon DEF Datagram, Response
  <1> HIDE DEF answer
  <1>4. \A x \in net' \ net : Harmless(x)
    BY <1>2, <1>3, Zenon DEF Harmless
  <1> QED BY <1>1, <1>4, SendStep, Zenon

\* A response from the roster confirms a route.
LEMMA ReceiveResponseKeeps ==
    ASSUME SignedInv, NEW n \in up, NEW d \in net, Admitted(n, d), ReceiveResponse(n, d)
    PROVE  SignedInv'
  <1>1. UNCHANGED <<setup, up, roster, members, entries, acks, received, disk, cursors>>
    BY Zenon DEF ReceiveResponse, rosterVars, causalVars, sendVars, worldVars
  <1>2. \A x \in net' \ net : Harmless(x)
    BY Zenon DEF ReceiveResponse
  <1>3. \/ UNCHANGED <<confirmed, pending>>
        \/ /\ pending' = [pending EXCEPT ![n][d.by] = None]
           /\ confirmed' = [confirmed EXCEPT ![n][d.by] = d.from]
    BY Zenon DEF ReceiveResponse, routeVars
  <1>4. CASE UNCHANGED <<confirmed, pending>>
    BY <1>1, <1>2, <1>4, SendStep, Zenon
  <1>5. CASE /\ pending' = [pending EXCEPT ![n][d.by] = None]
             /\ confirmed' = [confirmed EXCEPT ![n][d.by] = d.from]
    <2>1. n \in Nodes /\ Table(confirmed, Nodes) /\ Table(pending, Nodes) /\ Table(cursors, Nodes)
      BY Zenon DEF SignedInv, Shape
    <2>2. d.by \in roster[n] /\ d.by \in Nodes
      BY <2>1, Zenon DEF Admitted, SignedInv, Shape
    <2>a. /\ pending' = WithCell(pending, n, d.by, None)
          /\ confirmed' = WithCell(confirmed, n, d.by, d.from)
      BY <1>5, Zenon DEF WithCell
    <2>3. /\ Table(pending', Nodes) /\ pending'[n][d.by] = None
          /\ \A m \in Nodes, p \in Nodes : m # n \/ p # d.by => pending'[m][p] = pending[m][p]
      BY <2>a, <2>1, <2>2, SetCell
    <2>4. /\ Table(confirmed', Nodes)
          /\ \A m \in Nodes, p \in Nodes : m # n \/ p # d.by => confirmed'[m][p] = confirmed[m][p]
      BY <2>a, <2>1, <2>2, SetCell
    <2>5. /\ \A m \in Nodes, p \in Nodes :
               confirmed[m][p] = None /\ p \notin roster[m] => confirmed'[m][p] = None
          /\ \A m \in Nodes, p \in Nodes :
               pending[m][p] = None /\ p \notin roster[m] => pending'[m][p] = None
          /\ \A m \in Nodes, p \in Nodes :
               cursors[m][p] = None /\ p \notin roster[m] => cursors'[m][p] = None
      BY <1>1, <2>2, <2>3, <2>4, Zenon
    <2>6. Table(cursors', Nodes)
      BY <1>1, <2>1, Zenon DEF Table
    <2> QED BY <1>1, <1>2, <2>3, <2>4, <2>5, <2>6, QuietStep, Zenon
  <1> QED BY <1>3, <1>4, <1>5, Zenon

\* A datagram that is dropped changes nothing.
LEMMA DropKeeps ==
    ASSUME SignedInv, UNCHANGED <<rosterVars, causalVars, routeVars, sendVars, setup, disk>>,
           net' \subseteq net
    PROVE  SignedInv'
  <1>1. /\ UNCHANGED <<setup, up, roster, members, entries, acks, received, disk>>
        /\ UNCHANGED <<confirmed, pending, cursors>>
    BY Zenon DEF rosterVars, causalVars, routeVars, sendVars
  <1> QED BY <1>1, SendStep, Zenon

\* Challenges grow old.
LEMMA TickKeeps ==
    ASSUME SignedInv, Tick PROVE SignedInv'
  <1>1. UNCHANGED <<setup, up, roster, members, entries, acks, received, disk, confirmed, cursors, net>>
    BY Zenon DEF Tick, rosterVars, causalVars, sendVars
  <1>2. Table(confirmed, Nodes) /\ Table(pending, Nodes) /\ Table(cursors, Nodes)
    BY Zenon DEF SignedInv, Shape
  <1>3. Table(confirmed', Nodes) /\ Table(cursors', Nodes)
    BY <1>1, <1>2, Zenon DEF Table
  <1>4. pending' = [n \in Nodes |-> [p \in Nodes |->
          IF pending[n][p] = None THEN None ELSE [pending[n][p] EXCEPT !.old = TRUE]]]
    BY Zenon DEF Tick
  <1>5. Table(pending', Nodes) /\ \A m \in Nodes, p \in Nodes :
          pending[m][p] = None => pending'[m][p] = None
    BY <1>4, Zenon DEF Table
  <1>6. /\ \A m \in Nodes, p \in Nodes :
             confirmed[m][p] = None /\ p \notin roster[m] => confirmed'[m][p] = None
        /\ \A m \in Nodes, p \in Nodes :
             cursors[m][p] = None /\ p \notin roster[m] => cursors'[m][p] = None
    BY <1>1, Zenon
  <1>7. \A x \in net' \ net : Harmless(x)
    BY <1>1, Zenon
  <1> QED BY <1>1, <1>3, <1>5, <1>6, <1>7, QuietStep, Zenon

\* An entry that is recorded has no receipts yet; a tombstone goes to the history.
LEMMA Recorded ==
    ASSUME SignedInv, NEW n \in Nodes, NEW k \in Keys, NEW e, RecordEntry(n, k, e)
    PROVE  /\ received \subseteq received' /\ (e.dead => <<n, k, e>> \in received')
           /\ Table(entries', Keys) /\ Table(acks', Keys) /\ \A m \in Nodes : Cells(acks'[m])
           /\ \A m \in Nodes, x \in Keys :
                entries'[m][x] = entries[m][x] \/ entries'[m][x] = None
                  \/ <<m, x, entries'[m][x]>> \in received' \/ ~entries'[m][x].dead
           /\ \A m \in Nodes, x \in Keys, p \in Authorities :
                acks'[m][x][p] = acks[m][x][p] \/ acks'[m][x][p] = None
  <1>1. Table(entries, Keys) /\ Table(acks, Keys) /\ \A m \in Nodes : Cells(acks[m])
    BY Zenon DEF SignedInv, Shape
  <1>2. entries' = WithCell(entries, n, k, e) /\ acks' = WithCell(acks, n, k, NoAcks)
    BY Zenon DEF RecordEntry, WithCell
  <1>3. received \subseteq received' /\ (e.dead => <<n, k, e>> \in received')
    BY Zenon DEF RecordEntry
  <1>4. /\ Table(entries', Keys) /\ entries'[n][k] = e
        /\ \A m \in Nodes, x \in Keys : m # n \/ x # k => entries'[m][x] = entries[m][x]
    BY <1>1, <1>2, SetCell
  <1>5. /\ Table(acks', Keys) /\ acks'[n][k] = NoAcks
        /\ \A m \in Nodes, x \in Keys : m # n \/ x # k => acks'[m][x] = acks[m][x]
    BY <1>1, <1>2, SetCell
  <1>6. NoAcks = [p \in Authorities |-> NoAcks[p]] /\ \A p \in Authorities : NoAcks[p] = None
    BY Zenon DEF NoAcks
  <1>7. ASSUME NEW m \in Nodes, NEW x \in Keys
        PROVE  acks'[m][x] = [p \in Authorities |-> acks'[m][x][p]]
    <2>1. CASE m = n /\ x = k
      BY <1>5, <1>6, <2>1, Zenon
    <2>2. CASE m # n \/ x # k
      <3>1. acks'[m][x] = acks[m][x]
        BY <1>5, <2>2, Zenon
      <3>2. acks[m][x] = [p \in Authorities |-> acks[m][x][p]]
        BY <1>1, Zenon DEF Cells
      <3> QED BY <3>1, <3>2, Zenon
    <2> QED BY <2>1, <2>2, Zenon
  <1>8. \A m \in Nodes : Cells(acks'[m])
    BY <1>7, Zenon DEF Cells
  <1>9. ASSUME NEW m \in Nodes, NEW x \in Keys
        PROVE  entries'[m][x] = entries[m][x] \/ entries'[m][x] = None
                 \/ <<m, x, entries'[m][x]>> \in received' \/ ~entries'[m][x].dead
    BY <1>3, <1>4, Zenon
  <1>10. ASSUME NEW m \in Nodes, NEW x \in Keys, NEW p \in Authorities
         PROVE  acks'[m][x][p] = acks[m][x][p] \/ acks'[m][x][p] = None
    BY <1>5, <1>6, Zenon
  <1> QED BY <1>3, <1>4, <1>5, <1>8, <1>9, <1>10, Zenon

\* insert and remove.
LEMMA WriteKeeps ==
    ASSUME SignedInv, NEW n \in setup.nodes, NEW k \in setup.keys, NEW dead \in BOOLEAN,
           Write(n, k, dead)
    PROVE  SignedInv'
  <1> DEFINE e == [at |-> clock[n] + 1, by |-> n, dead |-> dead]
  <1>1. UNCHANGED <<setup, up, roster, members, disk, confirmed, pending, cursors, net>>
    BY Zenon DEF Write, rosterVars, routeVars, sendVars
  <1>2. RecordEntry(n, k, e)
    BY Zenon DEF Write
  <1>3. n \in Nodes /\ k \in Keys
    BY Zenon DEF SignedInv, Shape, Setup
  <1> HIDE DEF e
  <1>4. /\ received \subseteq received'
        /\ Table(entries', Keys) /\ Table(acks', Keys) /\ \A m \in Nodes : Cells(acks'[m])
        /\ \A m \in Nodes, x \in Keys :
             entries'[m][x] = entries[m][x] \/ entries'[m][x] = None
               \/ <<m, x, entries'[m][x]>> \in received' \/ ~entries'[m][x].dead
        /\ \A m \in Nodes, x \in Keys, p \in Authorities :
             acks'[m][x][p] = acks[m][x][p] \/ acks'[m][x][p] = None
    BY <1>2, <1>3, Recorded, Zenon
  <1> QED BY <1>1, <1>4, RecordStep, Zenon

\* apply_remote_entry and the receipt that answers it: what is acknowledged is held.
LEMMA ReceiveUpdateKeeps ==
    ASSUME SignedInv, NEW n \in up, NEW d \in net, ReceiveUpdate(n, d) PROVE SignedInv'
  <1> DEFINE k == d.body.key
             merged == Merge(entries[n][k], d.body.entry)
             receipt == Datagram(n, confirmed[n][d.by], Ack(k, merged))
  <1>1. UNCHANGED <<setup, up, roster, members, disk, confirmed, pending, cursors>>
    BY Zenon DEF ReceiveUpdate, rosterVars, routeVars, sendVars, worldVars
  <1>2. n \in Nodes /\ k \in Keys
    BY Zenon DEF SignedInv, Shape, Evidence, ReceiveUpdate
  <1>3. CASE d.by \notin Authorities
    <2>1. UNCHANGED <<rosterVars, causalVars, routeVars, sendVars, setup, disk>>
      BY <1>3, Zenon DEF ReceiveUpdate, worldVars
    <2>2. net' \subseteq net
      BY <1>3, Zenon DEF ReceiveUpdate
    <2> QED BY <2>1, <2>2, DropKeeps, Zenon
  <1>4. CASE d.by \in Authorities
    <2>1. /\ merged # entries[n][k] => RecordEntry(n, k, merged)
          /\ merged = entries[n][k] => UNCHANGED <<entries, acks, received>>
      BY <1>4, Zenon DEF ReceiveUpdate, ApplyRemoteEntry
    <2>2. net' \ net = {} \/ (Tombstone(merged) /\ net' \ net \subseteq {receipt})
      BY <1>4, Zenon DEF ReceiveUpdate
    <2>3. receipt.by = n /\ receipt.body.key = k /\ receipt.body.entry = merged
      BY Zenon DEF Datagram, Ack
    <2> HIDE DEF receipt, merged, k
    <2>4. /\ received \subseteq received'
          /\ Table(entries', Keys) /\ Table(acks', Keys) /\ \A m \in Nodes : Cells(acks'[m])
          /\ \A m \in Nodes, x \in Keys :
               entries'[m][x] = entries[m][x] \/ entries'[m][x] = None
                 \/ <<m, x, entries'[m][x]>> \in received' \/ ~entries'[m][x].dead
          /\ \A m \in Nodes, x \in Keys, p \in Authorities :
               acks'[m][x][p] = acks[m][x][p] \/ acks'[m][x][p] = None
      <3>1. CASE merged # entries[n][k]
        BY <1>2, <2>1, <3>1, Recorded, Zenon
      <3>2. CASE merged = entries[n][k]
        <4>1. Table(entries, Keys) /\ Table(acks, Keys) /\ \A m \in Nodes : Cells(acks[m])
          BY Zenon DEF SignedInv, Shape
        <4>2. UNCHANGED <<entries, acks, received>>
          BY <2>1, <3>2, Zenon
        <4>3. Table(entries', Keys) /\ Table(acks', Keys) /\ \A m \in Nodes : Cells(acks'[m])
          BY <4>1, <4>2, Zenon
        <4> QED BY <4>2, <4>3, Zenon
      <3> QED BY <3>1, <3>2, Zenon
    <2>5. Tombstone(merged) => <<n, k, merged>> \in received'
      <3>1. CASE merged # entries[n][k]
        <4>1. merged.dead => <<n, k, merged>> \in received'
          BY <1>2, <2>1, <3>1, Recorded, Zenon
        <4> QED BY <4>1, Zenon DEF Tombstone
      <3>2. CASE merged = entries[n][k]
        <4>1. Tombstone(entries[n][k]) => <<n, k, entries[n][k]>> \in received
          BY <1>2, Zenon DEF SignedInv, Evidence, Evident
        <4> QED BY <2>1, <3>2, <4>1, Zenon
      <3> QED BY <3>1, <3>2, Zenon
    <2>6. \A x \in net' \ net :
            /\ x.body.kind \in {"update", "ack"} => x.body.key \in Keys
            /\ x.body.kind = "ack" => <<x.by, x.body.key, x.body.entry>> \in received'
      BY <1>2, <2>2, <2>3, <2>5, Zenon
    <2> QED BY <1>1, <2>4, <2>6, RecordStep, Zenon
  <1> QED BY <1>3, <1>4, Zenon

\* Causal members are authorities.
LEMMA MembersAreAuthorities ==
    SignedInv => \A n \in Nodes : members[n] \subseteq Authorities
  BY Zenon DEF SignedInv, Holds, CausalMembers

\* A receipt is recorded for the version that is held, from a causal member.
LEMMA ReceiveAckKeeps ==
    ASSUME SignedInv, NEW n \in up, NEW d \in net, ReceiveAck(n, d) PROVE SignedInv'
  <1> DEFINE k == d.body.key
             p == d.by
             e == d.body.entry
  <1>1. UNCHANGED <<setup, up, roster, members, disk, confirmed, pending, cursors, entries, received>>
    BY Zenon DEF ReceiveAck, rosterVars, routeVars, sendVars, worldVars
  <1>2. n \in Nodes /\ k \in Keys /\ <<p, k, e>> \in received
    BY Zenon DEF SignedInv, Shape, Evidence, ReceiveAck
  <1>3. net' \ net = {}
    BY Zenon DEF ReceiveAck
  <1>4. acks' = acks \/ (p \in members[n] /\ acks' = [acks EXCEPT ![n][k][p] = e])
    BY Zenon DEF ReceiveAck, AcceptAck
  <1>5. Table(entries, Keys) /\ Table(acks, Keys) /\ \A m \in Nodes : Cells(acks[m])
    BY Zenon DEF SignedInv, Shape
  <1> HIDE DEF k, p, e
  <1>6. Table(entries', Keys)
    BY <1>1, <1>5, Zenon
  <1>7. /\ Table(acks', Keys) /\ \A m \in Nodes : Cells(acks'[m])
        /\ \A m \in Nodes, x \in Keys, q \in Authorities :
             \/ acks'[m][x][q] = acks[m][x][q]
             \/ q \in members[m] /\ <<q, x, acks'[m][x][q]>> \in received
    <2>1. CASE acks' = acks
      BY <1>5, <2>1, Zenon
    <2>2. CASE p \in members[n] /\ acks' = [acks EXCEPT ![n][k][p] = e]
      <3> DEFINE cell == [acks[n][k] EXCEPT ![p] = e]
      <3>1. p \in Authorities
        BY <1>2, <2>2, MembersAreAuthorities, Zenon
      <3>2. acks' = WithCell(acks, n, k, cell)
        BY <2>2, Zenon DEF WithCell
      <3>3. acks[n][k] = [q \in Authorities |-> acks[n][k][q]]
        BY <1>2, <1>5, Zenon DEF Cells
      <3>4. cell = [q \in Authorities |-> cell[q]] /\ cell[p] = e
            /\ \A q \in Authorities : q # p => cell[q] = acks[n][k][q]
        BY <3>1, <3>3, Zenon
      <3> HIDE DEF cell
      <3>5. /\ Table(acks', Keys) /\ acks'[n][k] = cell
            /\ \A m \in Nodes, x \in Keys : m # n \/ x # k => acks'[m][x] = acks[m][x]
        BY <1>2, <1>5, <3>2, SetCell
      <3>6. ASSUME NEW m \in Nodes, NEW x \in Keys
            PROVE  acks'[m][x] = [q \in Authorities |-> acks'[m][x][q]]
        <4>1. acks[m][x] = [q \in Authorities |-> acks[m][x][q]]
          BY <1>5, Zenon DEF Cells
        <4>2. CASE m = n /\ x = k
          BY <3>4, <3>5, <4>2, Zenon
        <4>3. CASE m # n \/ x # k
          BY <3>5, <4>1, <4>3, Zenon
        <4> QED BY <4>2, <4>3, Zenon
      <3>7. \A m \in Nodes : Cells(acks'[m])
        BY <3>6, Zenon DEF Cells
      <3>8. ASSUME NEW m \in Nodes, NEW x \in Keys, NEW q \in Authorities
            PROVE  \/ acks'[m][x][q] = acks[m][x][q]
                   \/ q \in members[m] /\ <<q, x, acks'[m][x][q]>> \in received
        <4>1. CASE m = n /\ x = k /\ q = p
          <5>1. acks'[m][x][q] = e /\ <<q, x, e>> \in received /\ q \in members[m]
            BY <1>2, <2>2, <3>4, <3>5, <4>1, Zenon
          <5> QED BY <5>1, Zenon
        <4>2. CASE ~(m = n /\ x = k /\ q = p)
          BY <3>4, <3>5, <4>2, Zenon
        <4> QED BY <4>1, <4>2, Zenon
      <3> QED BY <3>5, <3>7, <3>8, Zenon
    <2> QED BY <1>4, <2>1, <2>2, Zenon
  <1>8. /\ received \subseteq received'
        /\ \A m \in Nodes, x \in Keys :
             entries'[m][x] = entries[m][x] \/ entries'[m][x] = None
               \/ <<m, x, entries'[m][x]>> \in received' \/ ~entries'[m][x].dead
        /\ \A m \in Nodes, x \in Keys, q \in Authorities :
             \/ acks'[m][x][q] = acks[m][x][q] \/ acks'[m][x][q] = None
             \/ q \in members[m] /\ <<q, x, acks'[m][x][q]>> \in received'
    BY <1>1, <1>7, Zenon
  <1>9. \A x \in net' \ net :
          /\ x.body.kind \in {"update", "ack"} => x.body.key \in Keys
          /\ x.body.kind = "ack" => <<x.by, x.body.key, x.body.entry>> \in received'
    BY <1>3, Zenon
  <1> QED BY <1>1, <1>6, <1>7, <1>8, <1>9, RecordStep, Zenon

\* A step of one node that changes its roster, its map and its routes.
LEMMA NodeStep ==
    ASSUME SignedInv, NEW n \in Nodes, UNCHANGED <<setup, disk, received, net>>,
           up' \subseteq Nodes, \A m \in Nodes \ {n} : m \in up => m \in up',
           roster' \in [Nodes -> SUBSET Nodes], members' \in [Nodes -> SUBSET Nodes],
           Table(entries', Keys), Table(acks', Keys), Cells(acks'[n]),
           Table(confirmed', Nodes), Table(pending', Nodes), Table(cursors', Nodes),
           \A m \in Nodes \ {n} :
             /\ roster'[m] = roster[m] /\ members'[m] = members[m]
             /\ entries'[m] = entries[m] /\ acks'[m] = acks[m]
             /\ confirmed'[m] = confirmed[m] /\ pending'[m] = pending[m]
             /\ cursors'[m] = cursors[m],
           Evident(n, entries'[n], acks'[n]),
           n \notin up' => roster'[n] = {},
           members'[n] = CausalMembers(n, roster'[n]),
           \A p \in Nodes \ roster'[n] :
             confirmed'[n][p] = None /\ pending'[n][p] = None /\ cursors'[n][p] = None,
           Gated(acks'[n], members'[n])
    PROVE  SignedInv'
  <1>1. Shape'
    <2>1. Shape
      BY Zenon DEF SignedInv
    <2>2. ASSUME NEW m \in Nodes PROVE Cells(acks'[m])
      <3>1. CASE m = n
        BY <3>1, Zenon
      <3>2. CASE m # n
        <4>1. Cells(acks[m]) /\ acks'[m] = acks[m]
          BY <2>1, <3>2, Zenon DEF Shape
        <4> QED BY <4>1, Zenon
      <3> QED BY <3>1, <3>2, Zenon
    <2>3. setup' \in Setup /\ disk' = [m \in Nodes |-> disk'[m]]
      BY <2>1, Zenon DEF Shape
    <2> QED BY <2>2, <2>3, Zenon DEF Shape
  <1>2. Evidence'
    <2>1. ASSUME NEW m \in Nodes PROVE Evident(m, entries'[m], acks'[m])
      <3>1. CASE m = n
        BY <3>1, Zenon
      <3>2. CASE m # n
        <4>1. Evident(m, entries[m], acks[m]) /\ entries'[m] = entries[m] /\ acks'[m] = acks[m]
          BY <3>2, Zenon DEF SignedInv, Evidence
        <4> QED BY <4>1, Zenon
      <3> QED BY <3>1, <3>2, Zenon
    <2>2. \A m \in Nodes : Evident(m, entries[m], acks[m])'
      BY <2>1, Zenon DEF Evident
    <2> QED BY <2>2, Zenon DEF SignedInv, Evidence
  <1>3. Saved'
    BY SavedKept, Zenon DEF SignedInv
  <1>4. Holds'
    <2>1. ASSUME NEW m \in Nodes
          PROVE  /\ m \notin up' => roster'[m] = {}
                 /\ members'[m] = CausalMembers(m, roster'[m])
                 /\ \A p \in Nodes \ roster'[m] :
                      confirmed'[m][p] = None /\ pending'[m][p] = None /\ cursors'[m][p] = None
                 /\ Gated(acks'[m], members'[m])
      <3>1. CASE m = n
        BY <3>1, Zenon
      <3>2. CASE m # n
        <4>1. /\ m \notin up => roster[m] = {}
              /\ members[m] = CausalMembers(m, roster[m])
              /\ \A p \in Nodes \ roster[m] :
                   confirmed[m][p] = None /\ pending[m][p] = None /\ cursors[m][p] = None
              /\ Gated(acks[m], members[m])
          BY Zenon DEF SignedInv, Holds
        <4>2. /\ roster'[m] = roster[m] /\ members'[m] = members[m] /\ acks'[m] = acks[m]
              /\ confirmed'[m] = confirmed[m] /\ pending'[m] = pending[m]
              /\ cursors'[m] = cursors[m] /\ (m \notin up' => m \notin up)
          BY <3>2, Zenon
        <4>3. Gated(acks'[m], members'[m]) /\ members'[m] = CausalMembers(m, roster'[m])
          BY <4>1, <4>2, Zenon
        <4> QED BY <4>1, <4>2, <4>3, Zenon
      <3> QED BY <3>1, <3>2, Zenon
    <2> QED BY <2>1, Zenon DEF Holds
  <1> QED BY <1>1, <1>2, <1>3, <1>4, Zenon DEF SignedInv

\* A function of nodes with one value set.
LEMMA SetRoster ==
    ASSUME NEW t \in [Nodes -> SUBSET Nodes], NEW n \in Nodes, NEW r \in SUBSET Nodes
    PROVE  /\ WithRow(t, n, r) \in [Nodes -> SUBSET Nodes] /\ WithRow(t, n, r)[n] = r
           /\ \A m \in Nodes \ {n} : WithRow(t, n, r)[m] = t[m]
  BY Zenon DEF WithRow

\* What the invariant says of one node.
LEMMA NodeFacts ==
    ASSUME SignedInv, NEW n \in Nodes
    PROVE  /\ Evident(n, entries[n], acks[n]) /\ Cells(acks[n])
           /\ n \notin up => roster[n] = {}
           /\ members[n] = CausalMembers(n, roster[n])
           /\ \A p \in Nodes \ roster[n] :
                confirmed[n][p] = None /\ pending[n][p] = None /\ cursors[n][p] = None
           /\ Gated(acks[n], members[n])
           /\ roster[n] \subseteq Nodes /\ members[n] \subseteq Nodes
  <1>1. Evident(n, entries[n], acks[n]) /\ Cells(acks[n])
    BY Zenon DEF SignedInv, Shape, Evidence
  <1>2. roster[n] \subseteq Nodes /\ members[n] \subseteq Nodes
    BY Zenon DEF SignedInv, Shape
  <1> QED BY <1>1, <1>2, Zenon DEF SignedInv, Holds

\* decommission_peer clears what the peer had at the node.
LEMMA DecommissionKeeps ==
    ASSUME SignedInv, NEW n \in setup.nodes, NEW p \in setup.nodes, Decommission(n, p)
    PROVE  SignedInv'
  <1> DEFINE left == [k \in Keys |-> [q \in Authorities |-> IF q = p THEN None ELSE acks[n][k][q]]]
  <1>1. n \in Nodes /\ p \in Nodes
    BY Zenon DEF SignedInv, Shape, Setup
  <1>2. UNCHANGED <<setup, disk, received, net, up, entries>>
    BY Zenon DEF Decommission
  <1>3. /\ n \in up
        /\ confirmed' = WithCell(confirmed, n, p, None)
        /\ pending' = WithCell(pending, n, p, None)
        /\ cursors' = WithCell(cursors, n, p, None)
        /\ acks' = WithRow(acks, n, left)
        /\ roster' = WithRow(roster, n, roster[n] \ {p})
        /\ members' = WithRow(members, n, members[n] \ {p})
    BY Zenon DEF Decommission, WithCell, WithRow
  <1>4. /\ Table(entries, Keys) /\ Table(acks, Keys)
        /\ Table(confirmed, Nodes) /\ Table(pending, Nodes) /\ Table(cursors, Nodes)
        /\ roster \in [Nodes -> SUBSET Nodes] /\ members \in [Nodes -> SUBSET Nodes]
        /\ up \subseteq Nodes
    BY Zenon DEF SignedInv, Shape
  <1>5. /\ Evident(n, entries[n], acks[n])
        /\ members[n] = CausalMembers(n, roster[n])
        /\ \A q \in Nodes \ roster[n] :
             confirmed[n][q] = None /\ pending[n][q] = None /\ cursors[n][q] = None
        /\ Gated(acks[n], members[n])
        /\ roster[n] \subseteq Nodes /\ members[n] \subseteq Nodes
    BY <1>1, NodeFacts, Zenon
  <1>6. /\ left = [k \in Keys |-> left[k]]
        /\ \A k \in Keys : left[k] = [q \in Authorities |-> left[k][q]]
        /\ \A k \in Keys, q \in Authorities : left[k][q] # None => q # p /\ left[k][q] = acks[n][k][q]
    BY Zenon
  <1> HIDE DEF left
  <1>7. roster[n] \ {p} \in SUBSET Nodes /\ members[n] \ {p} \in SUBSET Nodes
    BY <1>5, Zenon
  <1>8. /\ roster' \in [Nodes -> SUBSET Nodes] /\ roster'[n] = roster[n] \ {p}
        /\ \A m \in Nodes \ {n} : roster'[m] = roster[m]
    BY <1>1, <1>3, <1>4, <1>7, SetRoster
  <1>9. /\ members' \in [Nodes -> SUBSET Nodes] /\ members'[n] = members[n] \ {p}
        /\ \A m \in Nodes \ {n} : members'[m] = members[m]
    BY <1>1, <1>3, <1>4, <1>7, SetRoster
  <1>10. Table(acks', Keys) /\ acks'[n] = left /\ \A m \in Nodes \ {n} : acks'[m] = acks[m]
    BY <1>1, <1>3, <1>4, <1>6, SetRow
  <1>11. /\ Table(confirmed', Nodes) /\ confirmed'[n][p] = None
         /\ \A m \in Nodes, q \in Nodes : m # n \/ q # p => confirmed'[m][q] = confirmed[m][q]
    BY <1>1, <1>3, <1>4, SetCell
  <1>12. /\ Table(pending', Nodes) /\ pending'[n][p] = None
         /\ \A m \in Nodes, q \in Nodes : m # n \/ q # p => pending'[m][q] = pending[m][q]
    BY <1>1, <1>3, <1>4, SetCell
  <1>13. /\ Table(cursors', Nodes) /\ cursors'[n][p] = None
         /\ \A m \in Nodes, q \in Nodes : m # n \/ q # p => cursors'[m][q] = cursors[m][q]
    BY <1>1, <1>3, <1>4, SetCell
  <1>14. \A m \in Nodes \ {n} : /\ confirmed'[m] = confirmed[m] /\ pending'[m] = pending[m]
                                /\ cursors'[m] = cursors[m]
    BY <1>3, <1>4, Zenon DEF WithCell, Table
  <1>15. Table(entries', Keys) /\ Evident(n, entries'[n], acks'[n])
    <2>1. Table(entries', Keys)
      BY <1>2, <1>4, Zenon
    <2>2. \A k \in Keys, q \in Authorities : left[k][q] # None => <<q, k, left[k][q]>> \in received
      BY <1>5, <1>6, Zenon DEF Evident
    <2>3. Evident(n, entries[n], left)
      BY <1>5, <2>2, Zenon DEF Evident
    <2> QED BY <1>2, <1>10, <2>1, <2>3, Zenon
  <1>16. Cells(acks'[n]) /\ Gated(acks'[n], members'[n])
    <2>1. Cells(left)
      BY <1>6, Zenon DEF Cells
    <2>2. Gated(left, members[n] \ {p})
      BY <1>5, <1>6, Zenon DEF Gated
    <2> QED BY <1>9, <1>10, <2>1, <2>2, Zenon
  <1>17. members'[n] = CausalMembers(n, roster'[n])
    BY <1>5, <1>8, <1>9, Zenon DEF CausalMembers
  <1>18. \A q \in Nodes \ roster'[n] :
           confirmed'[n][q] = None /\ pending'[n][q] = None /\ cursors'[n][q] = None
    BY <1>1, <1>5, <1>8, <1>11, <1>12, <1>13, Zenon
  <1>19. /\ up' \subseteq Nodes /\ (n \notin up' => roster'[n] = {})
         /\ \A m \in Nodes \ {n} : m \in up => m \in up'
    BY <1>2, <1>3, <1>4, Zenon
  <1>20. \A m \in Nodes \ {n} : entries'[m] = entries[m]
    BY <1>2, Zenon
  <1> QED BY NodeStep, <1>1, <1>2, <1>8, <1>9, <1>10, <1>11, <1>12, <1>13, <1>14, <1>15, <1>16,
             <1>17, <1>18, <1>19, <1>20, Zenon

\* snapshot_now saves what the node has.
LEMMA SnapshotKeeps ==
    ASSUME SignedInv, NEW n \in up, Snapshot(n) PROVE SignedInv'
  <1> DEFINE image == [entries |-> entries[n], members |-> members[n], acks |-> acks[n]]
  <1>1. UNCHANGED <<setup, up, roster, members, entries, acks, received, confirmed, pending, cursors, net>>
    BY Zenon DEF Snapshot, rosterVars, causalVars, routeVars, sendVars
  <1>2. disk' = WithRow(disk, n, image)
    BY Zenon DEF Snapshot, WithRow
  <1>3. Shape /\ n \in Nodes /\ disk = [m \in Nodes |-> disk[m]]
    BY Zenon DEF SignedInv, Shape
  <1>4. image.entries = entries[n] /\ image.members = members[n] /\ image.acks = acks[n]
    OBVIOUS
  <1> HIDE DEF image
  <1>5. /\ disk' = [m \in Nodes |-> disk'[m]] /\ disk'[n] = image
        /\ \A m \in Nodes \ {n} : disk'[m] = disk[m]
    BY <1>2, <1>3, Zenon DEF WithRow
  <1>6. Shape'
    BY <1>1, <1>3, <1>5, Zenon DEF Shape, Table
  <1>7. Evidence'
    BY <1>1, Zenon DEF SignedInv, Evidence, Evident
  <1>8. Holds'
    BY <1>1, Zenon DEF SignedInv, Holds
  <1>9. Saved'
    <2>1. /\ entries[n] = [k \in Keys |-> entries[n][k]]
          /\ acks[n] = [k \in Keys |-> acks[n][k]]
      BY <1>3, Zenon DEF Shape, Table
    <2>2. Evident(n, entries[n], acks[n]) /\ Cells(acks[n]) /\ Gated(acks[n], members[n])
      BY <1>3, NodeFacts, Zenon
    <2>3. /\ image.entries = [k \in Keys |-> image.entries[k]]
          /\ image.acks = [k \in Keys |-> image.acks[k]] /\ Cells(image.acks)
          /\ Evident(n, image.entries, image.acks) /\ Gated(image.acks, image.members)
      BY <1>4, <2>1, <2>2, Zenon
    <2>4. ASSUME NEW m \in Nodes, disk'[m] # None
          PROVE  /\ disk'[m].entries = [k \in Keys |-> disk'[m].entries[k]]
                 /\ disk'[m].acks = [k \in Keys |-> disk'[m].acks[k]] /\ Cells(disk'[m].acks)
                 /\ Evident(m, disk'[m].entries, disk'[m].acks)
                 /\ Gated(disk'[m].acks, disk'[m].members)
      <3>1. CASE m = n
        BY <1>5, <2>3, <3>1, Zenon
      <3>2. CASE m # n
        <4>1. disk'[m] = disk[m]
          BY <1>5, <3>2, Zenon
        <4>2. /\ disk[m].entries = [k \in Keys |-> disk[m].entries[k]]
              /\ disk[m].acks = [k \in Keys |-> disk[m].acks[k]] /\ Cells(disk[m].acks)
              /\ Evident(m, disk[m].entries, disk[m].acks)
              /\ Gated(disk[m].acks, disk[m].members)
          BY <2>4, <4>1, Zenon DEF SignedInv, Saved
        <4> QED BY <4>1, <4>2, Zenon
      <3> QED BY <3>1, <3>2, Zenon
    <2>5. ASSUME NEW m \in Nodes, disk'[m] # None
          PROVE  Evident(m, disk[m].entries, disk[m].acks)'
      BY <1>1, <2>4, <2>5, Zenon DEF Evident
    <2> QED BY <2>4, <2>5, Zenon DEF Saved
  <1> QED BY <1>6, <1>7, <1>8, <1>9, Zenon DEF SignedInv

\* A replica that stops keeps only what is on disk.
LEMMA StopKeeps ==
    ASSUME SignedInv, NEW n \in up, Stop(n) PROVE SignedInv'
  <1> DEFINE bare == [k \in Keys |-> None]
             blank == [k \in Keys |-> NoAcks]
  <1>1. UNCHANGED <<setup, disk, received, net>> /\ up' = up \ {n}
    BY Zenon DEF Stop
  <1>2. /\ entries' = WithRow(entries, n, bare) /\ acks' = WithRow(acks, n, blank)
        /\ confirmed' = WithRow(confirmed, n, NoRoutes)
        /\ pending' = WithRow(pending, n, NoRoutes)
        /\ cursors' = WithRow(cursors, n, NoRoutes)
        /\ roster' = WithRow(roster, n, {}) /\ members' = WithRow(members, n, {})
    BY Zenon DEF Stop, WithRow
  <1>3. /\ n \in Nodes
        /\ Table(entries, Keys) /\ Table(acks, Keys)
        /\ Table(confirmed, Nodes) /\ Table(pending, Nodes) /\ Table(cursors, Nodes)
        /\ roster \in [Nodes -> SUBSET Nodes] /\ members \in [Nodes -> SUBSET Nodes]
        /\ up \subseteq Nodes
    BY Zenon DEF SignedInv, Shape
  <1>4. \A k \in Keys : bare[k] = None /\ blank[k] = NoAcks
    BY Zenon
  <1>a. bare = [k \in Keys |-> bare[k]]
    BY Zenon
  <1>b. blank = [k \in Keys |-> blank[k]]
    BY Zenon
  <1>c. NoRoutes = [p \in Nodes |-> NoRoutes[p]]
    BY Zenon DEF NoRoutes
  <1>5. NoAcks = [p \in Authorities |-> NoAcks[p]] /\ \A p \in Authorities : NoAcks[p] = None
    BY Zenon DEF NoAcks
  <1>6. \A p \in Nodes : NoRoutes[p] = None
    BY Zenon DEF NoRoutes
  <1> HIDE DEF bare, blank
  <1>7. Table(entries', Keys) /\ entries'[n] = bare /\ \A m \in Nodes \ {n} : entries'[m] = entries[m]
    BY <1>2, <1>3, <1>a, SetRow
  <1>8. Table(acks', Keys) /\ acks'[n] = blank /\ \A m \in Nodes \ {n} : acks'[m] = acks[m]
    BY <1>2, <1>3, <1>b, SetRow
  <1>9. /\ Table(confirmed', Nodes) /\ confirmed'[n] = NoRoutes
        /\ \A m \in Nodes \ {n} : confirmed'[m] = confirmed[m]
    <2>1. confirmed' = WithRow(confirmed, n, NoRoutes) /\ Table(confirmed, Nodes) /\ n \in Nodes
      BY <1>2, <1>3, Zenon
    <2> QED BY <1>c, <2>1, SetRow
  <1>10. /\ Table(pending', Nodes) /\ pending'[n] = NoRoutes
         /\ \A m \in Nodes \ {n} : pending'[m] = pending[m]
    <2>1. pending' = WithRow(pending, n, NoRoutes) /\ Table(pending, Nodes) /\ n \in Nodes
      BY <1>2, <1>3, Zenon
    <2> QED BY <1>c, <2>1, SetRow
  <1>11. /\ Table(cursors', Nodes) /\ cursors'[n] = NoRoutes
         /\ \A m \in Nodes \ {n} : cursors'[m] = cursors[m]
    <2>1. cursors' = WithRow(cursors, n, NoRoutes) /\ Table(cursors, Nodes) /\ n \in Nodes
      BY <1>2, <1>3, Zenon
    <2> QED BY <1>c, <2>1, SetRow
  <1>12. /\ roster' \in [Nodes -> SUBSET Nodes] /\ roster'[n] = {}
         /\ \A m \in Nodes \ {n} : roster'[m] = roster[m]
    BY <1>2, <1>3, SetRoster
  <1>13. /\ members' \in [Nodes -> SUBSET Nodes] /\ members'[n] = {}
         /\ \A m \in Nodes \ {n} : members'[m] = members[m]
    BY <1>2, <1>3, SetRoster
  <1>14. members'[n] = CausalMembers(n, roster'[n])
    BY <1>12, <1>13, Zenon DEF CausalMembers
  <1>15. Cells(blank) /\ Evident(n, bare, blank) /\ Gated(blank, {})
    BY <1>4, <1>5, Zenon DEF Cells, Evident, Gated, Tombstone
  <1>16. Cells(acks'[n]) /\ Evident(n, entries'[n], acks'[n]) /\ Gated(acks'[n], members'[n])
    BY <1>7, <1>8, <1>13, <1>15, Zenon
  <1>17. \A p \in Nodes \ roster'[n] :
           confirmed'[n][p] = None /\ pending'[n][p] = None /\ cursors'[n][p] = None
    BY <1>6, <1>9, <1>10, <1>11, Zenon
  <1>18. /\ up' \subseteq Nodes /\ (n \notin up' => roster'[n] = {})
         /\ \A m \in Nodes \ {n} : m \in up => m \in up'
    BY <1>1, <1>3, <1>12, Zenon
  <1> QED BY <1>1, <1>3, <1>7, <1>8, <1>9, <1>10, <1>11, <1>12, <1>13, <1>14, <1>16, <1>17, <1>18,
             NodeStep, Zenon

\* new takes a snapshot only for the members it was saved with.
LEMMA StartKeeps ==
    ASSUME SignedInv, NEW n \in setup.nodes, NEW gone, Start(n, gone) PROVE SignedInv'
  <1> DEFINE config == Provisioned(n, gone)
             gate == CausalMembers(n, config)
  <1>1. UNCHANGED <<setup, disk, received, net, confirmed, pending, cursors>>
    BY Zenon DEF Start, routeVars, worldVars
  <1>2. /\ n \notin up /\ up' = up \cup {n}
        /\ roster' = WithRow(roster, n, config) /\ members' = WithRow(members, n, gate)
        /\ disk[n] # None => disk[n].members = gate
    BY Zenon DEF Start, Loadable, WithRow
  <1>3. /\ disk[n] = None => UNCHANGED <<entries, acks>>
        /\ disk[n] # None => /\ entries' = WithRow(entries, n, disk[n].entries)
                             /\ acks' = WithRow(acks, n, disk[n].acks)
    BY Zenon DEF Start, WithRow
  <1>4. n \in Nodes /\ config \in SUBSET Nodes /\ gate \in SUBSET Nodes
    BY Zenon DEF SignedInv, Shape, Setup, Provisioned, CausalMembers
  <1>5. /\ Table(entries, Keys) /\ Table(acks, Keys)
        /\ Table(confirmed, Nodes) /\ Table(pending, Nodes) /\ Table(cursors, Nodes)
        /\ roster \in [Nodes -> SUBSET Nodes] /\ members \in [Nodes -> SUBSET Nodes]
        /\ up \subseteq Nodes
    BY Zenon DEF SignedInv, Shape
  <1>6. /\ Evident(n, entries[n], acks[n]) /\ Cells(acks[n])
        /\ roster[n] = {} /\ members[n] = CausalMembers(n, roster[n])
        /\ \A p \in Nodes \ roster[n] :
             confirmed[n][p] = None /\ pending[n][p] = None /\ cursors[n][p] = None
        /\ Gated(acks[n], members[n])
    BY <1>2, <1>4, NodeFacts, Zenon
  <1> HIDE DEF config
  <1>7. /\ roster' \in [Nodes -> SUBSET Nodes] /\ roster'[n] = config
        /\ \A m \in Nodes \ {n} : roster'[m] = roster[m]
    BY <1>2, <1>4, <1>5, SetRoster
  <1>8. /\ members' \in [Nodes -> SUBSET Nodes] /\ members'[n] = gate
        /\ \A m \in Nodes \ {n} : members'[m] = members[m]
    BY <1>2, <1>4, <1>5, SetRoster
  <1>9. members'[n] = CausalMembers(n, roster'[n])
    BY <1>7, <1>8, Zenon
  <1>10. /\ Table(confirmed', Nodes) /\ Table(pending', Nodes) /\ Table(cursors', Nodes)
         /\ \A m \in Nodes \ {n} : /\ confirmed'[m] = confirmed[m] /\ pending'[m] = pending[m]
                                   /\ cursors'[m] = cursors[m]
    BY <1>1, <1>5, Zenon
  <1>11. \A p \in Nodes \ roster'[n] :
           confirmed'[n][p] = None /\ pending'[n][p] = None /\ cursors'[n][p] = None
    BY <1>1, <1>6, Zenon
  <1>12. /\ up' \subseteq Nodes /\ (n \notin up' => roster'[n] = {})
         /\ \A m \in Nodes \ {n} : m \in up => m \in up'
    BY <1>2, <1>4, <1>5, Zenon
  <1> HIDE DEF gate
  <1>13. /\ Table(entries', Keys) /\ Table(acks', Keys)
         /\ \A m \in Nodes \ {n} : entries'[m] = entries[m] /\ acks'[m] = acks[m]
         /\ Cells(acks'[n]) /\ Evident(n, entries'[n], acks'[n]) /\ Gated(acks'[n], gate)
    <2>1. CASE disk[n] = None
      <3>1. entries' = entries /\ acks' = acks
        BY <1>3, <2>1, Zenon
      <3>2. members[n] = {}
        BY <1>6, Zenon DEF CausalMembers
      <3>3. Gated(acks[n], gate)
        BY <1>6, <3>2, Zenon DEF Gated
      <3> QED BY <1>5, <1>6, <3>1, <3>3, Zenon
    <2>2. CASE disk[n] # None
      <3> DEFINE E == disk[n].entries
                 A == disk[n].acks
      <3>a. E = [k \in Keys |-> E[k]]
        BY <1>4, <2>2, Zenon DEF SignedInv, Saved
      <3>b. A = [k \in Keys |-> A[k]]
        BY <1>4, <2>2, Zenon DEF SignedInv, Saved
      <3>1. Cells(A) /\ Evident(n, E, A) /\ Gated(A, disk[n].members)
        BY <1>4, <2>2, Zenon DEF SignedInv, Saved
      <3>2. entries' = WithRow(entries, n, E) /\ acks' = WithRow(acks, n, A)
        BY <1>3, <2>2, Zenon
      <3>3. Gated(A, gate)
        BY <1>2, <2>2, <3>1, Zenon DEF Gated
      <3> HIDE DEF E, A
      <3>4. Table(entries', Keys) /\ entries'[n] = E /\ \A m \in Nodes \ {n} : entries'[m] = entries[m]
        <4>1. entries' = WithRow(entries, n, E) /\ Table(entries, Keys) /\ n \in Nodes
          BY <1>4, <1>5, <3>2, Zenon
        <4> QED BY <3>a, <4>1, SetRow
      <3>5. Table(acks', Keys) /\ acks'[n] = A /\ \A m \in Nodes \ {n} : acks'[m] = acks[m]
        <4>1. acks' = WithRow(acks, n, A) /\ Table(acks, Keys) /\ n \in Nodes
          BY <1>4, <1>5, <3>2, Zenon
        <4> QED BY <3>b, <4>1, SetRow
      <3>6. Cells(acks'[n]) /\ Evident(n, entries'[n], acks'[n]) /\ Gated(acks'[n], gate)
        BY <3>1, <3>3, <3>4, <3>5, Zenon
      <3> QED BY <3>4, <3>5, <3>6, Zenon
    <2> QED BY <2>1, <2>2, Zenon
  <1>14. Gated(acks'[n], members'[n])
    BY <1>8, <1>13, Zenon
  <1> QED BY <1>1, <1>4, <1>7, <1>8, <1>9, <1>10, <1>11, <1>12, <1>13, <1>14, NodeStep, Zenon

(***************************************************************************)
(* The theorems.                                                           *)
(***************************************************************************)
\* At the start nothing is held, recorded or on its way.
LEMMA InitHolds ==
    ASSUME Init PROVE SignedInv
  <1>1. setup \in Setup
    BY SetupAssumption, Zenon DEF Init
  <1>2. up = setup.nodes /\ up \subseteq Nodes /\ net = {} /\ setup.nodes \subseteq Nodes
    BY <1>1, Zenon DEF Init, Setup
  <1>3. roster = [n \in Nodes |-> IF n \in up THEN Provisioned(n, {}) ELSE {}]
    BY Zenon DEF Init
  <1>4. members = [n \in Nodes |-> CausalMembers(n, roster[n])]
    BY Zenon DEF Init
  <1>5. roster \in [Nodes -> SUBSET Nodes] /\ \A n \in Nodes : n \notin up => roster[n] = {}
    BY <1>2, <1>3, Zenon DEF Provisioned
  <1>6. /\ members \in [Nodes -> SUBSET Nodes]
        /\ \A n \in Nodes : members[n] = CausalMembers(n, roster[n])
    <2>1. \A n \in Nodes : CausalMembers(n, roster[n]) \in SUBSET Nodes
      BY <1>5, Zenon DEF CausalMembers
    <2> QED BY <1>4, <2>1, Zenon
  <1>7. /\ Table(entries, Keys) /\ \A n \in Nodes, k \in Keys : entries[n][k] = None
    BY Zenon DEF Init, Table
  <1>8. /\ Table(acks, Keys) /\ \A n \in Nodes, k \in Keys : acks[n][k] = NoAcks
    BY Zenon DEF Init, Table
  <1>9. NoAcks = [p \in Authorities |-> NoAcks[p]] /\ \A p \in Authorities : NoAcks[p] = None
    BY Zenon DEF NoAcks
  <1>10. /\ Table(confirmed, Nodes) /\ Table(pending, Nodes) /\ Table(cursors, Nodes)
         /\ \A n \in Nodes, p \in Nodes :
              confirmed[n][p] = None /\ pending[n][p] = None /\ cursors[n][p] = None
    BY Zenon DEF Init, Table, NoRoutes
  <1>11. disk = [n \in Nodes |-> disk[n]] /\ \A n \in Nodes : disk[n] = None
    BY Zenon DEF Init
  <1>12. ASSUME NEW n \in Nodes
         PROVE  Cells(acks[n]) /\ Evident(n, entries[n], acks[n]) /\ Gated(acks[n], members[n])
    <2>1. \A k \in Keys, p \in Authorities : acks[n][k][p] = None
      BY <1>8, <1>9, Zenon
    <2>2. \A k \in Keys : acks[n][k] = [p \in Authorities |-> acks[n][k][p]]
      BY <1>8, <1>9, Zenon
    <2> QED BY <1>7, <2>1, <2>2, Zenon DEF Cells, Evident, Gated, Tombstone
  <1>13. Shape
    BY <1>1, <1>2, <1>5, <1>6, <1>7, <1>8, <1>10, <1>11, <1>12, Zenon DEF Shape
  <1>14. Evidence /\ Saved
    BY <1>2, <1>11, <1>12, Zenon DEF Evidence, Saved
  <1>15. Holds
    BY <1>5, <1>6, <1>10, <1>12, Zenon DEF Holds
  <1> QED BY <1>13, <1>14, <1>15, Zenon DEF SignedInv

\* Every datagram a node takes.
LEMMA ReceiveKeeps ==
    ASSUME SignedInv, NEW n \in up, NEW d \in net, Receive(n, d) PROVE SignedInv'
  <1>1. CASE Admitted(n, d) /\ ReceiveUnconfirmed(n, d)
    BY <1>1, ReceiveUnconfirmedKeeps, Zenon
  <1>2. CASE ReceiveChallenge(n, d)
    BY <1>2, ReceiveChallengeKeeps, Zenon
  <1>3. CASE Admitted(n, d) /\ ReceiveResponse(n, d)
    BY <1>3, ReceiveResponseKeeps, Zenon
  <1>4. CASE ReceiveHello(n, d) \/ ~Admitted(n, d)
    <2>1. /\ UNCHANGED <<rosterVars, causalVars, routeVars, sendVars, setup, disk>>
          /\ net' \subseteq net
      BY <1>4, Zenon DEF Receive, ReceiveHello, worldVars
    <2> QED BY <2>1, DropKeeps, Zenon
  <1>5. CASE ReceiveUpdate(n, d)
    BY <1>5, ReceiveUpdateKeeps, Zenon
  <1>6. CASE ReceiveAck(n, d)
    BY <1>6, ReceiveAckKeeps, Zenon
  <1> QED BY <1>1, <1>2, <1>3, <1>4, <1>5, <1>6, Zenon DEF Receive

\* Every step keeps the invariant.
LEMMA StepKeeps ==
    ASSUME SignedInv, [Next]_vars PROVE SignedInv'
  <1>1. CASE \E n \in setup.nodes, k \in setup.keys, dead \in BOOLEAN : Write(n, k, dead)
    BY <1>1, WriteKeeps, Zenon
  <1>2. CASE \E n \in up, found \in SUBSET setup.nodes : Refresh(n, found)
    BY <1>2, RefreshKeeps, Zenon
  <1>3. CASE \E n \in up : Probe(n)
    BY <1>3, ProbeKeeps, Zenon
  <1>4. CASE \E n \in up, asked \in Requests : Reconcile(n, asked)
    BY <1>4, ReconcileKeeps, Zenon
  <1>5. CASE \E n \in up, d \in net : Receive(n, d)
    BY <1>5, ReceiveKeeps, Zenon
  <1>6. CASE \E n, p \in setup.nodes : Decommission(n, p)
    BY <1>6, DecommissionKeeps, Zenon
  <1>7. CASE \E n \in up : Snapshot(n) \/ Stop(n)
    BY <1>7, SnapshotKeeps, StopKeeps, Zenon
  <1>8. CASE \E n \in setup.nodes, gone \in {{}, retired} : Start(n, gone)
    BY <1>8, StartKeeps, Zenon
  <1>9. CASE (\E n \in setup.nodes, a \in Addresses : Move(n, a))
             \/ (\E d \in net : Lose(d) \/ Undeliverable(d)) \/ UNCHANGED vars
    <2>1. /\ UNCHANGED <<rosterVars, causalVars, routeVars, sendVars, setup, disk>>
          /\ net' \subseteq net
      BY <1>9, Zenon DEF Move, Lose, Undeliverable, worldVars, vars
    <2> QED BY <2>1, DropKeeps, Zenon
  <1>10. CASE Tick
    BY <1>10, TickKeeps, Zenon
  <1> QED BY <1>1, <1>2, <1>3, <1>4, <1>5, <1>6, <1>7, <1>8, <1>9, <1>10, Zenon DEF Next

\* The invariant holds in every state of the signed runtime.
THEOREM SignedInvariant == Spec => []SignedInv
  <1>1. Init => SignedInv
    BY InitHolds, Zenon
  <1>2. SignedInv /\ [Next]_vars => SignedInv'
    BY StepKeeps, Zenon
  <1> QED BY <1>1, <1>2, PTL DEF Spec

\* is_tombstone_stable reports a tombstone only when every causal member has held exactly
\* this version, for any number of nodes and any faults.
THEOREM StableReceived == Spec => []StableWasReceived
  <1>1. SignedInv => StableWasReceived
    <2> SUFFICES ASSUME SignedInv, NEW n \in up, NEW k \in Keys, Stable(n, k), NEW p \in members[n]
                 PROVE  <<p, k, entries[n][k]>> \in received
      BY Zenon DEF StableWasReceived
    <2>1. n \in Nodes
      BY Zenon DEF SignedInv, Shape
    <2>2. p \in Authorities
      BY <2>1, MembersAreAuthorities, Zenon
    <2>3. acks[n][k][p] = entries[n][k] /\ entries[n][k] # None
      BY Zenon DEF Stable, Tombstone
    <2>4. acks[n][k][p] # None => <<p, k, acks[n][k][p]>> \in received
      BY <2>1, <2>2, NodeFacts, Zenon DEF Evident
    <2> QED BY <2>3, <2>4, Zenon
  <1> QED BY <1>1, SignedInvariant, PTL

\* A peer that decommission_peer removed, or that never was on the roster, has no receipt,
\* no route and no challenge at any node.
THEOREM OutsidersHold == Spec => []OutsidersHaveNoHold
  <1>1. SignedInv => OutsidersHaveNoHold
    <2> SUFFICES ASSUME SignedInv, NEW n \in up
                 PROVE  /\ members[n] = CausalMembers(n, roster[n])
                        /\ \A p \in Nodes \ roster[n] :
                             confirmed[n][p] = None /\ pending[n][p] = None /\ cursors[n][p] = None
                        /\ \A k \in Keys, p \in Authorities :
                             acks[n][k][p] # None => p \in members[n]
      BY Zenon DEF OutsidersHaveNoHold
    <2>1. n \in Nodes
      BY Zenon DEF SignedInv, Shape
    <2> QED BY <2>1, NodeFacts, Zenon DEF Gated
  <1> QED BY <1>1, SignedInvariant, PTL

\* new starts with the blockers that were saved: a restart completes no decommission.
THEOREM StartKeeping == Spec => StartKeepsBlockers
  <1>1. SignedInv /\ [Next]_vars =>
          [\A n \in up' \ up : disk[n] # None => members'[n] = disk[n].members]_vars
    <2> SUFFICES ASSUME SignedInv, Next, NEW n \in up' \ up, disk[n] # None
                 PROVE  members'[n] = disk[n].members
      BY Zenon
    <2>a. \A m, k, dead : Write(m, k, dead) => up' = up
      BY Zenon DEF Write, rosterVars
    <2>b. /\ \A m, found : Refresh(m, found) => up' = up
          /\ \A m : Probe(m) => up' = up
          /\ \A m, asked : Reconcile(m, asked) => up' = up
      BY Zenon DEF Refresh, Probe, Reconcile, rosterVars
    <2>c. \A m, d : Receive(m, d) => up' = up
      <3>1. ASSUME NEW m, NEW d, ReceiveUnconfirmed(m, d) PROVE up' = up
        BY <3>1, Zenon DEF ReceiveUnconfirmed, rosterVars
      <3>2. ASSUME NEW m, NEW d, ReceiveChallenge(m, d) PROVE up' = up
        BY <3>2, Zenon DEF ReceiveChallenge, rosterVars
      <3>3. ASSUME NEW m, NEW d, ReceiveResponse(m, d) PROVE up' = up
        BY <3>3, Zenon DEF ReceiveResponse, rosterVars
      <3>4. ASSUME NEW m, NEW d, ReceiveHello(m, d) PROVE up' = up
        BY <3>4, Zenon DEF ReceiveHello, rosterVars
      <3>5. ASSUME NEW m, NEW d, ReceiveUpdate(m, d) PROVE up' = up
        BY <3>5, Zenon DEF ReceiveUpdate, rosterVars
      <3>6. ASSUME NEW m, NEW d, ReceiveAck(m, d) PROVE up' = up
        BY <3>6, Zenon DEF ReceiveAck, rosterVars
      <3>7. ASSUME NEW m, NEW d, Receive(m, d), ~Admitted(m, d) PROVE up' = up
        BY <3>7, Zenon DEF Receive, rosterVars
      <3> QED BY <3>1, <3>2, <3>3, <3>4, <3>5, <3>6, <3>7, Zenon DEF Receive
    <2>d. /\ \A m, p : Decommission(m, p) => up' = up
          /\ \A m : Snapshot(m) => up' = up
          /\ \A m : Stop(m) => up' \subseteq up
      BY Zenon DEF Decommission, Snapshot, Stop, rosterVars
    <2>e. /\ \A m, a : Move(m, a) => up' = up
          /\ \A d : Lose(d) \/ Undeliverable(d) => up' = up
          /\ Tick => up' = up
      BY Zenon DEF Move, Lose, Undeliverable, Tick, rosterVars
    <2>1. PICK m \in setup.nodes, gone \in {{}, retired} : Start(m, gone)
      BY <2>a, <2>b, <2>c, <2>d, <2>e, Zenon DEF Next
    <2>2. m = n /\ Loadable(n, Provisioned(n, gone))
          /\ members' = WithRow(members, n, CausalMembers(n, Provisioned(n, gone)))
      BY <2>1, Zenon DEF Start, WithRow
    <2>3. n \in Nodes /\ members \in [Nodes -> SUBSET Nodes]
      BY <2>1, <2>2, Zenon DEF SignedInv, Shape, Setup
    <2>4. members'[n] = CausalMembers(n, Provisioned(n, gone))
      BY <2>2, <2>3, Zenon DEF WithRow
    <2> QED BY <2>2, <2>4, Zenon DEF Loadable
  <1> QED BY <1>1, SignedInvariant, PTL DEF Spec, StartKeepsBlockers

(***************************************************************************)
(* The inductive invariant.  RemembersCurrentRun is not inductive alone: a *)
(* reset forgets the bitmap, and only the order of the headers a sender    *)
(* mints shows that nothing of its current run is forgotten with it.       *)
(***************************************************************************)
\* What SenderCounter guarantees: sequence numbers name the datagrams of a run,
\* stamps follow them, and a run starts above the stamps of the earlier ones.
HeadersOrdered ==
    /\ \A d \in sent :
         /\ d.run <= run[d.sender]
         /\ d.run = run[d.sender] => d.seq < seq[d.sender] /\ d.stamp <= floor[d.sender]
         /\ d.run < run[d.sender] => d.stamp + Backstep < now
    /\ \A d, e \in sent :
         (d.sender = e.sender /\ e.run = run[e.sender]) =>
           /\ d.run < e.run => d.stamp < e.stamp
           /\ (d.run = e.run /\ d.seq < e.seq) => d.stamp <= e.stamp
           /\ (d.run = e.run /\ d.seq = e.seq) => d = e

\* Every PeerState was left by a datagram that was accepted.
StateWitnessed ==
    \A p \in Senders : peers[p] # None =>
        \E d \in accepted : /\ d.sender = p
                            /\ d.seq = peers[p].max_seq
                            /\ d.stamp = peers[p].stamp_at_max

FilterInv ==
    /\ TypeOK
    /\ HeadersOrdered
    /\ StampAtMaxIsHighest
    /\ StateWitnessed
    /\ RemembersCurrentRun

\* The constants are numbers, in the form the arithmetic steps use.
LEMMA Constants ==
    /\ Window \in Nat /\ Window > 0 /\ Freshness \in Nat /\ MaxSenders \in Nat
    /\ Backstep \in Nat /\ MaxSeq \in Nat /\ MaxTime \in Nat /\ MaxRuns \in Nat /\ MaxRuns > 0
  BY FilterAssumption

\* Stamp::age_relative_to is the saturating difference.
LEMMA AgeMeaning ==
    ASSUME NEW s \in Nat, NEW t \in Nat
    PROVE  Age(s, t) <= Freshness <=> t <= s + Freshness
  BY Constants DEF Age, Larger

\* accept returns None or a well-typed state, whose stamps agree if they did.
LEMMA AcceptState ==
    ASSUME NEW st \in PeerStates, NEW s \in 1..MaxSeq, NEW t \in 0..MaxTime,
           st.stamp_at_max = st.max_stamp_seen,
           Accept(st, s, t) # None
    PROVE  /\ Accept(st, s, t) \in PeerStates
           /\ Accept(st, s, t).stamp_at_max = Accept(st, s, t).max_stamp_seen
           /\ Accept(st, s, t).stamp_at_max >= st.stamp_at_max
  <1>1. CASE s > st.max_seq
    <2>1. Accept(st, s, t) = [max_seq |-> s, stamp_at_max |-> t,
                              max_stamp_seen |-> Larger(st.max_stamp_seen, t),
                              bitmap |-> Advance(st.bitmap, s - st.max_seq)]
          /\ t >= st.max_stamp_seen
      BY <1>1, Constants DEF Accept, Ahead, PeerStates
    <2>2. Advance(st.bitmap, s - st.max_seq) \in SUBSET (0..(Window - 1))
      BY <1>1, Constants DEF Advance, PeerStates
    <2> QED BY <2>1, <2>2, Constants DEF PeerStates, Larger
  <1>2. CASE s <= st.max_seq /\ t > st.stamp_at_max
    <2>1. Accept(st, s, t) = [max_seq |-> s, stamp_at_max |-> t,
                              max_stamp_seen |-> Larger(st.max_stamp_seen, t),
                              bitmap |-> {0}]
      BY <1>2, Constants DEF Accept, Behind, Reset, PeerStates
    <2> QED BY <1>2, <2>1, Constants DEF PeerStates, Larger
  <1>3. CASE s <= st.max_seq /\ ~(t > st.stamp_at_max)
    <2>1. /\ Accept(st, s, t) = [st EXCEPT !.bitmap = @ \cup {st.max_seq - s}]
          /\ st.max_seq - s < Window
      BY <1>3, Constants DEF Accept, Behind, PeerStates
    <2>2. st.max_seq - s \in 0..(Window - 1)
      BY <1>3, <2>1, Constants DEF PeerStates
    <2> QED BY <2>1, <2>2, Constants DEF PeerStates
  <1> QED BY <1>1, <1>2, <1>3, Constants DEF PeerStates

\* The state a first datagram leaves is well typed.
LEMMA NewStateType ==
    ASSUME NEW s \in 1..MaxSeq, NEW t \in 0..MaxTime
    PROVE  NewState(s, t) \in PeerStates
  BY Constants DEF NewState, PeerStates

\* The empty filter satisfies the invariant.
LEMMA InitInv == FilterInit => FilterInv
  BY Constants DEF FilterInit, FilterInv, TypeOK, HeadersOrdered, StampAtMaxIsHighest,
     StateWitnessed, RemembersCurrentRun

\* Minting a header: its stamp is above those of earlier runs and not below those
\* of its own run.
LEMMA SendInv ==
    ASSUME FilterInv, NEW p \in Senders, Send(p)
    PROVE  FilterInv'
  <1> USE DEF FilterInv
  <1>1. PICK physical \in Larger(now - Backstep, 0)..now :
          /\ floor' = [floor EXCEPT ![p] = NextStamp(p, physical)]
          /\ sent' = sent \cup {[sender |-> p, run |-> run[p], seq |-> seq[p],
                                 stamp |-> NextStamp(p, physical)]}
    BY Zenon DEF Send
  <1> DEFINE stamp == NextStamp(p, physical)
             new == [sender |-> p, run |-> run[p], seq |-> seq[p], stamp |-> stamp]
  <1>2. /\ stamp \in 0..MaxTime /\ stamp >= floor[p] /\ stamp + Backstep >= now
        /\ physical \in Nat
    BY <1>1, Constants DEF TypeOK, NextStamp, Larger
  <1>3. seq[p] \in 1..MaxSeq /\ new \in Datagrams
    BY <1>2, Constants DEF Send, TypeOK, Datagrams
  <1>4. UNCHANGED <<now, run, peers, accepted>> /\ seq' = [seq EXCEPT ![p] = @ + 1]
    BY Zenon DEF Send
  <1> HIDE DEF stamp
  <1>5. floor' = [floor EXCEPT ![p] = stamp] /\ sent' = sent \cup {new}
    BY <1>1, Zenon DEF stamp
  <1>6. TypeOK'
    BY <1>2, <1>3, <1>4, <1>5, Constants DEF TypeOK
  <1>7. HeadersOrdered'
    <2>1. \A d \in sent : d \in Datagrams
      BY Zenon DEF TypeOK
    <2>2. \A d \in sent' :
            /\ d.run <= run'[d.sender]
            /\ d.run = run'[d.sender] => d.seq < seq'[d.sender] /\ d.stamp <= floor'[d.sender]
            /\ d.run < run'[d.sender] => d.stamp + Backstep < now'
      BY <1>2, <1>3, <1>4, <1>5, <2>1, Constants DEF HeadersOrdered, TypeOK, Datagrams
    <2>3. ASSUME NEW d \in sent', NEW e \in sent', d.sender = e.sender,
                 e.run = run'[e.sender]
          PROVE  /\ d.run < e.run => d.stamp < e.stamp
                 /\ (d.run = e.run /\ d.seq < e.seq) => d.stamp <= e.stamp
                 /\ (d.run = e.run /\ d.seq = e.seq) => d = e
      <3>1. CASE d \in sent /\ e \in sent
        BY <1>4, <2>3, <3>1, Zenon DEF HeadersOrdered
      <3>2. CASE d \in sent /\ e = new
        BY <1>2, <1>3, <1>4, <2>1, <2>3, <3>2, Constants, SMTT(30) DEF HeadersOrdered, TypeOK, Datagrams
      <3>3. CASE d = new /\ e \in sent
        BY <1>2, <1>3, <1>4, <2>1, <2>3, <3>3, Constants, SMTT(30) DEF HeadersOrdered, TypeOK, Datagrams
      <3>4. CASE d = new /\ e = new
        BY <1>2, <1>3, <3>4, Constants DEF TypeOK, Datagrams
      <3> QED BY <1>5, <3>1, <3>2, <3>3, <3>4, Zenon
    <2> QED BY <2>2, <2>3, Zenon DEF HeadersOrdered
  <1>8. StampAtMaxIsHighest' /\ StateWitnessed' /\ RemembersCurrentRun'
    BY <1>4, Zenon DEF StampAtMaxIsHighest, StateWitnessed, RemembersCurrentRun, Alive
  <1> QED BY <1>6, <1>7, <1>8, Zenon

\* A restart makes every datagram so far one of an earlier run, and leaves a gap of
\* Backstep above their stamps.
LEMMA RestartInv ==
    ASSUME FilterInv, NEW p \in Senders, RestartSender(p)
    PROVE  FilterInv'
  <1> USE DEF FilterInv
  <1>1. \A d \in sent : d \in Datagrams
    BY Zenon DEF TypeOK
  <1>2. /\ UNCHANGED <<now, sent, peers, accepted>>
        /\ run' = [run EXCEPT ![p] = @ + 1]
        /\ seq' = [seq EXCEPT ![p] = 1]
        /\ floor' = [floor EXCEPT ![p] = 0]
        /\ now > floor[p] + Backstep /\ run[p] < MaxRuns
    BY Zenon DEF RestartSender
  <1>3. TypeOK'
    BY <1>2, Constants DEF TypeOK
  <1>4. HeadersOrdered'
    BY <1>1, <1>2, Constants DEF HeadersOrdered, TypeOK, Datagrams
  <1>5. StampAtMaxIsHighest' /\ StateWitnessed'
    BY <1>2, Zenon DEF StampAtMaxIsHighest, StateWitnessed
  <1>6. RemembersCurrentRun'
    BY <1>1, <1>2, Constants DEF RemembersCurrentRun, HeadersOrdered, TypeOK, Datagrams, Alive
  <1> QED BY <1>3, <1>4, <1>5, <1>6, Zenon

\* As time passes a datagram becomes stale no later than the state that records it.
LEMMA TickInv ==
    ASSUME FilterInv, PassTime
    PROVE  FilterInv'
  <1> USE DEF FilterInv
  <1>1. /\ UNCHANGED <<run, seq, floor, sent, peers, accepted>>
        /\ now' = now + 1 /\ now < MaxTime
    BY Zenon DEF PassTime
  <1>2. TypeOK'
    BY <1>1, Constants DEF TypeOK
  <1>3. HeadersOrdered'
    BY <1>1, Constants DEF HeadersOrdered, TypeOK, Datagrams
  <1>4. StampAtMaxIsHighest' /\ StateWitnessed'
    BY <1>1, Zenon DEF StampAtMaxIsHighest, StateWitnessed
  <1>5. RemembersCurrentRun'
    <2> SUFFICES ASSUME NEW d \in accepted, d.run = run[d.sender],
                        Age(d.stamp, now + 1) <= Freshness
                 PROVE  /\ peers[d.sender] # None
                        /\ Age(peers[d.sender].stamp_at_max, now + 1) <= Freshness
                        /\ LET st == peers[d.sender]
                           IN  /\ d.seq <= st.max_seq
                               /\ d.stamp <= st.stamp_at_max
                               /\ st.max_seq - d.seq >= Window
                                    \/ st.max_seq - d.seq \in st.bitmap
      BY <1>1, Zenon DEF RemembersCurrentRun, Alive
    <2>1. d \in Datagrams /\ d.sender \in Senders /\ d.stamp \in Nat /\ now \in Nat
      BY DEF TypeOK, Datagrams
    <2>2. now + 1 <= d.stamp + Freshness
      BY <2>1, AgeMeaning, now + 1 \in Nat, Zenon
    <2>3. Age(d.stamp, now) <= Freshness
      BY <2>1, <2>2, AgeMeaning, Constants
    <2>4. /\ Alive(d.sender)
          /\ d.stamp <= peers[d.sender].stamp_at_max
      BY <2>3, Zenon DEF RemembersCurrentRun
    <2>5. peers[d.sender] \in PeerStates /\ peers[d.sender].stamp_at_max \in Nat
      BY <2>1, <2>4 DEF Alive, TypeOK, PeerStates
    <2>6. Age(peers[d.sender].stamp_at_max, now + 1) <= Freshness
      BY <2>1, <2>2, <2>4, <2>5, AgeMeaning, Constants
    <2> QED BY <2>3, <2>4, <2>6, Zenon DEF RemembersCurrentRun, Alive
  <1> QED BY <1>2, <1>3, <1>4, <1>5, Zenon

\* What every delivery preserves: the senders are untouched, and if the new state of
\* the sender is well typed, agrees in its stamps and was left by an accepted
\* datagram, only the memory of the current run remains to be shown.
LEMMA RecordInv ==
    ASSUME FilterInv, NEW d \in sent, NEW state \in PeerStates, NEW kept,
           Record(d, state, kept), Senders \subseteq kept \/ kept = Others(d),
           state.stamp_at_max = state.max_stamp_seen,
           Age(state.stamp_at_max, now) <= Freshness,
           \E e \in accepted \cup {d} : /\ e.sender = d.sender
                                        /\ e.seq = state.max_seq
                                        /\ e.stamp = state.stamp_at_max,
           \A e \in accepted \cup {d} :
              (e.sender = d.sender /\ e.run = run[d.sender] /\ Age(e.stamp, now) <= Freshness) =>
                  /\ e.seq <= state.max_seq
                  /\ e.stamp <= state.stamp_at_max
                  /\ state.max_seq - e.seq >= Window \/ state.max_seq - e.seq \in state.bitmap
    PROVE  FilterInv'
  <1> USE Zenon
  <1> USE DEF FilterInv
  <1>1. d.sender \in Senders
    BY DEF TypeOK, Datagrams
  <1>2. /\ UNCHANGED <<now, run, seq, floor, sent>>
        /\ accepted' = accepted \cup {d}
        /\ peers' = [p \in Senders |-> IF p = d.sender THEN state
                                       ELSE IF p \in kept THEN peers[p] ELSE None]
    BY DEF Record
  <1>3. peers'[d.sender] = state /\ state # None
    BY <1>1, <1>2, NoState
  <1>4. \A p \in Senders : p # d.sender =>
          /\ peers'[p] = peers[p] \/ peers'[p] = None
          /\ Alive(p) => peers'[p] = peers[p]
    BY <1>2 DEF Others
  <1>5. TypeOK'
    BY <1>2 DEF TypeOK
  <1>6. HeadersOrdered'
    BY <1>2 DEF HeadersOrdered
  <1>7. StampAtMaxIsHighest' /\ StateWitnessed'
    <2>1. ASSUME NEW p \in Senders, peers'[p] # None
          PROVE  /\ peers'[p].stamp_at_max = peers'[p].max_stamp_seen
                 /\ \E e \in accepted' : /\ e.sender = p
                                         /\ e.seq = peers'[p].max_seq
                                         /\ e.stamp = peers'[p].stamp_at_max
      <3>1. CASE p = d.sender
        BY <1>2, <1>3, <3>1
      <3>2. CASE p # d.sender
        BY <1>2, <1>4, <2>1, <3>2 DEF StampAtMaxIsHighest, StateWitnessed
      <3> QED BY <3>1, <3>2
    <2> QED BY <2>1 DEF StampAtMaxIsHighest, StateWitnessed
  <1>8. RemembersCurrentRun'
    <2> SUFFICES ASSUME NEW e \in accepted \cup {d}, e.run = run[e.sender],
                        Age(e.stamp, now) <= Freshness
                 PROVE  /\ peers'[e.sender] # None
                        /\ Age(peers'[e.sender].stamp_at_max, now) <= Freshness
                        /\ LET st == peers'[e.sender]
                           IN  /\ e.seq <= st.max_seq
                               /\ e.stamp <= st.stamp_at_max
                               /\ st.max_seq - e.seq >= Window
                                    \/ st.max_seq - e.seq \in st.bitmap
      BY <1>2 DEF RemembersCurrentRun, Alive
    <2>1. CASE e.sender = d.sender
      BY <1>3, <2>1
    <2>2. CASE e.sender # d.sender
      <3>1. e \in accepted /\ e.sender \in Senders
        BY <2>2 DEF TypeOK, Datagrams
      <3>2. Alive(e.sender)
        BY <3>1 DEF RemembersCurrentRun
      <3>3. peers'[e.sender] = peers[e.sender]
        BY <1>4, <2>2, <3>1, <3>2
      <3> QED BY <3>1, <3>3 DEF RemembersCurrentRun, Alive
    <2> QED BY <2>1, <2>2
  <1> QED BY <1>5, <1>6, <1>7, <1>8

\* A reset forgets no fresh datagram of the current run: had one been accepted,
\* the datagram at max_seq would be of the current run as well, and what caused the
\* reset would be both below it in sequence and above it in time.
LEMMA ResetForgetsNothing ==
    ASSUME FilterInv, NEW d \in sent, Alive(d.sender),
           d.seq <= peers[d.sender].max_seq,
           d.stamp > peers[d.sender].stamp_at_max,
           NEW e \in accepted, e.sender = d.sender, e.run = run[d.sender],
           Age(e.stamp, now) <= Freshness
    PROVE  FALSE
  <1> USE DEF FilterInv
  <1> DEFINE st == peers[d.sender]
  <1>1. d \in Datagrams /\ e \in sent /\ e \in Datagrams /\ d.sender \in Senders
    BY Zenon DEF TypeOK, Datagrams
  <1>2. st \in PeerStates
    BY <1>1, Zenon DEF TypeOK, Alive
  <1>3. PICK m \in accepted : /\ m.sender = d.sender
                              /\ m.seq = st.max_seq /\ m.stamp = st.stamp_at_max
    BY <1>1, Zenon DEF StateWitnessed, Alive
  <1>4. m \in sent /\ m \in Datagrams
    BY Zenon DEF TypeOK
  <1>5. e.stamp <= m.stamp
    BY <1>1, <1>3, Zenon DEF RemembersCurrentRun
  <1>6. m.run = run[d.sender]
    BY <1>1, <1>3, <1>4, <1>5, Constants, SMTT(30) DEF HeadersOrdered, Datagrams, TypeOK
  <1>7. d.run = run[d.sender]
    BY <1>1, <1>3, <1>4, <1>5, <1>6, Constants DEF HeadersOrdered, Datagrams, TypeOK
  <1> QED
    BY <1>1, <1>3, <1>4, <1>6, <1>7, Constants DEF HeadersOrdered, Datagrams, TypeOK

\* A datagram from a sender with live state.
LEMMA ReceiveKnownInv ==
    ASSUME FilterInv, NEW d \in sent, ReceiveKnown(d)
    PROVE  FilterInv'
  <1> USE DEF FilterInv
  <1> DEFINE st == peers[d.sender]
             new == Accept(st, d.seq, d.stamp)
  <1>1. /\ Fresh(d.stamp) /\ Alive(d.sender)
        /\ new # None /\ Record(d, new, Senders)
    BY Zenon DEF ReceiveKnown
  <1>2. /\ d \in Datagrams /\ d.sender \in Senders /\ d.seq \in 1..MaxSeq
        /\ d.stamp \in 0..MaxTime /\ now \in Nat
    BY DEF TypeOK, Datagrams
  <1>3. st \in PeerStates /\ st.stamp_at_max = st.max_stamp_seen
    BY <1>1, <1>2, Zenon DEF TypeOK, Alive, StampAtMaxIsHighest
  <1>4. /\ new \in PeerStates /\ new.stamp_at_max = new.max_stamp_seen
        /\ new.stamp_at_max >= st.stamp_at_max
    BY <1>1, <1>2, <1>3, AcceptState, Zenon
  <1>5. \A e \in accepted : e \in Datagrams
    BY Zenon DEF TypeOK
  <1> DEFINE Remembered(e) ==
               /\ e.seq <= new.max_seq
               /\ e.stamp <= new.stamp_at_max
               /\ new.max_seq - e.seq >= Window \/ new.max_seq - e.seq \in new.bitmap
             Old(e) == /\ e.sender = d.sender /\ e.run = run[d.sender]
                       /\ Age(e.stamp, now) <= Freshness
  <1>6. ASSUME NEW e \in accepted, Old(e)
        PROVE  /\ e.seq <= st.max_seq
               /\ e.stamp <= st.stamp_at_max
               /\ st.max_seq - e.seq >= Window \/ st.max_seq - e.seq \in st.bitmap
               /\ e.seq \in Nat /\ e.stamp \in Nat
    BY <1>5, <1>6, Constants DEF RemembersCurrentRun, Datagrams
  <1>7. st.max_seq \in Nat /\ st.bitmap \subseteq 0..(Window - 1)
        /\ st.stamp_at_max \in Nat /\ d.seq \in Nat /\ d.stamp \in Nat
    BY <1>2, <1>3, Constants, SMTT(30) DEF PeerStates
  <1> HIDE DEF new
  <1>8. /\ \E e \in accepted \cup {d} : /\ e.sender = d.sender
                                        /\ e.seq = new.max_seq
                                        /\ e.stamp = new.stamp_at_max
        /\ Remembered(d)
        /\ \A e \in accepted : Old(e) => Remembered(e)
    <2>1. CASE d.seq > st.max_seq
      <3>1. /\ new = [max_seq |-> d.seq, stamp_at_max |-> d.stamp,
                      max_stamp_seen |-> Larger(st.max_stamp_seen, d.stamp),
                      bitmap |-> Advance(st.bitmap, d.seq - st.max_seq)]
            /\ d.stamp >= st.max_stamp_seen
        BY <1>1, <1>7, <1>3, <2>1 DEF new, Accept, Ahead, PeerStates
      <3>2. 0 \in new.bitmap
        BY <3>1, Zenon DEF Advance
      <3>3. ASSUME NEW e \in accepted, Old(e)
            PROVE  Remembered(e)
        <4>1. e.seq <= new.max_seq /\ e.stamp <= new.stamp_at_max
          BY <1>3, <1>6, <1>7, <2>1, <3>1, <3>3
        <4>2. CASE d.seq - e.seq >= Window
          BY <3>1, <4>1, <4>2, Zenon
        <4>3. CASE d.seq - e.seq < Window
          <5>1. /\ st.max_seq - e.seq \in st.bitmap
                /\ d.seq - e.seq \in (d.seq - st.max_seq)..(Window - 1)
                /\ (d.seq - e.seq) - (d.seq - st.max_seq) = st.max_seq - e.seq
            BY <1>6, <1>7, <2>1, <3>3, <4>3, Constants
          <5>2. d.seq - e.seq \in Advance(st.bitmap, d.seq - st.max_seq)
            BY <5>1, Zenon DEF Advance
          <5> QED BY <3>1, <4>1, <5>2, Zenon
        <4> QED BY <1>6, <1>7, <3>3, <4>2, <4>3, Constants, SMTT(30)
      <3> QED BY <1>7, <3>1, <3>2, <3>3, SMTT(30)
    <2>2. CASE d.seq <= st.max_seq /\ d.stamp > st.stamp_at_max
      <3>1. new = [max_seq |-> d.seq, stamp_at_max |-> d.stamp,
                   max_stamp_seen |-> Larger(st.max_stamp_seen, d.stamp),
                   bitmap |-> {0}]
        BY <1>7, <2>2 DEF new, Accept, Behind, Reset
      <3>2. \A e \in accepted : ~Old(e)
        BY <1>1, <2>2, ResetForgetsNothing, Zenon
      <3> QED BY <1>7, <3>1, <3>2
    <2>3. CASE d.seq <= st.max_seq /\ ~(d.stamp > st.stamp_at_max)
      <3>1. new = [st EXCEPT !.bitmap = @ \cup {st.max_seq - d.seq}]
        BY <1>1, <1>7, <2>3 DEF new, Accept, Behind
      <3>2. /\ new.max_seq = st.max_seq /\ new.stamp_at_max = st.stamp_at_max
            /\ new.bitmap = st.bitmap \cup {st.max_seq - d.seq}
        BY <1>3, <3>1, Zenon DEF PeerStates
      <3>3. \E e \in accepted : /\ e.sender = d.sender
                                /\ e.seq = st.max_seq /\ e.stamp = st.stamp_at_max
        BY <1>1, <1>2, Zenon DEF StateWitnessed, Alive
      <3> QED BY <1>6, <1>7, <2>3, <3>2, <3>3, SMTT(30)
    <2> QED BY <1>7, <2>1, <2>2, <2>3, SMTT(30)
  <1>9. Age(new.stamp_at_max, now) <= Freshness
    <2>1. new.stamp_at_max \in Nat
      BY <1>4, Constants DEF PeerStates
    <2>2. now <= st.stamp_at_max + Freshness
      BY <1>1, <1>2, <1>7, AgeMeaning, Zenon DEF Alive
    <2> QED BY <1>2, <1>4, <1>7, <2>1, <2>2, AgeMeaning, Constants, SMTT(30)
  <1>10. \A e \in accepted \cup {d} : Old(e) => Remembered(e)
    BY <1>8, Zenon
  <1> QED BY <1>1, <1>4, <1>8, <1>9, <1>10, RecordInv, Zenon

\* A datagram that founds new state: its sender had no live state, so nothing fresh
\* of its current run had been accepted.
LEMMA FirstDatagramInv ==
    ASSUME FilterInv, NEW d \in sent, Fresh(d.stamp), ~Alive(d.sender), NEW kept,
           Record(d, NewState(d.seq, d.stamp), kept),
           Senders \subseteq kept \/ kept = Others(d)
    PROVE  FilterInv'
  <1> USE DEF FilterInv
  <1>1. d.seq \in 1..MaxSeq /\ d.stamp \in 0..MaxTime
    BY Zenon DEF TypeOK, Datagrams
  <1>2. \A e \in accepted : ~(/\ e.sender = d.sender /\ e.run = run[d.sender]
                              /\ Age(e.stamp, now) <= Freshness)
    BY Zenon DEF RemembersCurrentRun
  <1> DEFINE state == NewState(d.seq, d.stamp)
  <1>3. state \in PeerStates
    BY <1>1, NewStateType, Zenon
  <1>4. /\ state.max_seq = d.seq /\ state.stamp_at_max = d.stamp
        /\ state.max_stamp_seen = d.stamp /\ state.bitmap = {0}
    BY Zenon DEF NewState
  <1>5. d.seq \in Nat /\ d.stamp \in Nat /\ d.seq - d.seq = 0
    BY <1>1, Constants
  <1>6. Age(d.stamp, now) <= Freshness
    BY Zenon DEF Fresh
  <1> HIDE DEF state
  <1>7. \A e \in accepted \cup {d} :
          (e.sender = d.sender /\ e.run = run[d.sender] /\ Age(e.stamp, now) <= Freshness) =>
              /\ e.seq <= state.max_seq
              /\ e.stamp <= state.stamp_at_max
              /\ state.max_seq - e.seq >= Window \/ state.max_seq - e.seq \in state.bitmap
    BY <1>2, <1>4, <1>5
  <1>8. Record(d, state, kept)
    BY Zenon DEF state
  <1> QED BY <1>3, <1>4, <1>6, <1>7, <1>8, RecordInv, Zenon

\* Purging stale state for a datagram that is refused.
LEMMA RefuseInv ==
    ASSUME FilterInv, NEW d \in sent, RefuseAtCapacity(d)
    PROVE  FilterInv'
  <1> USE Zenon
  <1> USE DEF FilterInv
  <1>1. /\ UNCHANGED <<now, run, seq, floor, sent, accepted>>
        /\ peers' = [p \in Senders |-> IF p \in Others(d) THEN peers[p] ELSE None]
        /\ ~Alive(d.sender)
    BY DEF RefuseAtCapacity
  <1>2. \A p \in Senders : /\ peers'[p] = peers[p] \/ peers'[p] = None
                           /\ Alive(p) => peers'[p] = peers[p]
    BY <1>1 DEF Others
  <1>3. TypeOK' /\ HeadersOrdered' /\ StampAtMaxIsHighest' /\ StateWitnessed'
    <2>1. TypeOK'
      BY <1>1 DEF TypeOK
    <2>2. HeadersOrdered'
      BY <1>1 DEF HeadersOrdered
    <2>3. StampAtMaxIsHighest'
      BY <1>2 DEF StampAtMaxIsHighest
    <2>4. StateWitnessed'
      BY <1>1, <1>2 DEF StateWitnessed
    <2> QED BY <2>1, <2>2, <2>3, <2>4
  <1>4. RemembersCurrentRun'
    <2>1. \A e \in accepted : e.sender \in Senders
      BY DEF TypeOK, Datagrams
    <2> QED BY <1>1, <1>2, <2>1 DEF RemembersCurrentRun, Alive
  <1> QED BY <1>3, <1>4

\* The invariant holds in every reachable state.
THEOREM FilterInvariance == FilterSpec => []FilterInv
  <1>1. FilterInit => FilterInv
    BY InitInv, Zenon
  <1>2. FilterInv /\ [FilterNext]_filterVars => FilterInv'
    <2> SUFFICES ASSUME FilterInv, [FilterNext]_filterVars PROVE FilterInv'
      OBVIOUS
    <2>1. ASSUME NEW p \in Senders, Send(p) PROVE FilterInv'
      BY <2>1, SendInv, Zenon
    <2>2. ASSUME NEW p \in Senders, RestartSender(p) PROVE FilterInv'
      BY <2>2, RestartInv, Zenon
    <2>3. ASSUME NEW d \in sent, AcceptDatagram(d) PROVE FilterInv'
      <3> USE Zenon
      <3>1. CASE ReceiveKnown(d)
        BY <3>1, ReceiveKnownInv
      <3>2. CASE ReceiveNew(d)
        BY <3>2, FirstDatagramInv DEF ReceiveNew
      <3>3. CASE ReceiveAfterPurge(d)
        BY <3>3, FirstDatagramInv, ZenonT(60) DEF ReceiveAfterPurge
      <3> QED BY <2>3, <3>1, <3>2, <3>3 DEF AcceptDatagram
    <2>4. ASSUME NEW d \in sent, RefuseAtCapacity(d) PROVE FilterInv'
      BY <2>4, RefuseInv, Zenon
    <2>5. CASE PassTime
      BY <2>5, TickInv, Zenon
    <2>6. CASE UNCHANGED filterVars
      BY <2>6 DEF filterVars, FilterInv, TypeOK, HeadersOrdered, StampAtMaxIsHighest,
         StateWitnessed, RemembersCurrentRun, Alive
    <2> QED BY <2>1, <2>2, <2>3, <2>4, <2>5, <2>6, Zenon DEF FilterNext, DropDatagram
  <1> QED BY <1>1, <1>2, PTL DEF FilterSpec

\* The fields of every variable stay in range: in particular no bit of a bitmap is
\* ever outside the window.
THEOREM FilterTypes == FilterSpec => []TypeOK
  <1>1. FilterInv => TypeOK
    BY Zenon DEF FilterInv
  <1> QED BY <1>1, FilterInvariance, PTL

\* Whatever the network duplicates and reorders, whatever restarts and purges
\* happen, a datagram of a sender's current run that was accepted is dropped when
\* it arrives again.
THEOREM AcceptedOnce == FilterSpec => []AcceptedOncePerRun
  <1>1. FilterInv => AcceptedOncePerRun
    <2> USE DEF FilterInv
    <2> SUFFICES ASSUME FilterInv, NEW d \in accepted, d.run = run[d.sender],
                        Fresh(d.stamp)
                 PROVE  Alive(d.sender) /\ Accept(peers[d.sender], d.seq, d.stamp) = None
      BY Zenon DEF AcceptedOncePerRun
    <2> DEFINE st == peers[d.sender]
    <2>1. d \in Datagrams /\ d.sender \in Senders
      BY Zenon DEF TypeOK, Datagrams
    <2>2. /\ Alive(d.sender)
          /\ d.seq <= st.max_seq /\ d.stamp <= st.stamp_at_max
          /\ st.max_seq - d.seq >= Window \/ st.max_seq - d.seq \in st.bitmap
      BY Zenon DEF RemembersCurrentRun, Fresh
    <2>3. st \in PeerStates
      BY <2>1, <2>2, Zenon DEF TypeOK, Alive
    <2> QED BY <2>1, <2>2, <2>3, Constants DEF Accept, Behind, PeerStates, Datagrams
  <1> QED BY <1>1, FilterInvariance, PTL

\* Restart detection and the tail guard of PeerState::accept use the same mark.
THEOREM MarksAgree == FilterSpec => []StampAtMaxIsHighest
  <1>1. FilterInv => StampAtMaxIsHighest
    BY Zenon DEF FilterInv
  <1> QED BY <1>1, FilterInvariance, PTL

\* The first datagram of a new run that arrives is never taken for a late one of the
\* old run, whatever its sequence number.
THEOREM RestartAdmitted == FilterSpec => []RestartIsAdmitted
  <1>1. FilterInv => RestartIsAdmitted
    <2> USE DEF FilterInv
    <2> SUFFICES ASSUME FilterInv, NEW p \in Senders, Alive(p), NEW d \in sent,
                        d.sender = p, d.run = run[p],
                        \A e \in accepted : ~(e.sender = p /\ e.run = run[p])
                 PROVE  Accept(peers[p], d.seq, d.stamp) # None
      BY Zenon DEF RestartIsAdmitted
    <2> DEFINE st == peers[p]
    <2>1. st \in PeerStates /\ st.stamp_at_max = st.max_stamp_seen
      BY Zenon DEF TypeOK, Alive, StampAtMaxIsHighest
    <2>2. PICK m \in accepted : m.sender = p /\ m.seq = st.max_seq /\ m.stamp = st.stamp_at_max
      BY Zenon DEF StateWitnessed, Alive
    <2>3. m \in sent /\ m \in Datagrams /\ d \in Datagrams /\ m.run # run[p]
      BY <2>2, Zenon DEF TypeOK
    <2>4. d.stamp > st.stamp_at_max
      BY <2>2, <2>3, Constants DEF HeadersOrdered, Datagrams, TypeOK
    <2>5. d.stamp \in Nat /\ st.stamp_at_max \in Nat /\ d.seq \in Nat /\ st.max_seq \in Nat
      BY <2>1, <2>3, Constants DEF Datagrams, PeerStates
    <2>6. Accept(st, d.seq, d.stamp) \in PeerStates
      <3>1. CASE d.seq > st.max_seq
        <4>1. Accept(st, d.seq, d.stamp)
                = [max_seq |-> d.seq, stamp_at_max |-> d.stamp,
                   max_stamp_seen |-> Larger(st.max_stamp_seen, d.stamp),
                   bitmap |-> Advance(st.bitmap, d.seq - st.max_seq)]
          BY <2>1, <2>4, <2>5, <3>1 DEF Accept, Ahead
        <4>2. Advance(st.bitmap, d.seq - st.max_seq) \in SUBSET (0..(Window - 1))
          BY <2>5, <3>1, Constants DEF Advance
        <4>3. Larger(st.max_stamp_seen, d.stamp) \in 0..MaxTime
          BY <2>1, <2>3, Zenon DEF Larger, PeerStates, Datagrams
        <4> QED BY <2>3, <4>1, <4>2, <4>3, SMTT(30) DEF PeerStates, Datagrams
      <3>2. CASE d.seq <= st.max_seq
        <4>1. Accept(st, d.seq, d.stamp) = Reset(st, d.seq, d.stamp)
          BY <2>4, <2>5, <3>2, SMTT(30) DEF Accept, Behind
        <4>2. Reset(st, d.seq, d.stamp) \in PeerStates
          BY <2>1, <2>3, <2>5, Constants DEF Reset, PeerStates, Datagrams, Larger
        <4> QED BY <4>1, <4>2, Zenon
      <3> QED BY <2>5, <3>1, <3>2, SMTT(30)
    <2> QED BY <2>6, NoState, Zenon
  <1> QED BY <1>1, FilterInvariance, PTL

\* Making room at capacity never drops or rewinds state that is still fresh.
THEOREM FreshStateKept == FilterSpec => FreshStateIsKept
  <1> DEFINE Stays == \A p \in Senders : Alive(p) =>
               peers'[p] # None /\ peers'[p].max_stamp_seen >= peers[p].max_stamp_seen
  <1>1. FilterInv /\ [FilterNext]_filterVars => [Stays]_filterVars
    <2> SUFFICES ASSUME FilterInv, FilterNext, NEW p \in Senders, Alive(p)
                 PROVE  /\ peers'[p] # None
                        /\ peers'[p].max_stamp_seen >= peers[p].max_stamp_seen
      OBVIOUS
    <2> USE DEF FilterInv
    <2>1. /\ peers[p] \in PeerStates /\ peers[p] # None
          /\ peers[p].max_stamp_seen = peers[p].stamp_at_max
          /\ peers[p].max_stamp_seen \in Nat
      BY Constants DEF TypeOK, Alive, PeerStates, StampAtMaxIsHighest
    <2>2. CASE peers'[p] = peers[p]
      BY <2>1, <2>2
    <2>3. ASSUME NEW d \in sent, ReceiveKnown(d), d.sender = p
          PROVE  /\ peers'[p] # None
                 /\ peers'[p].max_stamp_seen >= peers[p].max_stamp_seen
      <3> USE Zenon
      <3>1. peers'[p] = Accept(peers[p], d.seq, d.stamp) /\ peers'[p] # None
        BY <2>3 DEF ReceiveKnown, Record
      <3>2. d.seq \in 1..MaxSeq /\ d.stamp \in 0..MaxTime
        BY DEF TypeOK, Datagrams
      <3> QED BY <2>1, <3>1, <3>2, AcceptState
    <2>4. ASSUME NEW d \in sent, AcceptDatagram(d) \/ RefuseAtCapacity(d) \/ DropDatagram(d),
                 ~(ReceiveKnown(d) /\ d.sender = p)
          PROVE  peers'[p] = peers[p]
      BY <2>4, Zenon DEF AcceptDatagram, ReceiveKnown, ReceiveNew, ReceiveAfterPurge, RefuseAtCapacity,
         DropDatagram, Record, Others, filterVars
    <2>5. ASSUME NEW q \in Senders, Send(q) \/ RestartSender(q)
          PROVE  peers' = peers
      BY <2>5, Zenon DEF Send, RestartSender
    <2>6. PassTime => peers' = peers
      BY Zenon DEF PassTime
    <2> QED BY <2>2, <2>3, <2>4, <2>5, <2>6, Zenon DEF FilterNext
  <1> QED BY <1>1, FilterInvariance, PTL DEF FilterSpec, FreshStateIsKept
==============================================================================
