--------------------------- MODULE TransferProofs ----------------------------
(***************************************************************************)
(* Transfers between nodes, for every value of the constants: what the     *)
(* nodes retain and what they may resend is accounted for and within the   *)
(* limits, and a report names exactly what is missing.                     *)
(***************************************************************************)
EXTENDS ReassemblyProofs

(***************************************************************************)
(* The recovery book.                                                      *)
(***************************************************************************)
\* Its type, its counter, its limits.
BookShape(B) == B \in [out : [Messages -> Entry \cup {None}], bytes : [Nodes -> Nat]]
Booked(B) == \A n \in Nodes : B.bytes[n] = OutBytes(Out(B, n))
BookWithin(B, s) ==
    \A n \in Nodes :
        /\ B.bytes[n] <= s.book_total /\ Cardinality(Out(B, n)) <= s.book_total_transfers
        /\ \A p \in Nodes : /\ Cardinality(OutTo(B, n, p)) <= s.book_transfers
                            /\ OutBytes(OutTo(B, n, p)) <= s.book_peer
BookOK(B, s) == BookShape(B) /\ Booked(B) /\ BookWithin(B, s)

\* The bytes of a set of messages are a natural number, that splits along the set.
LEMMA OutBytesSplit ==
    ASSUME NEW V \in SUBSET Messages, NEW W \in SUBSET V
    PROVE  /\ OutBytes(V) = OutBytes(W) + OutBytes(V \ W)
           /\ OutBytes(V) \in Nat /\ OutBytes(W) \in Nat /\ OutBytes(V \ W) \in Nat
  <1> DEFINE w(S) == [m \in S |-> Size[m]]
  <1>1. ASSUME NEW S \in SUBSET Messages PROVE w(S) \in [S -> Nat] /\ IsFiniteSet(S)
    BY MessageEnds, Finite
  <1>2. [m \in W |-> w(V)[m]] = w(W) /\ [m \in V \ W |-> w(V)[m]] = w(V \ W)
    BY Zenon
  <1>3. \A S : OutBytes(S) = Total(w(S))
    BY Zenon DEF OutBytes
  <1> HIDE DEF w
  <1>4. W \in SUBSET Messages /\ V \ W \in SUBSET Messages
    BY Zenon
  <1>5. ASSUME NEW S \in SUBSET Messages PROVE Total(w(S)) \in Nat
    BY <1>1, TotalType, Zenon
  <1>6. Total(w(V)) = Total([m \in W |-> w(V)[m]]) + Total([m \in V \ W |-> w(V)[m]])
    <2> USE Zenon
    <2> DEFINE u == w(V)
    <2>1. u \in [V -> Nat] /\ IsFiniteSet(V)
      BY <1>1
    <2> HIDE DEF u
    <2>2. Total(u) = Total([m \in W |-> u[m]]) + Total([m \in V \ W |-> u[m]])
      BY <2>1, TotalSplit, ZenonT(60)
    <2> QED BY <2>2 DEF u
  <1>7. Total(w(V)) = Total(w(W)) + Total(w(V \ W))
    BY <1>2, <1>6, Zenon
  <1> QED BY <1>3, <1>4, <1>5, <1>7, Zenon

\* The bytes of one message, and of none.
LEMMA OutBytesOne ==
    ASSUME NEW m \in Messages
    PROVE  OutBytes({m}) = Size[m]
  <1>1. Size[m] \in Nat
    BY MessageEnds
  <1>2. [x \in {m} |-> Size[x]] = [x \in {m} |-> Size[m]]
    BY Zenon
  <1>3. Total([x \in {m} |-> Size[m]]) = Size[m]
    BY <1>1, TotalOne, Zenon
  <1> QED BY <1>2, <1>3, Zenon DEF OutBytes

\* Nothing out, no bytes.
LEMMA OutBytesNone == OutBytes({}) = 0
  <1>1. [x \in {} |-> Size[x]] \in [{} -> Nat]
    BY Zenon
  <1> QED BY <1>1, TotalNone, Zenon DEF OutBytes

\* Subtracting what W holds leaves what the others hold.
LEMMA OutSubtract ==
    ASSUME NEW V \in SUBSET Messages, NEW W \in SUBSET V
    PROVE  /\ Monus(OutBytes(V), OutBytes(W)) = OutBytes(V \ W)
           /\ OutBytes(V \ W) = OutBytes(V) - OutBytes(W)
           /\ OutBytes(V \ W) <= OutBytes(V)
           /\ OutBytes(V \ W) \in Nat
  <1> DEFINE a == OutBytes(V)
             b == OutBytes(W)
             c == OutBytes(V \ W)
  <1>1. a = b + c /\ a \in Nat /\ b \in Nat /\ c \in Nat
    BY OutBytesSplit, Zenon
  <1> HIDE DEF a, b, c
  <1>2. Monus(a, b) = c /\ c = a - b /\ c <= a
    BY <1>1 DEF Monus
  <1> QED BY <1>1, <1>2, Zenon DEF a, b, c

\* What BookShape says.
LEMMA BookShaped ==
    ASSUME NEW B, BookShape(B)
    PROVE  /\ B.out \in [Messages -> Entry \cup {None}] /\ B.bytes \in [Nodes -> Nat]
           /\ \A m \in Messages : B.out[m] # None => B.out[m] \in Entry
           /\ \A n \in Nodes : B.bytes[n] \in Nat
  <1>1. B.out \in [Messages -> Entry \cup {None}] /\ B.bytes \in [Nodes -> Nat]
    BY Zenon DEF BookShape
  <1> QED BY <1>1, Zenon

\* C is B without the transfers V of a sender.
Struck(B, C, n, V) ==
    /\ BookShape(C) /\ \A m \in Messages : C.out[m] = IF m \in V THEN None ELSE B.out[m]
    /\ C.bytes[n] = OutBytes(Out(B, n) \ V)
    /\ \A k \in Nodes \ {n} : C.bytes[k] = B.bytes[k]

\* The transfers of a sender are messages, and those to a receiver among them.
LEMMA OutAre ==
    ASSUME NEW B, NEW n, NEW p
    PROVE  /\ Out(B, n) \in SUBSET Messages /\ OutTo(B, n, p) \in SUBSET Out(B, n)
           /\ OutTo(B, n, p) \in SUBSET Messages
  BY Zenon DEF Out, OutTo

\* remove, with the bytes that are left.
LEMMA LeaveStruck ==
    ASSUME NEW B, BookShape(B), NEW n \in Nodes, NEW V, NEW a \in Nat, a = OutBytes(Out(B, n) \ V),
           NEW C \in [out : {Drop(B.out, V)}, bytes : {[B.bytes EXCEPT ![n] = a]}]
    PROVE  Struck(B, C, n, V)
  <1> USE Zenon
  <1> DEFINE O == Drop(B.out, V)
             b == [B.bytes EXCEPT ![n] = a]
  <1>1. B.out \in [Messages -> Entry \cup {None}] /\ B.bytes \in [Nodes -> Nat]
    BY BookShaped
  <1>2. /\ O \in [Messages -> Entry \cup {None}]
        /\ \A m \in Messages : O[m] = IF m \in V THEN None ELSE B.out[m]
    BY <1>1 DEF Drop
  <1>3. b \in [Nodes -> Nat] /\ b[n] = a /\ \A k \in Nodes \ {n} : b[k] = B.bytes[k]
    BY <1>1
  <1>4. C \in [out : {O}, bytes : {b}]
    OBVIOUS
  <1> HIDE DEF O, b
  <1>5. C.out = O /\ C.bytes = b /\ BookShape(C)
    BY <1>2, <1>3, <1>4 DEF BookShape
  <1> QED BY <1>2, <1>3, <1>5 DEF Struck

\* remove does that.
LEMMA UnbookStruck ==
    ASSUME NEW B, BookShape(B), Booked(B), NEW n \in Nodes, NEW V \in SUBSET Out(B, n)
    PROVE  Struck(B, Unbook(B, n, V), n, V)
  <1> USE Zenon
  <1>1. CASE V = {}
    <2>1. Unbook(B, n, V) = B /\ Out(B, n) \ V = Out(B, n)
      BY <1>1 DEF Unbook
    <2>2. B.bytes[n] = OutBytes(Out(B, n))
      BY DEF Booked
    <2> QED BY <1>1, <2>1, <2>2 DEF Struck
  <1>2. CASE V # {}
    <2> DEFINE a == Monus(B.bytes[n], OutBytes(V))
               C == Unbook(B, n, V)
    <2>1. V \cap Out(B, n) = V
      OBVIOUS
    <2>2. C = [B EXCEPT !.out = Drop(@, V), !.bytes[n] = Monus(@, OutBytes(V))]
      BY <1>2, <2>1 DEF Unbook
    <2>3. C \in [out : {Drop(B.out, V)}, bytes : {[B.bytes EXCEPT ![n] = a]}]
      BY <2>2 DEF BookShape
    <2>4. Out(B, n) \in SUBSET Messages /\ B.bytes[n] = OutBytes(Out(B, n))
      BY OutAre DEF Booked
    <2>5. /\ Monus(OutBytes(Out(B, n)), OutBytes(V)) = OutBytes(Out(B, n) \ V)
          /\ OutBytes(Out(B, n) \ V) \in Nat
      BY <2>4, OutSubtract
    <2>6. a \in Nat /\ a = OutBytes(Out(B, n) \ V)
      BY <2>4, <2>5
    <2> HIDE DEF a, C
    <2>7. Struck(B, C, n, V)
      BY <2>3, <2>6, LeaveStruck
    <2> QED BY <2>7 DEF C
  <1> QED BY <1>1, <1>2

\* Whose transfers are left.
StillOut(B, C, n, V, k, p) ==
    /\ Out(C, k) = Out(B, k) \ V /\ OutTo(C, k, p) = OutTo(B, k, p) \ V
    /\ k # n => Out(B, k) \ V = Out(B, k)

\* Striking V from the book leaves the other transfers out.
LEMMA StruckOut ==
    ASSUME NEW B, NEW C, NEW n, NEW V \in SUBSET Out(B, n), Struck(B, C, n, V), NEW k, NEW p
    PROVE  StillOut(B, C, n, V, k, p)
  <1> USE Zenon
  <1>1. \A m \in Messages : (C.out[m] # None) <=> (m \notin V /\ B.out[m] # None)
    BY DEF Struck
  <1>2. \A m \in V : From[m] = n
    BY DEF Out
  <1>3. \A x : x \in Out(C, k) <=> x \in Messages /\ From[x] = k /\ B.out[x] # None /\ x \notin V
    BY <1>1 DEF Out
  <1>4. \A x : x \in Out(B, k) <=> x \in Messages /\ From[x] = k /\ B.out[x] # None
    BY DEF Out
  <1>5. Out(C, k) = Out(B, k) \ V
    BY <1>3, <1>4
  <1>6. OutTo(C, k, p) = OutTo(B, k, p) \ V
    BY <1>3, <1>4 DEF OutTo
  <1>7. k # n => Out(B, k) \ V = Out(B, k)
    BY <1>2, <1>4
  <1> QED BY <1>5, <1>6, <1>7 DEF StillOut

\* Sets of messages are finite, and a part of one is no larger.
LEMMA Fewer ==
    ASSUME NEW S \in SUBSET Messages, NEW V
    PROVE  /\ Cardinality(S \ V) \in Nat /\ Cardinality(S) \in Nat /\ Cardinality(S \ V) <= Cardinality(S)
           /\ OutBytes(S \ V) \in Nat /\ OutBytes(S) \in Nat /\ OutBytes(S \ V) <= OutBytes(S)
  <1>1. IsFiniteSet(S) /\ S \ V \in SUBSET S
    BY Finite, Zenon
  <1>2. IsFiniteSet(S \ V) /\ Cardinality(S \ V) <= Cardinality(S)
    BY <1>1, FS_Subset, Zenon
  <1>3. Cardinality(S) \in Nat
    BY <1>1, FS_CardinalityType, Zenon
  <1>4. Cardinality(S \ V) \in Nat
    BY <1>2, FS_CardinalityType, Zenon
  <1>5. OutBytes(S) = OutBytes(S \ V) + OutBytes(S \ (S \ V)) /\ OutBytes(S) \in Nat
          /\ OutBytes(S \ V) \in Nat /\ OutBytes(S \ (S \ V)) \in Nat
    BY <1>1, OutBytesSplit, Zenon
  <1>6. OutBytes(S \ V) <= OutBytes(S)
    BY <1>5
  <1> QED BY <1>2, <1>3, <1>4, <1>5, <1>6, Zenon

\* Limits on one sender's transfers, in all and to one receiver.
SenderWithin(B, s, n) ==
    OutBytes(Out(B, n)) <= s.book_total /\ Cardinality(Out(B, n)) <= s.book_total_transfers
PeerWithin(B, s, n, p) ==
    Cardinality(OutTo(B, n, p)) <= s.book_transfers /\ OutBytes(OutTo(B, n, p)) <= s.book_peer

\* What the limits of a book are.
LEMMA BookSetup ==
    ASSUME NEW s \in Setup
    PROVE  /\ s.book_transfers \in Nat /\ s.book_total_transfers \in Nat
           /\ s.book_peer \in Nat /\ s.book_total \in Nat
  BY DEF Setup

\* A set with fewer members and bytes is within the same limits.
LEMMA FewerWithin ==
    ASSUME NEW S \in SUBSET Messages, NEW V, NEW i \in Nat, NEW j \in Nat,
           Cardinality(S) <= i, OutBytes(S) <= j
    PROVE  Cardinality(S \ V) <= i /\ OutBytes(S \ V) <= j
  <1> DEFINE a == Cardinality(S)
             b == Cardinality(S \ V)
             c == OutBytes(S)
             d == OutBytes(S \ V)
  <1>1. a \in Nat /\ b \in Nat /\ b <= a /\ c \in Nat /\ d \in Nat /\ d <= c
    BY Fewer, Zenon
  <1>2. a <= i /\ c <= j
    OBVIOUS
  <1> HIDE DEF a, b, c, d
  <1>3. b <= i /\ d <= j
    BY <1>1, <1>2
  <1> QED BY <1>3, Zenon DEF b, d

\* The invariant of a book, sender by sender.
LEMMA BookOKIs ==
    ASSUME NEW s, NEW B
    PROVE  BookOK(B, s) <=> /\ BookShape(B) /\ Booked(B)
                            /\ \A n \in Nodes : /\ SenderWithin(B, s, n)
                                                /\ \A p \in Nodes : PeerWithin(B, s, n, p)
  BY Zenon DEF BookOK, BookWithin, Booked, SenderWithin, PeerWithin

\* Removing transfers keeps the invariant.
LEMMA StruckOK ==
    ASSUME NEW s \in Setup, NEW B, BookOK(B, s), NEW C, NEW n \in Nodes, NEW V \in SUBSET Out(B, n),
           Struck(B, C, n, V)
    PROVE  BookOK(C, s)
  <1> USE Zenon
  <1>1. /\ s.book_transfers \in Nat /\ s.book_total_transfers \in Nat
        /\ s.book_peer \in Nat /\ s.book_total \in Nat
    BY BookSetup
  <1>2. BookShape(C)
    BY DEF Struck
  <1>3. ASSUME NEW k \in Nodes PROVE C.bytes[k] = OutBytes(Out(C, k))
    <2>1. StillOut(B, C, n, V, k, k)
      BY StruckOut
    <2>2. CASE k = n
      BY <2>1, <2>2 DEF StillOut, Struck
    <2>3. CASE k # n
      <3>1. Out(C, k) = Out(B, k)
        BY <2>1, <2>3 DEF StillOut
      <3>2. C.bytes[k] = B.bytes[k]
        BY <2>3 DEF Struck
      <3>3. B.bytes[k] = OutBytes(Out(B, k))
        BY DEF BookOK, Booked
      <3> QED BY <3>1, <3>2, <3>3
    <2> QED BY <2>2, <2>3
  <1>4. ASSUME NEW k \in Nodes PROVE SenderWithin(C, s, k)
    <2>1. SenderWithin(B, s, k)
      BY BookOKIs
    <2>2. Out(B, k) \in SUBSET Messages
      BY OutAre
    <2>3. Cardinality(Out(B, k) \ V) <= s.book_total_transfers /\ OutBytes(Out(B, k) \ V) <= s.book_total
      BY <1>1, <2>1, <2>2, FewerWithin DEF SenderWithin
    <2>4. StillOut(B, C, n, V, k, k)
      BY StruckOut
    <2> QED BY <2>3, <2>4 DEF StillOut, SenderWithin
  <1>5. ASSUME NEW k \in Nodes, NEW p \in Nodes PROVE PeerWithin(C, s, k, p)
    <2>1. PeerWithin(B, s, k, p)
      BY BookOKIs
    <2>2. OutTo(B, k, p) \in SUBSET Messages
      BY OutAre
    <2>3. Cardinality(OutTo(B, k, p) \ V) <= s.book_transfers /\ OutBytes(OutTo(B, k, p) \ V) <= s.book_peer
      BY <1>1, <2>1, <2>2, FewerWithin DEF PeerWithin
    <2>4. StillOut(B, C, n, V, k, p)
      BY StruckOut
    <2> QED BY <2>3, <2>4 DEF StillOut, PeerWithin
  <1>6. Booked(C)
    BY <1>3 DEF Booked
  <1> QED BY <1>2, <1>4, <1>5, <1>6, BookOKIs

\* remove, of transfers of one sender.
LEMMA UnbookOK ==
    ASSUME NEW s \in Setup, NEW B, BookOK(B, s), NEW n \in Nodes, NEW V \in SUBSET Out(B, n)
    PROVE  BookOK(Unbook(B, n, V), s)
  <1> USE Zenon
  <1>1. BookShape(B) /\ Booked(B)
    BY DEF BookOK
  <1>2. Struck(B, Unbook(B, n, V), n, V)
    BY <1>1, UnbookStruck
  <1> QED BY <1>2, StruckOK

\* remove, of one transfer, whether it is in the book or not.
LEMMA UnbookOne ==
    ASSUME NEW s \in Setup, NEW B, BookOK(B, s), NEW n \in Nodes, NEW m
    PROVE  BookOK(Unbook(B, n, {m}), s)
  <1> USE Zenon
  <1>1. CASE m \in Out(B, n)
    <2>1. {m} \in SUBSET Out(B, n)
      BY <1>1
    <2> QED BY <2>1, UnbookOK
  <1>2. CASE m \notin Out(B, n)
    <2>1. {m} \cap Out(B, n) = {}
      BY <1>2
    <2>2. Unbook(B, n, {m}) = B
      BY <2>1 DEF Unbook
    <2> QED BY <2>2
  <1> QED BY <1>1, <1>2

\* sweep.
LEMMA SweepOK ==
    ASSUME NEW s \in Setup, NEW B, BookOK(B, s), NEW n \in Nodes
    PROVE  BookOK(Sweep(B, n), s)
  <1> USE Zenon
  <1> DEFINE V == {m \in Out(B, n) : B.out[m].idle >= RecoveryTTL}
  <1>1. V \in SUBSET Out(B, n)
    OBVIOUS
  <1> HIDE DEF V
  <1>2. BookOK(Unbook(B, n, V), s)
    BY <1>1, UnbookOK
  <1> QED BY <1>2 DEF Sweep, V

\* Victims are enough, if all of the candidates are.
LEMMA VictimsEnough ==
    ASSUME NEW C, NEW T, NEW Peer, NEW Enough, IsFiniteSet(C), C \in Enough
    PROVE  Victims(C, T, Peer, Enough) \in Enough
  <1> DEFINE first(k) == {x \in C : Cardinality({y \in C : Older(T, Peer, y, x)}) < k}
             ks == {k \in 0..Cardinality(C) : first(k) \in Enough}
  <1>1. Victims(C, T, Peer, Enough) = IF ks = {} THEN C ELSE first(Min(ks))
    BY Zenon DEF Victims
  <1>2. Cardinality(C) \in Nat
    BY FS_CardinalityType, Zenon
  <1>3. ks \in SUBSET Nat /\ \A k \in ks : first(k) \in Enough
    <2> HIDE DEF first
    <2> QED BY <1>2
  <1> HIDE DEF first, ks
  <1>4. CASE ks # {}
    <2>1. Min(ks) \in ks
      BY <1>3, <1>4, LeastNat, Zenon
    <2> QED BY <1>1, <1>3, <1>4, <2>1, Zenon
  <1>5. CASE ks = {}
    BY <1>1, <1>5, Zenon
  <1> QED BY <1>4, <1>5, Zenon

\* Room for m in the book.
PeerSlot(B, m) == Cardinality(OutTo(B, From[m], To[m])) < setup.book_transfers
AnySlot(B, m) == Cardinality(Out(B, From[m])) < setup.book_total_transfers
PeerSpace(B, m) == OutBytes(OutTo(B, From[m], To[m])) + Size[m] <= setup.book_peer
AnySpace(B, m) == OutBytes(Out(B, From[m])) + Size[m] <= setup.book_total

\* The candidates of a pass.
Candidates(B, pass, m) == {x \in Out(B, From[m]) : pass \in {"count", "bytes"} \/ To[x] = To[m]}

\* The passes of retain over the book.
Passes == {"peer count", "count", "peer bytes", "bytes"}

\* Evicting every candidate makes room for a message that is retainable.
LEMMA AllMakeSpace ==
    ASSUME setup \in Setup, NEW B, BookOK(B, setup), NEW m \in Messages, Retainable(m),
           NEW pass \in Passes
    PROVE  Holds(B, pass, m, Candidates(B, pass, m))
  <1> DEFINE n == From[m]
             C == Candidates(B, pass, m)
             S == OutTo(B, n, To[m])
  <1>1. n \in Nodes /\ Size[m] \in Nat
    BY MessageEnds
  <1>2. Size[m] <= setup.book_peer /\ Size[m] <= setup.book_total
          /\ setup.book_transfers > 0 /\ setup.book_total_transfers > 0
    BY Zenon DEF Retainable
  <1>3. Cardinality({}) = 0 /\ OutBytes({}) = 0
    BY FS_EmptySet, OutBytesNone, Zenon
  <1>4. ASSUME pass = "peer count" PROVE Cardinality(S \ C) < setup.book_transfers
    <2>1. S \ C = {}
      BY Zenon DEF Candidates, OutTo
    <2>2. setup.book_transfers \in Nat
      BY BookSetup, Zenon
    <2> QED BY <1>2, <1>3, <2>1, <2>2, SMTT(30)
  <1>5. ASSUME pass = "count" PROVE Cardinality(Out(B, n) \ C) < setup.book_total_transfers
    <2>1. Out(B, n) \ C = {}
      BY <1>5, Zenon DEF Candidates
    <2>2. setup.book_total_transfers \in Nat
      BY BookSetup, Zenon
    <2> QED BY <1>2, <1>3, <2>1, <2>2, SMTT(30)
  <1>6. ASSUME pass = "peer bytes" PROVE OutBytes(S \ C) + Size[m] <= setup.book_peer
    <2>1. S \ C = {}
      BY Zenon DEF Candidates, OutTo
    <2> QED BY <1>1, <1>2, <1>3, <2>1
  <1>7. ASSUME pass = "bytes" PROVE B.bytes[n] - OutBytes(C) + Size[m] <= setup.book_total
    <2>1. C = Out(B, n)
      BY <1>7, Zenon DEF Candidates
    <2>2. B.bytes[n] = OutBytes(Out(B, n))
      BY <1>1, Zenon DEF BookOK, Booked
    <2>3. OutBytes(Out(B, n)) \in Nat
      <3>1. Out(B, n) \in SUBSET Messages
        BY OutAre, Zenon
      <3> QED BY <3>1, Fewer, Zenon
    <2> QED BY <1>1, <1>2, <2>1, <2>2, <2>3, SMTT(30)
  <1> HIDE DEF n, C, S
  <1>8. CASE pass = "peer count"
    BY <1>4, <1>8, Zenon DEF Holds, n, C, S
  <1>9. CASE pass = "count"
    BY <1>5, <1>9 DEF Holds, n, C, S
  <1>10. CASE pass = "peer bytes"
    BY <1>6, <1>10, Zenon DEF Holds, n, C, S
  <1>11. CASE pass = "bytes"
    BY <1>7, <1>11 DEF Holds, n, C, S
  <1> QED BY <1>8, <1>9, <1>10, <1>11, Zenon DEF Passes

\* What a pass leaves: the invariant, no entry for m, the room there was, and its own.
Spaced(B, Q, pass, m) ==
    /\ BookOK(Q, setup) /\ Q.out[m] = None
    /\ PeerSlot(B, m) \/ pass = "peer count" => PeerSlot(Q, m)
    /\ AnySlot(B, m) \/ pass = "count" => AnySlot(Q, m)
    /\ PeerSpace(B, m) \/ pass = "peer bytes" => PeerSpace(Q, m)
    /\ AnySpace(B, m) \/ pass = "bytes" => AnySpace(Q, m)

\* Fewer transfers leave no less room, and those that are enough leave enough.
LEMMA StruckSpaced ==
    ASSUME setup \in Setup, NEW B, BookOK(B, setup), NEW m \in Messages, B.out[m] = None,
           NEW pass \in Passes, NEW V \in SUBSET Out(B, From[m]), Holds(B, pass, m, V),
           NEW Q, Struck(B, Q, From[m], V)
    PROVE  Spaced(B, Q, pass, m)
  <1> DEFINE n == From[m]
             S == OutTo(B, n, To[m])
             O == Out(B, n)
  <1>1. n \in Nodes /\ Size[m] \in Nat
    BY MessageEnds
  <1>2. BookOK(Q, setup)
    BY <1>1, StruckOK, Zenon
  <1>3. Q.out[m] = None
    BY Zenon DEF Struck
  <1>4. StillOut(B, Q, n, V, n, To[m])
    BY StruckOut, Zenon
  <1>5. Out(Q, n) = O \ V /\ OutTo(Q, n, To[m]) = S \ V
    BY <1>4, Zenon DEF StillOut
  <1>6. O \in SUBSET Messages /\ S \in SUBSET Messages /\ V \in SUBSET O
    BY OutAre, Zenon
  <1>7. B.bytes[n] = OutBytes(O)
    BY <1>1, Zenon DEF BookOK, Booked
  <1>8. /\ setup.book_transfers \in Nat /\ setup.book_total_transfers \in Nat
        /\ setup.book_peer \in Nat /\ setup.book_total \in Nat
    BY BookSetup, Zenon
  <1>9. /\ Cardinality(S \ V) \in Nat /\ Cardinality(S) \in Nat /\ Cardinality(S \ V) <= Cardinality(S)
        /\ OutBytes(S \ V) \in Nat /\ OutBytes(S) \in Nat /\ OutBytes(S \ V) <= OutBytes(S)
    BY <1>6, Fewer, Zenon
  <1>10. /\ Cardinality(O \ V) \in Nat /\ Cardinality(O) \in Nat /\ Cardinality(O \ V) <= Cardinality(O)
         /\ OutBytes(O \ V) \in Nat /\ OutBytes(O) \in Nat /\ OutBytes(O \ V) <= OutBytes(O)
    BY <1>6, Fewer, Zenon
  <1>11. OutBytes(O \ V) = OutBytes(O) - OutBytes(V)
    BY <1>6, OutSubtract, Zenon
  <1>12. /\ pass = "peer count" => Cardinality(S \ V) < setup.book_transfers
         /\ pass = "count" => Cardinality(O \ V) < setup.book_total_transfers
         /\ pass = "peer bytes" => OutBytes(S \ V) + Size[m] <= setup.book_peer
         /\ pass = "bytes" => B.bytes[n] - OutBytes(V) + Size[m] <= setup.book_total
    <2> HIDE DEF n, S, O
    <2>1. Holds(B, pass, m, V)
      OBVIOUS
    <2>2. CASE pass = "peer count"
      BY <2>1, <2>2, Zenon DEF Holds, n, S
    <2>3. CASE pass = "count"
      BY <2>1, <2>3 DEF Holds, n, O
    <2>4. CASE pass = "peer bytes"
      BY <2>1, <2>4, Zenon DEF Holds, n, S
    <2>5. CASE pass = "bytes"
      BY <2>1, <2>5 DEF Holds, n
    <2> QED BY <2>2, <2>3, <2>4, <2>5, Zenon DEF Passes
  <1> HIDE DEF n, S, O
  <1>13. PeerSlot(B, m) \/ pass = "peer count" => PeerSlot(Q, m)
    <2>1. Cardinality(S) < setup.book_transfers
            => Cardinality(S \ V) < setup.book_transfers
      BY <1>8, <1>9
    <2> QED BY <1>5, <1>12, <2>1, Zenon DEF PeerSlot, n, S
  <1>14. AnySlot(B, m) \/ pass = "count" => AnySlot(Q, m)
    <2>1. Cardinality(O) < setup.book_total_transfers
            => Cardinality(O \ V) < setup.book_total_transfers
      BY <1>8, <1>10
    <2> QED BY <1>5, <1>12, <2>1, Zenon DEF AnySlot, n, O
  <1>15. PeerSpace(B, m) \/ pass = "peer bytes" => PeerSpace(Q, m)
    <2>1. OutBytes(S) + Size[m] <= setup.book_peer
            => OutBytes(S \ V) + Size[m] <= setup.book_peer
      BY <1>1, <1>8, <1>9, SMTT(30)
    <2> QED BY <1>5, <1>12, <2>1, Zenon DEF PeerSpace, n, S
  <1>16. AnySpace(B, m) \/ pass = "bytes" => AnySpace(Q, m)
    <2>1. OutBytes(O) + Size[m] <= setup.book_total
            => OutBytes(O \ V) + Size[m] <= setup.book_total
      BY <1>1, <1>8, <1>10, SMTT(30)
    <2>2. pass = "bytes" => OutBytes(O \ V) + Size[m] <= setup.book_total
      BY <1>7, <1>11, <1>12, Zenon
    <2> QED BY <1>5, <2>1, <2>2, Zenon DEF AnySpace, n, O
  <1> QED BY <1>2, <1>3, <1>13, <1>14, <1>15, <1>16, Zenon DEF Spaced

\* One pass over the book.
LEMMA EvictSpaced ==
    ASSUME setup \in Setup, NEW B, BookOK(B, setup), NEW m \in Messages, Retainable(m),
           B.out[m] = None, NEW pass \in Passes
    PROVE  Spaced(B, EvictOut(B, pass, m), pass, m)
  <1> USE Zenon
  <1> DEFINE C == Candidates(B, pass, m)
             E == {W \in SUBSET C : Holds(B, pass, m, W)}
             V == Victims(C, B.out, To, E)
             Q == Unbook(B, From[m], V)
  <1>1. EvictOut(B, pass, m) = Q
    BY DEF EvictOut, Candidates
  <1>2. C \in SUBSET Out(B, From[m]) /\ Out(B, From[m]) \in SUBSET Messages
    BY OutAre DEF Candidates
  <1>3. Holds(B, pass, m, C)
    BY AllMakeSpace
  <1> HIDE DEF C
  <1>4. IsFiniteSet(C) /\ C \in E
    BY <1>2, <1>3, Finite
  <1>5. V \in E
    <2> HIDE DEF E
    <2> QED BY <1>4, VictimsEnough
  <1> HIDE DEF V
  <1>6. V \in SUBSET Out(B, From[m]) /\ Holds(B, pass, m, V)
    BY <1>2, <1>5
  <1>7. BookShape(B) /\ Booked(B) /\ From[m] \in Nodes
    BY MessageEnds DEF BookOK
  <1>8. Struck(B, Q, From[m], V)
    BY <1>6, <1>7, UnbookStruck
  <1> HIDE DEF Q
  <1>9. Spaced(B, Q, pass, m)
    BY <1>6, <1>8, StruckSpaced
  <1> QED BY <1>1, <1>9

\* The four passes make room for a retainable message.
LEMMA SpaceMade ==
    ASSUME setup \in Setup, NEW B, BookOK(B, setup), NEW m \in Messages, Retainable(m), B.out[m] = None
    PROVE  LET Q == MakeSpace(B, m)
           IN  /\ BookOK(Q, setup) /\ Q.out[m] = None
               /\ PeerSlot(Q, m) /\ AnySlot(Q, m) /\ PeerSpace(Q, m) /\ AnySpace(Q, m)
  <1> USE Zenon
  <1> DEFINE B1 == EvictOut(B, "peer count", m)
             B2 == EvictOut(B1, "count", m)
             B3 == EvictOut(B2, "peer bytes", m)
             B4 == EvictOut(B3, "bytes", m)
  <1>1. MakeSpace(B, m) = B4
    BY DEF MakeSpace
  <1>2. "peer count" \in Passes /\ "count" \in Passes /\ "peer bytes" \in Passes /\ "bytes" \in Passes
    BY DEF Passes
  <1>3. Spaced(B, B1, "peer count", m)
    BY <1>2, EvictSpaced
  <1> HIDE DEF B1
  <1>4. BookOK(B1, setup) /\ B1.out[m] = None /\ PeerSlot(B1, m)
    BY <1>3 DEF Spaced
  <1>5. Spaced(B1, B2, "count", m)
    BY <1>2, <1>4, EvictSpaced
  <1> HIDE DEF B2
  <1>6. BookOK(B2, setup) /\ B2.out[m] = None /\ PeerSlot(B2, m) /\ AnySlot(B2, m)
    BY <1>4, <1>5 DEF Spaced
  <1>7. Spaced(B2, B3, "peer bytes", m)
    BY <1>2, <1>6, EvictSpaced
  <1> HIDE DEF B3
  <1>8. /\ BookOK(B3, setup) /\ B3.out[m] = None
        /\ PeerSlot(B3, m) /\ AnySlot(B3, m) /\ PeerSpace(B3, m)
    BY <1>6, <1>7 DEF Spaced
  <1>9. Spaced(B3, B4, "bytes", m)
    BY <1>2, <1>8, EvictSpaced
  <1> HIDE DEF B4
  <1>10. /\ BookOK(B4, setup) /\ B4.out[m] = None
         /\ PeerSlot(B4, m) /\ AnySlot(B4, m) /\ PeerSpace(B4, m) /\ AnySpace(B4, m)
    BY <1>8, <1>9 DEF Spaced
  <1> QED BY <1>1, <1>10

\* C is B with an entry for m.
Entered(B, C, m) ==
    /\ BookShape(C) /\ C.out[m] # None /\ \A x \in Messages \ {m} : C.out[x] = B.out[x]
    /\ C.bytes[From[m]] = B.bytes[From[m]] + Size[m]
    /\ \A k \in Nodes \ {From[m]} : C.bytes[k] = B.bytes[k]

\* Writing an entry does that.
LEMMA PutEntered ==
    ASSUME NEW B, BookShape(B), NEW m \in Messages
    PROVE  Entered(B, [B EXCEPT !.out[m] = NewEntry, !.bytes[From[m]] = @ + Size[m]], m)
  <1> DEFINE C == [B EXCEPT !.out[m] = NewEntry, !.bytes[From[m]] = @ + Size[m]]
             O == [B.out EXCEPT ![m] = NewEntry]
             b == [B.bytes EXCEPT ![From[m]] = B.bytes[From[m]] + Size[m]]
  <1>1. B.out \in [Messages -> Entry \cup {None}] /\ B.bytes \in [Nodes -> Nat]
    BY BookShaped, Zenon
  <1>2. From[m] \in Nodes /\ Size[m] \in Nat
    BY MessageEnds
  <1>3. NewEntry \in Entry /\ NewEntry # None
    <2>1. NewEntry \in Entry
      BY DEF NewEntry, Entry
    <2> QED BY <2>1, NoneAssumption, Zenon
  <1>4. /\ O \in [Messages -> Entry \cup {None}] /\ O[m] = NewEntry
        /\ \A x \in Messages \ {m} : O[x] = B.out[x]
    BY <1>1, <1>3, Zenon
  <1>5. /\ b \in [Nodes -> Nat] /\ b[From[m]] = B.bytes[From[m]] + Size[m]
        /\ \A k \in Nodes \ {From[m]} : b[k] = B.bytes[k]
    BY <1>1, <1>2, SMTT(30)
  <1>6. C \in [out : {O}, bytes : {b}]
    BY Zenon DEF BookShape
  <1> HIDE DEF O, b, C
  <1>7. C.out = O /\ C.bytes = b /\ BookShape(C)
    BY <1>4, <1>5, <1>6, Zenon DEF BookShape
  <1>8. Entered(B, C, m)
    BY <1>3, <1>4, <1>5, <1>7, Zenon DEF Entered
  <1> QED BY <1>8, Zenon DEF C

\* One more member counts for one, and weighs its size.
LEMMA OneMore ==
    ASSUME NEW S \in SUBSET Messages, NEW m \in Messages, m \notin S
    PROVE  /\ Cardinality(S \cup {m}) = Cardinality(S) + 1 /\ Cardinality(S) \in Nat
           /\ OutBytes(S \cup {m}) = OutBytes(S) + Size[m] /\ OutBytes(S) \in Nat
  <1> USE Zenon
  <1>1. IsFiniteSet(S)
    BY Finite
  <1>2. Cardinality(S \cup {m}) = Cardinality(S) + 1
    BY <1>1, FS_AddElement
  <1>3. Cardinality(S) \in Nat
    BY <1>1, FS_CardinalityType
  <1>4. S \cup {m} \in SUBSET Messages /\ S \in SUBSET (S \cup {m}) /\ (S \cup {m}) \ S = {m}
    OBVIOUS
  <1>5. /\ OutBytes(S \cup {m}) = OutBytes(S) + OutBytes((S \cup {m}) \ S)
        /\ OutBytes(S \cup {m}) \in Nat /\ OutBytes(S) \in Nat /\ OutBytes((S \cup {m}) \ S) \in Nat
    BY <1>4, OutBytesSplit
  <1>6. OutBytes({m}) = Size[m]
    BY OutBytesOne
  <1>7. OutBytes(S \cup {m}) = OutBytes(S) + Size[m]
    BY <1>4, <1>5, <1>6
  <1> QED BY <1>2, <1>3, <1>5, <1>7

\* Whose transfers there are now.
Joins(B, C, m, k, p) ==
    /\ k = From[m] => Out(C, k) = Out(B, k) \cup {m}
    /\ k # From[m] => Out(C, k) = Out(B, k)
    /\ k = From[m] /\ p = To[m] => OutTo(C, k, p) = OutTo(B, k, p) \cup {m}
    /\ k # From[m] \/ p # To[m] => OutTo(C, k, p) = OutTo(B, k, p)
    /\ m \notin Out(B, k) /\ m \notin OutTo(B, k, p)

\* Entering m adds it to the transfers of its sender and its peer.
LEMMA EnteredOut ==
    ASSUME NEW B, NEW C, NEW m \in Messages, B.out[m] = None, Entered(B, C, m), NEW k, NEW p
    PROVE  Joins(B, C, m, k, p)
  <1> USE Zenon
  <1>1. \A x \in Messages : (C.out[x] # None) <=> (x = m \/ B.out[x] # None)
    BY DEF Entered
  <1>2. \A x : x \in Out(C, k) <=> x \in Messages /\ From[x] = k /\ (x = m \/ B.out[x] # None)
    BY <1>1 DEF Out
  <1>3. \A x : x \in Out(B, k) <=> x \in Messages /\ From[x] = k /\ B.out[x] # None
    BY DEF Out
  <1>4. m \notin Out(B, k) /\ m \notin OutTo(B, k, p)
    BY <1>3 DEF OutTo
  <1>5. k = From[m] => Out(C, k) = Out(B, k) \cup {m}
    BY <1>2, <1>3
  <1>6. k # From[m] => Out(C, k) = Out(B, k)
    BY <1>2, <1>3
  <1>7. k = From[m] /\ p = To[m] => OutTo(C, k, p) = OutTo(B, k, p) \cup {m}
    BY <1>2, <1>3 DEF OutTo
  <1>8. k # From[m] \/ p # To[m] => OutTo(C, k, p) = OutTo(B, k, p)
    BY <1>2, <1>3 DEF OutTo
  <1> QED BY <1>4, <1>5, <1>6, <1>7, <1>8 DEF Joins

\* A new entry for which there is room keeps the invariant.
LEMMA EnteredOK ==
    ASSUME setup \in Setup, NEW B, BookOK(B, setup), NEW m \in Messages, B.out[m] = None,
           PeerSlot(B, m), AnySlot(B, m), PeerSpace(B, m), AnySpace(B, m),
           NEW C, Entered(B, C, m)
    PROVE  BookOK(C, setup)
  <1>1. /\ setup.book_transfers \in Nat /\ setup.book_total_transfers \in Nat
        /\ setup.book_peer \in Nat /\ setup.book_total \in Nat
    BY BookSetup, Zenon
  <1>2. BookShape(C)
    BY Zenon DEF Entered
  <1>3. ASSUME NEW k \in Nodes PROVE C.bytes[k] = OutBytes(Out(C, k)) /\ SenderWithin(C, setup, k)
    <2>1. Joins(B, C, m, k, k)
      BY EnteredOut, Zenon
    <2>2. Out(B, k) \in SUBSET Messages /\ m \notin Out(B, k)
      BY <2>1, OutAre, Zenon DEF Joins
    <2>3. B.bytes[k] = OutBytes(Out(B, k))
      BY Zenon DEF BookOK, Booked
    <2>4. CASE k = From[m]
      <3>1. Out(C, k) = Out(B, k) \cup {m}
        BY <2>1, <2>4, Zenon DEF Joins
      <3>2. /\ Cardinality(Out(B, k) \cup {m}) = Cardinality(Out(B, k)) + 1 /\ Cardinality(Out(B, k)) \in Nat
            /\ OutBytes(Out(B, k) \cup {m}) = OutBytes(Out(B, k)) + Size[m] /\ OutBytes(Out(B, k)) \in Nat
        BY <2>2, OneMore, Zenon
      <3>3. C.bytes[k] = B.bytes[k] + Size[m]
        BY <2>4, Zenon DEF Entered
      <3>4. C.bytes[k] = OutBytes(Out(C, k))
        BY <2>3, <3>1, <3>2, <3>3, Zenon
      <3>5. Cardinality(Out(B, k)) < setup.book_total_transfers
        BY <2>4, Zenon DEF AnySlot
      <3>6. Cardinality(Out(B, k)) + 1 <= setup.book_total_transfers
        BY <1>1, <3>2, <3>5, SMTT(30)
      <3>7. OutBytes(Out(B, k)) + Size[m] <= setup.book_total
        BY <2>4, Zenon DEF AnySpace
      <3>8. SenderWithin(C, setup, k)
        BY <3>1, <3>2, <3>6, <3>7, Zenon DEF SenderWithin
      <3> QED BY <3>4, <3>8, Zenon
    <2>5. CASE k # From[m]
      <3> USE Zenon
      <3>1. Out(C, k) = Out(B, k)
        BY <2>1, <2>5 DEF Joins
      <3>2. C.bytes[k] = B.bytes[k]
        BY <2>5 DEF Entered
      <3>3. SenderWithin(B, setup, k)
        BY BookOKIs
      <3>4. SenderWithin(C, setup, k)
        BY <3>1, <3>3 DEF SenderWithin
      <3> QED BY <2>3, <3>1, <3>2, <3>4
    <2> QED BY <2>4, <2>5, Zenon
  <1>4. ASSUME NEW k \in Nodes, NEW p \in Nodes PROVE PeerWithin(C, setup, k, p)
    <2>1. Joins(B, C, m, k, p)
      BY EnteredOut, Zenon
    <2>2. OutTo(B, k, p) \in SUBSET Messages /\ m \notin OutTo(B, k, p)
      BY <2>1, OutAre, Zenon DEF Joins
    <2>3. CASE k = From[m] /\ p = To[m]
      <3>1. OutTo(C, k, p) = OutTo(B, k, p) \cup {m}
        BY <2>1, <2>3, Zenon DEF Joins
      <3>2. /\ Cardinality(OutTo(B, k, p) \cup {m}) = Cardinality(OutTo(B, k, p)) + 1
            /\ Cardinality(OutTo(B, k, p)) \in Nat
            /\ OutBytes(OutTo(B, k, p) \cup {m}) = OutBytes(OutTo(B, k, p)) + Size[m]
            /\ OutBytes(OutTo(B, k, p)) \in Nat
        BY <2>2, OneMore, Zenon
      <3>3. Cardinality(OutTo(B, k, p)) < setup.book_transfers
        BY <2>3, Zenon DEF PeerSlot
      <3>4. Cardinality(OutTo(B, k, p)) + 1 <= setup.book_transfers
        BY <1>1, <3>2, <3>3, SMTT(30)
      <3>5. OutBytes(OutTo(B, k, p)) + Size[m] <= setup.book_peer
        BY <2>3, Zenon DEF PeerSpace
      <3> QED BY <3>1, <3>2, <3>4, <3>5, Zenon DEF PeerWithin
    <2>4. CASE k # From[m] \/ p # To[m]
      <3> USE Zenon
      <3>1. OutTo(C, k, p) = OutTo(B, k, p)
        BY <2>1, <2>4 DEF Joins
      <3>2. PeerWithin(B, setup, k, p)
        BY BookOKIs
      <3> QED BY <3>1, <3>2 DEF PeerWithin
    <2> QED BY <2>3, <2>4, Zenon
  <1>5. Booked(C)
    BY <1>3, Zenon DEF Booked
  <1> QED BY <1>2, <1>3, <1>4, <1>5, BookOKIs, Zenon

\* A new transfer is entered once room was made for it.
LEMMA EnterOK ==
    ASSUME setup \in Setup, NEW B, BookOK(B, setup), NEW m \in Messages, Retainable(m), B.out[m] = None
    PROVE  BookOK(Enter(B, m), setup)
  <1> USE Zenon
  <1> DEFINE Q == MakeSpace(B, m)
             C == [Q EXCEPT !.out[m] = NewEntry, !.bytes[From[m]] = @ + Size[m]]
  <1>1. /\ BookOK(Q, setup) /\ Q.out[m] = None
        /\ PeerSlot(Q, m) /\ AnySlot(Q, m) /\ PeerSpace(Q, m) /\ AnySpace(Q, m)
    BY SpaceMade
  <1>2. Enter(B, m) = C
    BY DEF Enter
  <1> HIDE DEF Q
  <1>3. BookShape(Q)
    BY <1>1 DEF BookOK
  <1>4. Entered(Q, C, m)
    BY <1>3, PutEntered
  <1> HIDE DEF C
  <1>5. BookOK(C, setup)
    BY <1>1, <1>4, EnteredOK
  <1> QED BY <1>2, <1>5

\* C is B but for the ages and rounds of its entries.
BookAged(B, C) ==
    /\ BookShape(C) /\ C.bytes = B.bytes
    /\ \A m \in Messages : C.out[m] = None <=> B.out[m] = None

\* They do not matter for the invariant.
LEMMA BookAgedOK ==
    ASSUME NEW s, NEW B, BookOK(B, s), NEW C, BookAged(B, C)
    PROVE  BookOK(C, s)
  <1> USE Zenon
  <1>1. \A n : Out(C, n) = Out(B, n)
    BY DEF BookAged, Out
  <1>2. \A n, p : OutTo(C, n, p) = OutTo(B, n, p)
    BY <1>1 DEF OutTo
  <1>3. BookShape(C) /\ C.bytes = B.bytes
    BY DEF BookAged
  <1>4. /\ BookShape(B) /\ Booked(B)
        /\ \A n \in Nodes : /\ SenderWithin(B, s, n)
                            /\ \A p \in Nodes : PeerWithin(B, s, n, p)
    BY BookOKIs
  <1>5. Booked(C)
    BY <1>1, <1>3, <1>4 DEF Booked
  <1>6. \A n \in Nodes : SenderWithin(C, s, n)
    BY <1>1, <1>4 DEF SenderWithin
  <1>7. \A n, p \in Nodes : PeerWithin(C, s, n, p)
    BY <1>2, <1>4 DEF PeerWithin
  <1> QED BY <1>3, <1>5, <1>6, <1>7, BookOKIs

\* Rewriting one entry.
LEMMA RewriteAged ==
    ASSUME NEW B, BookShape(B), NEW m \in Messages, B.out[m] # None, NEW e \in Entry
    PROVE  BookAged(B, [B EXCEPT !.out[m] = e])
  <1> USE Zenon
  <1> DEFINE C == [B EXCEPT !.out[m] = e]
             O == [B.out EXCEPT ![m] = e]
  <1>1. B.out \in [Messages -> Entry \cup {None}] /\ B.bytes \in [Nodes -> Nat]
    BY BookShaped
  <1>2. e # None
    BY NoneAssumption
  <1>3. /\ O \in [Messages -> Entry \cup {None}] /\ O[m] = e
        /\ \A x \in Messages \ {m} : O[x] = B.out[x]
    BY <1>1
  <1>4. C \in [out : {O}, bytes : {B.bytes}]
    BY DEF BookShape
  <1> HIDE DEF O, C
  <1>5. C.out = O /\ C.bytes = B.bytes /\ BookShape(C)
    BY <1>1, <1>3, <1>4 DEF BookShape
  <1>6. BookAged(B, C)
    BY <1>2, <1>3, <1>5 DEF BookAged
  <1> QED BY <1>6 DEF C

\* An entry with other ages, or one more round.
LEMMA EntryAged ==
    ASSUME NEW e \in Entry, NEW i \in Nat, NEW j \in Nat
    PROVE  /\ [e EXCEPT !.idle = i] \in Entry /\ [e EXCEPT !.idle = i, !.since = j] \in Entry
           /\ NextRound(e) \in Entry
  <1>1. [e EXCEPT !.idle = i] \in Entry /\ [e EXCEPT !.idle = i, !.since = j] \in Entry
    BY Zenon DEF Entry
  <1>2. e.rounds + 1 \in Nat
    BY DEF Entry
  <1>3. 0 \in Nat
    OBVIOUS
  <1>4. NextRound(e) \in Entry
    BY <1>2, <1>3, Zenon DEF Entry, NextRound
  <1> QED BY <1>1, <1>4, Zenon

\* An offer again, and an answered report, rewrite an entry.
LEMMA RewriteOK ==
    ASSUME NEW s, NEW B, BookOK(B, s), NEW m \in Messages, B.out[m] # None
    PROVE  /\ BookOK([B EXCEPT !.out[m] = [@ EXCEPT !.idle = 0]], s)
           /\ BookOK([B EXCEPT !.out[m] = [@ EXCEPT !.idle = 0, !.since = 0]], s)
           /\ BookOK([B EXCEPT !.out[m] = NextRound(@)], s)
  <1>1. BookShape(B)
    BY Zenon DEF BookOK
  <1>2. B.out[m] \in Entry
    BY <1>1, BookShaped, Zenon
  <1>3. 0 \in Nat
    OBVIOUS
  <1> DEFINE e == B.out[m]
             e1 == [e EXCEPT !.idle = 0]
             e2 == [e EXCEPT !.idle = 0, !.since = 0]
             e3 == NextRound(e)
  <1>4. e1 \in Entry /\ e2 \in Entry /\ e3 \in Entry
    <2> HIDE DEF e
    <2>1. e \in Entry
      BY <1>2, Zenon DEF e
    <2> QED BY <1>3, <2>1, EntryAged, Zenon
  <1> HIDE DEF e1, e2, e3
  <1>5. ASSUME NEW x \in Entry PROVE BookOK([B EXCEPT !.out[m] = x], s)
    <2>1. BookAged(B, [B EXCEPT !.out[m] = x])
      BY <1>1, RewriteAged, Zenon
    <2> QED BY <2>1, BookAgedOK, Zenon
  <1>6. BookOK([B EXCEPT !.out[m] = e1], s) /\ BookOK([B EXCEPT !.out[m] = e2], s)
          /\ BookOK([B EXCEPT !.out[m] = e3], s)
    BY <1>4, <1>5, Zenon
  <1> QED BY <1>6, Zenon DEF e1, e2, e3

\* Time passes for every entry.
LEMMA BookTickOK ==
    ASSUME NEW s, NEW B, BookOK(B, s)
    PROVE  BookOK([B EXCEPT !.out = [m \in Messages |-> LaterEntry(@[m])]], s)
  <1> DEFINE O == [m \in Messages |-> LaterEntry(B.out[m])]
             C == [B EXCEPT !.out = O]
  <1>1. B.out \in [Messages -> Entry \cup {None}] /\ B.bytes \in [Nodes -> Nat]
    BY BookShaped, Zenon DEF BookOK
  <1>2. ASSUME NEW e \in Entry PROVE LaterEntry(e) \in Entry
    <2> DEFINE i == Later(e.idle, RecoveryTTL)
               j == Later(e.since, FullRetry)
    <2>1. e.idle \in Nat /\ e.since \in Nat
      BY DEF Entry
    <2>2. i \in Nat /\ j \in Nat
      BY <2>1 DEF Later
    <2>3. e # None
      BY NoneAssumption, Zenon
    <2>4. LaterEntry(e) = [e EXCEPT !.idle = i, !.since = j]
      BY <2>3, Zenon DEF LaterEntry
    <2> HIDE DEF i, j
    <2>5. /\ [e EXCEPT !.idle = i] \in Entry /\ [e EXCEPT !.idle = i, !.since = j] \in Entry
          /\ NextRound(e) \in Entry
      BY <2>2, EntryAged, Zenon
    <2> QED BY <2>4, <2>5, Zenon
  <1>3. LaterEntry(None) = None /\ \A e \in Entry : LaterEntry(e) # None
    BY <1>2, NoneAssumption, Zenon DEF LaterEntry
  <1>4. O \in [Messages -> Entry \cup {None}] /\ \A m \in Messages : O[m] = None <=> B.out[m] = None
    BY <1>1, <1>2, <1>3, Zenon
  <1>5. C \in [out : {O}, bytes : {B.bytes}]
    <2> HIDE DEF O
    <2> QED BY Zenon DEF BookOK, BookShape
  <1> HIDE DEF O, C
  <1>6. C.out = O /\ C.bytes = B.bytes /\ BookShape(C)
    BY <1>1, <1>4, <1>5, Zenon DEF BookShape
  <1>7. BookAged(B, C)
    BY <1>4, <1>6, Zenon DEF BookAged
  <1>8. BookOK(C, s)
    BY <1>7, BookAgedOK, Zenon
  <1> QED BY <1>8, Zenon DEF C, O
(***************************************************************************)
(* Frames.                                                                 *)
(***************************************************************************)
\* What the proofs need of a frame.
IsFrame(f) ==
    /\ f.m \in Messages
    /\ f.kind = "fragment" => IsFragment(f)
    /\ f.kind = "missing" => \A x \in f.ranges : x[1] \in Nat /\ x[2] \in Nat

Framed(N) == \A f \in N : IsFrame(f)

\* A fragment with bytes in it is a frame.
LEMMA FragmentFrame ==
    ASSUME NEW m \in Messages, NEW off \in Nat, NEW len \in Nat \ {0}
    PROVE  IsFrame(Fragment(m, off, len))
  <1> DEFINE f == Fragment(m, off, len)
  <1>1. f.m = m /\ f.off = off /\ f.len = len /\ f.kind = "fragment"
    BY DEF Fragment
  <1>2. f.kind # "missing"
    BY <1>1
  <1> HIDE DEF f
  <1>3. IsFrame(f)
    BY <1>1, <1>2, Zenon DEF IsFrame, IsFragment
  <1> QED BY <1>3, Zenon DEF f

\* A cut leaves no empty fragment.
LEMMA ChunksFramed ==
    ASSUME NEW m \in Messages, NEW start \in Nat, NEW len \in Nat, NEW cap \in Nat \ {0}
    PROVE  Framed(Chunks(m, start, len, cap))
  <1>1. ASSUME NEW off \in Bytes(start, len)
        PROVE  IsFrame(Fragment(m, off, Min({cap, start + len - off})))
    <2> DEFINE T == {cap, start + len - off}
    <2>1. off \in Nat /\ off < start + len
      BY BytesAre, Zenon
    <2>2. T \in SUBSET Nat /\ T # {} /\ \A y \in T : y \in Nat \ {0}
      BY <2>1
    <2> HIDE DEF T
    <2>3. Min(T) \in T
      BY <2>2, LeastNat, Zenon
    <2>4. Min(T) \in Nat \ {0}
      BY <2>2, <2>3, Zenon
    <2>5. IsFrame(Fragment(m, off, Min(T)))
      BY <2>1, <2>4, FragmentFrame, Zenon
    <2> QED BY <2>5, Zenon DEF T
  <1> QED BY <1>1, Zenon DEF Framed, Chunks

\* A report of sound fragments is a frame.
LEMMA ReportFrame ==
    ASSUME NEW m \in Messages, NEW T, Sound(m, T)
    PROVE  IsFrame(Report(m, MissingRanges(T.frags, Size[m])))
  <1> DEFINE F == T.frags
             G == MissingRanges(F, Size[m])
             f == Report(m, G)
  <1>1. F \in Fragments /\ Apart(F, Size[m])
    <2>1. T \in Part /\ Apart(F, Size[m])
      BY Zenon DEF Sound
    <2> QED BY <2>1 DEF Part
  <1>2. Size[m] \in Nat
    BY MessageEnds
  <1> HIDE DEF F
  <1>3. \A o \in Ends(F, Size[m]) : /\ o \in Nat /\ o <= Size[m] /\ (o # Size[m] => o \in DOMAIN F)
                                    /\ Cursor(F, o) \in Nat /\ Cursor(F, o) < o
    BY <1>1, <1>2, EndsAre, Zenon
  <1>4. \A o \in Ends(F, Size[m]) : Gap(F, o)[1] \in Nat /\ Gap(F, o)[2] \in Nat
    BY <1>3 DEF Gap
  <1>5. G = {Gap(F, o) : o \in First(Ends(F, Size[m]))}
    BY RangesAre, Zenon
  <1>6. First(Ends(F, Size[m])) \in SUBSET Ends(F, Size[m])
    BY Zenon DEF First
  <1>7. \A x \in G : x[1] \in Nat /\ x[2] \in Nat
    <2> HIDE DEF G
    <2> QED BY <1>4, <1>5, <1>6, Zenon
  <1> HIDE DEF G
  <1>8. f.m = m /\ f.ranges = G /\ f.kind # "fragment"
    BY DEF Report
  <1> HIDE DEF f
  <1>9. IsFrame(f)
    BY <1>7, <1>8, Zenon DEF IsFrame
  <1> QED BY <1>9, Zenon DEF f, G, F

\* So are the other two kinds.
LEMMA OtherFrames ==
    ASSUME NEW m \in Messages
    PROVE  IsFrame(Ack(m)) /\ IsFrame(Complete(m))
  <1>1. IsFrame(Ack(m))
    BY DEF IsFrame, Ack
  <1>2. IsFrame(Complete(m))
    BY DEF IsFrame, Complete
  <1> QED BY <1>1, <1>2, Zenon

\* Sending frames, and taking one off the network, leaves frames.
LEMMA SentFramed ==
    ASSUME NEW N, Framed(N), NEW M, Framed(M), NEW f
    PROVE  Framed(Sent(N \ {f}, M)) /\ Framed(Sent(N, M)) /\ Framed(N \cup M) /\ Framed(N \ {f})
  BY Zenon DEF Framed, Sent

\* A receiver's report about a retained transfer.
LEMMA ReplyFramed ==
    ASSUME NEW s, NEW R, Whole(R, s), NEW m \in Kept(R)
    PROVE  Framed(Reply(R, m))
  <1> USE Zenon
  <1>1. Sound(m, R.parts[m]) /\ m \in Messages
    BY DEF Whole, Near, Kept
  <1>2. IsFrame(Report(m, MissingRanges(R.parts[m].frags, Size[m])))
    BY <1>1, ReportFrame
  <1> QED BY <1>2 DEF Reply, Framed

(***************************************************************************)
(* The inductive invariant.                                                *)
(***************************************************************************)
\* Every frame is one a node sends, the reassemblers are whole and the books agree
\* with their counters and their limits.
TransferInv ==
    /\ setup \in Setup /\ capacity \in [Nodes -> Nat \ {0}]
    /\ Framed(net) /\ Whole(reasm, setup) /\ BookOK(book, setup)

\* The invariant after a step.
InvAfter ==
    /\ setup' = setup /\ capacity' \in [Nodes -> Nat \ {0}]
    /\ Framed(net') /\ Whole(reasm', setup) /\ BookOK(book', setup)

\* It is the invariant in the next state.
LEMMA StepKeeps ==
    ASSUME TransferInv, InvAfter
    PROVE  TransferInv'
  BY Zenon DEF TransferInv, InvAfter

\* Nothing is retained and nothing is booked at the start.
LEMMA TransferInit == Init => TransferInv
  <1> SUFFICES ASSUME Init PROVE TransferInv
    OBVIOUS
  <1>1. setup \in Setup
    BY SetupAssumption, Zenon DEF Init
  <1>2. capacity \in [Nodes -> Nat \ {0}]
    <2> USE Zenon
    <2>1. capacity \in [Nodes -> UNION {Capacities[n] : n \in Nodes}] /\ \A n \in Nodes : capacity[n] \in Capacities[n]
      BY DEF Init
    <2>2. \A n \in Nodes : Capacities[n] \in SUBSET (Nat \ {0})
      BY TransferAssumption
    <2>3. \A n \in Nodes : capacity[n] \in Nat \ {0}
      BY <2>1, <2>2
    <2>4. capacity = [n \in Nodes |-> capacity[n]]
      BY <2>1
    <2> QED BY <2>3, <2>4
  <1>3. Framed(net)
    BY Zenon DEF Init, Framed
  <1>4. /\ setup.transfers \in Nat /\ setup.peer \in Nat /\ setup.total \in Nat
    BY <1>1, SetupIs, Zenon
  <1>5. /\ setup.book_transfers \in Nat /\ setup.book_total_transfers \in Nat
        /\ setup.book_peer \in Nat /\ setup.book_total \in Nat
    BY <1>1, BookSetup, Zenon
  <1>6. 0 \in Nat /\ \A k \in Nat : 0 <= k
    OBVIOUS
  <1>7. Cardinality({}) = 0 /\ OutBytes({}) = 0 /\ PartBytes(reasm, {}) = 0
    BY FS_EmptySet, OutBytesNone, PartBytesNone, Zenon
  <1> DEFINE P == [m \in Messages |-> None]
             d == [r \in Nodes |-> [s \in Nodes |-> 0]]
             a == [r \in Nodes |-> 0]
  <1>8. Whole(reasm, setup)
    <2>1. reasm = [parts |-> P, peer |-> d, all |-> a]
      BY Zenon DEF Init
    <2>2. P \in [Messages -> Part \cup {None}] /\ d \in [Nodes -> [Nodes -> Nat]] /\ a \in [Nodes -> Nat]
      BY <1>6, Zenon
    <2>3. /\ \A m \in Messages : P[m] = None
          /\ \A n \in Nodes : a[n] = 0 /\ \A p \in Nodes : d[n][p] = 0
      BY Zenon
    <2> HIDE DEF P, d, a
    <2>4. Shape(reasm) /\ reasm.parts = P /\ reasm.peer = d /\ reasm.all = a
      BY <2>1, <2>2, SMTT(30) DEF Shape
    <2>5. Kept(reasm) = {} /\ (\A n : At(reasm, n) = {}) /\ \A n, p : AtFrom(reasm, n, p) = {}
      BY <2>3, <2>4, Zenon DEF Kept, At, AtFrom
    <2>6. Counted(reasm)
      BY <1>7, <2>3, <2>4, <2>5, Zenon DEF Counted
    <2>7. Within(reasm, setup)
      BY <1>4, <1>6, <1>7, <2>3, <2>4, <2>5, Zenon DEF Within
    <2> QED BY <2>4, <2>5, <2>6, <2>7, Zenon DEF Whole, Near
  <1>9. BookOK(book, setup)
    <2>1. book = [out |-> P, bytes |-> a]
      BY Zenon DEF Init
    <2>2. P \in [Messages -> Entry \cup {None}] /\ a \in [Nodes -> Nat]
      BY <1>6, Zenon
    <2>3. (\A m \in Messages : P[m] = None) /\ \A n \in Nodes : a[n] = 0
      BY Zenon
    <2> HIDE DEF P, a
    <2>4. BookShape(book) /\ book.out = P /\ book.bytes = a
      BY <2>1, <2>2, SMTT(30) DEF BookShape
    <2>5. (\A n : Out(book, n) = {}) /\ \A n, p : OutTo(book, n, p) = {}
      BY <2>3, <2>4, Zenon DEF Out, OutTo
    <2>6. Booked(book)
      BY <1>7, <2>3, <2>4, <2>5, Zenon DEF Booked
    <2>7. \A n \in Nodes : SenderWithin(book, setup, n) /\ \A p \in Nodes : PeerWithin(book, setup, n, p)
      BY <1>5, <1>6, <1>7, <2>5, Zenon DEF SenderWithin, PeerWithin
    <2> QED BY <2>4, <2>6, <2>7, BookOKIs, Zenon
  <1> QED BY <1>1, <1>2, <1>3, <1>8, <1>9, Zenon DEF TransferInv

\* The frames of a message cut along the sender's grid.
LEMMA CutFramed ==
    ASSUME TransferInv, NEW m \in Messages
    PROVE  Framed(Cut(m))
  <1>1. From[m] \in Nodes /\ Size[m] \in Nat /\ 0 \in Nat
    BY MessageEnds
  <1>2. capacity[From[m]] \in Nat \ {0}
    BY <1>1, Zenon DEF TransferInv
  <1> QED BY <1>1, <1>2, ChunksFramed, Zenon DEF Cut

\* Offering a message.
LEMMA OfferKeeps ==
    ASSUME TransferInv, NEW m \in setup.messages, OfferComplete(m) \/ Offer(m)
    PROVE  InvAfter
  <1>1. /\ setup \in Setup /\ capacity \in [Nodes -> Nat \ {0}]
        /\ Framed(net) /\ Whole(reasm, setup) /\ BookOK(book, setup)
    BY Zenon DEF TransferInv
  <1>2. m \in Messages
    BY <1>1 DEF Setup
  <1>3. From[m] \in Nodes
    BY <1>2, MessageEnds, Zenon
  <1>4. CASE OfferComplete(m)
    <2> USE Zenon
    <2>1. Framed({Complete(m)})
      BY <1>2, OtherFrames DEF Framed
    <2>2. Framed(net \cup {Complete(m)})
      BY <1>1, <2>1 DEF Framed
    <2> QED BY <1>1, <1>4, <2>2 DEF OfferComplete, InvAfter
  <1>5. CASE Offer(m)
    <2> USE Zenon
    <2> DEFINE B == Sweep(book, From[m])
    <2>1. BookOK(B, setup)
      BY <1>1, <1>3, SweepOK
    <2>2. Framed(net \cup Cut(m))
      <3>1. Framed(Cut(m))
        BY <1>2, CutFramed
      <3> QED BY <1>1, <3>1 DEF Framed
    <2>3. \/ book' = book \/ book' = B
          \/ Retainable(m) /\ B.out[m] = None /\ book' = Enter(B, m)
          \/ B.out[m] # None /\ book' = [B EXCEPT !.out[m] = [@ EXCEPT !.idle = 0, !.since = 0]]
          \/ B.out[m] # None /\ book' = [B EXCEPT !.out[m] = [@ EXCEPT !.idle = 0]]
      BY <1>5 DEF Offer
    <2>4. (net' = net \/ net' = net \cup Cut(m)) /\ UNCHANGED <<setup, capacity, reasm>>
      BY <1>5 DEF Offer
    <2>5. Framed(net')
      BY <1>1, <2>2, <2>4
    <2>6. BookOK(book', setup)
      <3> HIDE DEF B
      <3>1. CASE book' = book \/ book' = B
        BY <1>1, <2>1, <3>1
      <3>2. CASE Retainable(m) /\ B.out[m] = None /\ book' = Enter(B, m)
        <4>1. BookOK(Enter(B, m), setup)
          BY <1>1, <1>2, <2>1, <3>2, EnterOK
        <4> QED BY <3>2, <4>1
      <3>3. CASE B.out[m] # None /\ \/ book' = [B EXCEPT !.out[m] = [@ EXCEPT !.idle = 0, !.since = 0]]
                                    \/ book' = [B EXCEPT !.out[m] = [@ EXCEPT !.idle = 0]]
        <4>1. /\ BookOK([B EXCEPT !.out[m] = [@ EXCEPT !.idle = 0]], setup)
              /\ BookOK([B EXCEPT !.out[m] = [@ EXCEPT !.idle = 0, !.since = 0]], setup)
              /\ BookOK([B EXCEPT !.out[m] = NextRound(@)], setup)
          BY <1>2, <2>1, <3>3, RewriteOK
        <4> QED BY <3>3, <4>1
      <3> QED BY <2>3, <3>1, <3>2, <3>3
    <2> QED BY <1>1, <2>4, <2>5, <2>6 DEF InvAfter
  <1> QED BY <1>4, <1>5, Zenon

\* A fragment arrives.
LEMMA DeliverFragmentKeeps ==
    ASSUME TransferInv, NEW f \in net, DeliverFragment(f)
    PROVE  InvAfter
  <1> DEFINE E == Expire(reasm, To[f.m])
             a == AcceptFragment(E, f)
             ask == a.outcome = "waiting" /\ Terminal(f) /\ Due(a.R, f.m) /\ MaxRanges > 0
             D == [a.R EXCEPT !.parts[f.m].asked = 0]
             X == IF ask THEN Reply(a.R, f.m)
                  ELSE IF a.outcome = "whole" /\ From[f.m] \in capable[To[f.m]] THEN {Ack(f.m)} ELSE {}
  <1>1. /\ setup \in Setup /\ capacity \in [Nodes -> Nat \ {0}]
        /\ Framed(net) /\ Whole(reasm, setup) /\ BookOK(book, setup)
    BY Zenon DEF TransferInv
  <1>2. IsFragment(f) /\ f.m \in Messages
    BY <1>1, Zenon DEF Framed, IsFrame, DeliverFragment
  <1>3. To[f.m] \in Nodes
    BY <1>2, MessageEnds, Zenon
  <1>4. /\ reasm' = IF ask THEN D ELSE a.R
        /\ net' = Sent(net \ {f}, X)
        /\ UNCHANGED <<setup, capacity, book>>
    BY Zenon DEF DeliverFragment
  <1>5. Whole(E, setup)
    BY <1>1, <1>3, ExpireWhole, Zenon
  <1> HIDE DEF E
  <1>6. Accepted(a, f.m)
    BY <1>1, <1>2, <1>5, AcceptWhole, Zenon
  <1> HIDE DEF a
  <1>7. Whole(a.R, setup) /\ (a.outcome = "waiting" => f.m \in Kept(a.R))
    BY <1>6, Zenon DEF Accepted
  <1>8. ask => Whole(D, setup) /\ Framed(Reply(a.R, f.m))
    <2> SUFFICES ASSUME ask PROVE Whole(D, setup) /\ Framed(Reply(a.R, f.m))
      OBVIOUS
    <2>1. f.m \in Kept(a.R) /\ Shape(a.R)
      BY <1>7, Zenon DEF Whole, Near
    <2>2. Framed(Reply(a.R, f.m))
      BY <1>7, <2>1, ReplyFramed, Zenon
    <2>3. Aged(a.R, [a.R EXCEPT !.parts[f.m].idle = 0]) /\ Aged(a.R, D)
      BY <2>1, ResetAged, Zenon
    <2> HIDE DEF D, ask
    <2>4. Whole(D, setup) /\ Kept(D) = Kept(a.R)
      BY <1>7, <2>3, AgedWhole, Zenon
    <2> QED BY <2>2, <2>4, ZenonT(60)
  <1> HIDE DEF D, ask
  <1>9. Framed({Ack(f.m)}) /\ Framed({})
    BY <1>2, OtherFrames, Zenon DEF Framed
  <1>10. Framed(X)
    BY <1>8, <1>9, Zenon
  <1> HIDE DEF X
  <1>11. Framed(net')
    <2>1. /\ Framed(Sent(net \ {f}, X)) /\ Framed(Sent(net, X)) /\ Framed(net \cup X)
          /\ Framed(net \ {f})
      BY <1>1, <1>10, SentFramed, Zenon
    <2> QED BY <1>4, <2>1, Zenon
  <1>12. Whole(reasm', setup)
    BY <1>4, <1>7, <1>8, Zenon
  <1> QED BY <1>1, <1>4, <1>11, <1>12, Zenon DEF InvAfter

\* Taking a frame off the network.
LEMMA LessFramed ==
    ASSUME NEW N, Framed(N), NEW f
    PROVE  Framed(N \ {f})
  BY Zenon DEF Framed

\* A whole message, an acknowledgement or a report that is not answered arrives.
LEMMA DeliverOtherKeeps ==
    ASSUME TransferInv, NEW f \in net, DeliverComplete(f) \/ DeliverAck(f) \/ IgnoreReport(f)
    PROVE  InvAfter
  <1> USE Zenon
  <1>1. /\ setup \in Setup /\ capacity \in [Nodes -> Nat \ {0}]
        /\ Framed(net) /\ Whole(reasm, setup) /\ BookOK(book, setup)
    BY DEF TransferInv
  <1>2. f.m \in Messages
    BY <1>1 DEF Framed, IsFrame
  <1>3. To[f.m] \in Nodes /\ From[f.m] \in Nodes
    BY <1>2, MessageEnds
  <1>4. Framed(net \ {f})
    BY <1>1, LessFramed
  <1>5. Whole(Expire(reasm, To[f.m]), setup)
    BY <1>1, <1>3, ExpireWhole
  <1>6. BookOK(Unbook(book, From[f.m], {f.m}), setup)
    BY <1>1, <1>3, UnbookOne
  <1>7. BookOK(Sweep(book, From[f.m]), setup)
    BY <1>1, <1>3, SweepOK
  <1>8. CASE DeliverComplete(f)
    <2>1. net' = net \ {f} /\ reasm' = Expire(reasm, To[f.m]) /\ UNCHANGED <<setup, capacity, book>>
      BY <1>8 DEF DeliverComplete
    <2> QED BY <1>1, <1>4, <1>5, <2>1 DEF InvAfter
  <1>9. CASE DeliverAck(f)
    <2>1. net' = net \ {f} /\ book' = Unbook(book, From[f.m], {f.m}) /\ UNCHANGED <<setup, capacity, reasm>>
      BY <1>9 DEF DeliverAck
    <2> QED BY <1>1, <1>4, <1>6, <2>1 DEF InvAfter
  <1>10. CASE IgnoreReport(f)
    <2>1. /\ net' = net \ {f} /\ UNCHANGED <<setup, capacity, reasm>>
          /\ book' = Sweep(book, From[f.m]) \/ book' = book
      BY <1>10 DEF IgnoreReport
    <2> QED BY <1>1, <1>4, <1>7, <2>1 DEF InvAfter
  <1> QED BY <1>8, <1>9, <1>10

\* A report is answered, or the answer fails.
LEMMA ServeKeeps ==
    ASSUME TransferInv, NEW f \in net, ServeReport(f) \/ ServeReportFails(f)
    PROVE  InvAfter
  <1> USE Zenon
  <1> DEFINE B == Sweep(book, From[f.m])
             C == [B EXCEPT !.out[f.m] = NextRound(@)]
  <1>1. /\ setup \in Setup /\ capacity \in [Nodes -> Nat \ {0}]
        /\ Framed(net) /\ Whole(reasm, setup) /\ BookOK(book, setup)
    BY DEF TransferInv
  <1>2. f.m \in Messages /\ \A x \in f.ranges : x[1] \in Nat /\ x[2] \in Nat
    BY <1>1 DEF Framed, IsFrame, ServeReport, ServeReportFails
  <1>3. From[f.m] \in Nodes
    BY <1>2, MessageEnds
  <1>4. /\ B.out[f.m] # None /\ book' = C /\ UNCHANGED <<setup, capacity, reasm>>
        /\ net' = Sent(net \ {f}, Wanted(f)) \/ net' = net \ {f}
    BY DEF ServeReport, ServeReportFails, Answerable
  <1>5. BookOK(B, setup)
    BY <1>1, <1>3, SweepOK
  <1> HIDE DEF B
  <1>6. /\ BookOK([B EXCEPT !.out[f.m] = [@ EXCEPT !.idle = 0]], setup)
        /\ BookOK([B EXCEPT !.out[f.m] = [@ EXCEPT !.idle = 0, !.since = 0]], setup)
        /\ BookOK(C, setup)
    BY <1>2, <1>4, <1>5, RewriteOK
  <1>7. capacity[From[f.m]] \in Nat \ {0}
    BY <1>1, <1>3
  <1>8. \A x \in f.ranges : Framed(Chunks(f.m, x[1], x[2], capacity[From[f.m]]))
    BY <1>2, <1>7, ChunksFramed
  <1>9. Framed(Wanted(f))
    BY <1>8 DEF Wanted, Framed
  <1>10. /\ Framed(Sent(net \ {f}, Wanted(f))) /\ Framed(Sent(net, Wanted(f)))
         /\ Framed(net \cup Wanted(f)) /\ Framed(net \ {f})
    BY <1>1, <1>9, SentFramed
  <1> HIDE DEF C
  <1> QED BY <1>1, <1>4, <1>6, <1>10 DEF InvAfter

\* The end of an answer, the timers, and a capability heard or lapsed.
LEMMA TimersKeep ==
    ASSUME TransferInv, NEW n \in Nodes, NEW p \in Nodes,
           \/ Forget(n) \/ RecvTimeout(n) \/ HearCapability(n, p) \/ LapseCapability(n, p)
    PROVE  InvAfter
  <1> USE Zenon
  <1>1. /\ setup \in Setup /\ capacity \in [Nodes -> Nat \ {0}]
        /\ Framed(net) /\ Whole(reasm, setup) /\ BookOK(book, setup)
    BY DEF TransferInv
  <1>2. Whole(Expire(reasm, n), setup)
    BY <1>1, ExpireWhole
  <1>3. BookOK(Sweep(book, n), setup)
    BY <1>1, SweepOK
  <1>4. BookOK(Unbook(book, n, {forgetting[n]}), setup)
    BY <1>1, UnbookOne
  <1>5. CASE Forget(n)
    <2>1. book' = Unbook(book, n, {forgetting[n]}) /\ UNCHANGED <<setup, capacity, net, reasm>>
      BY <1>5 DEF Forget
    <2> QED BY <1>1, <1>4, <2>1 DEF InvAfter
  <1>6. CASE RecvTimeout(n) \/ HearCapability(n, p)
    <2>1. reasm' = Expire(reasm, n) /\ book' = Sweep(book, n) /\ UNCHANGED <<setup, capacity, net>>
      BY <1>6 DEF RecvTimeout, HearCapability
    <2> QED BY <1>1, <1>2, <1>3, <2>1 DEF InvAfter
  <1>7. CASE LapseCapability(n, p)
    <2>1. UNCHANGED <<setup, capacity, net, reasm, book>>
      BY <1>7 DEF LapseCapability
    <2> QED BY <1>1, <2>1 DEF InvAfter
  <1> QED BY <1>5, <1>6, <1>7

\* Idle transfers are asked for.
LEMMA RetryKeeps ==
    ASSUME TransferInv, NEW n \in Nodes, RetryIdle(n)
    PROVE  InvAfter
  <1> USE Zenon
  <1> DEFINE R == Expire(reasm, n)
             P == Polled(R, n)
             Q == [R EXCEPT !.parts = [m \in Messages |-> IF m \in P THEN [@[m] EXCEPT !.asked = 0] ELSE @[m]]]
             X == UNION {Reply(R, m) : m \in P}
  <1>1. /\ setup \in Setup /\ capacity \in [Nodes -> Nat \ {0}]
        /\ Framed(net) /\ Whole(reasm, setup) /\ BookOK(book, setup)
    BY DEF TransferInv
  <1>2. reasm' = Q /\ net' = Sent(net, X) /\ UNCHANGED <<setup, capacity, book>>
    BY DEF RetryIdle
  <1>3. Whole(R, setup)
    BY <1>1, ExpireWhole
  <1> HIDE DEF R
  <1>4. Shape(R) /\ P \in SUBSET Kept(R)
    <2>1. At(R, n) \in SUBSET Kept(R)
      BY AtKept
    <2>2. P \in SUBSET At(R, n)
      BY DEF Polled
    <2> QED BY <1>3, <2>1, <2>2 DEF Whole, Near
  <1> HIDE DEF P
  <1>5. Aged(R, Q)
    BY <1>4, PollAged
  <1> HIDE DEF Q
  <1>6. Whole(Q, setup) /\ Kept(Q) = Kept(R)
    BY <1>3, <1>5, AgedWhole
  <1>7. \A m \in P : Framed(Reply(R, m))
    BY <1>3, <1>4, ReplyFramed
  <1>8. Framed(X)
    BY <1>7 DEF Framed
  <1> HIDE DEF X
  <1>9. Framed(Sent(net, X))
    BY <1>1, <1>8 DEF Framed, Sent
  <1> QED BY <1>1, <1>2, <1>6, <1>9 DEF InvAfter

\* Time passes.
LEMMA TickKeeps ==
    ASSUME TransferInv, Tick
    PROVE  InvAfter
  <1> USE Zenon
  <1> DEFINE Q == [reasm EXCEPT !.parts = [m \in Messages |-> LaterPart(@[m])]]
             C == [book EXCEPT !.out = [m \in Messages |-> LaterEntry(@[m])]]
  <1>1. /\ setup \in Setup /\ capacity \in [Nodes -> Nat \ {0}]
        /\ Framed(net) /\ Whole(reasm, setup) /\ BookOK(book, setup)
    BY DEF TransferInv
  <1>2. reasm' = Q /\ book' = C /\ UNCHANGED <<setup, capacity, net>>
    BY DEF Tick
  <1>3. Shape(reasm)
    BY <1>1 DEF Whole, Near
  <1>4. Aged(reasm, Q)
    BY <1>3, TickAged
  <1>5. BookOK(C, setup)
    BY <1>1, BookTickOK
  <1> HIDE DEF Q, C
  <1>6. Whole(Q, setup) /\ Kept(Q) = Kept(reasm)
    BY <1>1, <1>4, AgedWhole
  <1> QED BY <1>1, <1>2, <1>5, <1>6 DEF InvAfter

\* A frame is lost, or a node restarts.
LEMMA FaultsKeep ==
    ASSUME TransferInv,
           \/ \E f \in net : Lose(f)
           \/ \E n \in Nodes : \E cap \in Capacities[n] : Restart(n, cap)
    PROVE  InvAfter
  <1> USE Zenon
  <1>1. /\ setup \in Setup /\ capacity \in [Nodes -> Nat \ {0}]
        /\ Framed(net) /\ Whole(reasm, setup) /\ BookOK(book, setup)
    BY DEF TransferInv
  <1>2. ASSUME NEW f \in net, Lose(f) PROVE InvAfter
    <2>1. net' = net \ {f} /\ UNCHANGED <<setup, capacity, reasm, book>>
      BY <1>2 DEF Lose
    <2>2. Framed(net \ {f})
      BY <1>1, LessFramed
    <2> QED BY <1>1, <2>1, <2>2 DEF InvAfter
  <1>3. ASSUME NEW n \in Nodes, NEW cap \in Capacities[n], Restart(n, cap) PROVE InvAfter
    <2> DEFINE V == At(reasm, n)
               W == Out(book, n)
    <2>1. /\ capacity' = [capacity EXCEPT ![n] = cap] /\ reasm' = RemoveParts(reasm, n, V)
          /\ book' = Unbook(book, n, W) /\ UNCHANGED <<setup, net>>
      BY <1>3 DEF Restart
    <2>2. cap \in Nat \ {0}
      BY TransferAssumption
    <2>3. [capacity EXCEPT ![n] = cap] \in [Nodes -> Nat \ {0}]
      BY <1>1, <2>2
    <2>4. /\ V \in SUBSET At(reasm, n) /\ W \in SUBSET Out(book, n) /\ Near(reasm, setup)
          /\ \A m \in Kept(reasm) \ V : reasm.parts[m].bytes # Size[m]
      BY <1>1 DEF Whole
    <2> HIDE DEF V, W
    <2>5. Whole(RemoveParts(reasm, n, V), setup)
      BY <1>1, <2>4, RemoveWhole
    <2>6. BookOK(Unbook(book, n, W), setup)
      BY <1>1, <2>4, UnbookOK
    <2> QED BY <1>1, <2>1, <2>3, <2>5, <2>6 DEF InvAfter
  <1> QED BY <1>2, <1>3

\* Every step keeps the invariant.
LEMMA TransferNext == TransferInv /\ [Next]_vars => TransferInv'
  <1> SUFFICES ASSUME TransferInv, [Next]_vars PROVE InvAfter
    BY StepKeeps, Zenon
  <1>1. ASSUME NEW m \in setup.messages, OfferComplete(m) \/ Offer(m) PROVE InvAfter
    BY <1>1, OfferKeeps, Zenon
  <1>2. ASSUME NEW f \in net, Deliver(f) PROVE InvAfter
    BY <1>2, DeliverFragmentKeeps, DeliverOtherKeeps, ServeKeeps, Zenon DEF Deliver
  <1>3. ASSUME NEW f \in net, ServeReportFails(f) PROVE InvAfter
    BY <1>3, ServeKeeps, Zenon
  <1>4. ASSUME NEW n \in Nodes, Forget(n) \/ RecvTimeout(n) PROVE InvAfter
    BY <1>4, TimersKeep, Zenon
  <1>5. ASSUME NEW n \in Nodes, RetryIdle(n) PROVE InvAfter
    BY <1>5, RetryKeeps, Zenon
  <1>6. ASSUME NEW m \in setup.messages, HearCapability(From[m], To[m]) \/ HearCapability(To[m], From[m])
        PROVE  InvAfter
    <2>1. setup.messages \in SUBSET Messages
      BY DEF TransferInv, Setup
    <2>2. From[m] \in Nodes /\ To[m] \in Nodes
      BY <2>1, MessageEnds, Zenon
    <2> QED BY <1>6, <2>2, TimersKeep, Zenon
  <1>7. ASSUME NEW n \in Nodes, NEW p \in Nodes, LapseCapability(n, p) PROVE InvAfter
    BY <1>7, TimersKeep, Zenon
  <1>8. CASE \/ \E f \in net : Lose(f)
             \/ \E n \in Nodes : \E cap \in Capacities[n] : Restart(n, cap)
    BY <1>8, FaultsKeep, Zenon
  <1>9. CASE Tick
    BY <1>9, TickKeeps, Zenon
  <1>10. CASE UNCHANGED vars
    BY <1>10, Zenon DEF vars, TransferInv, InvAfter
  <1> QED BY <1>1, <1>2, <1>3, <1>4, <1>5, <1>6, <1>7, <1>8, <1>9, <1>10, Zenon DEF Next

\* The inductive invariant holds throughout.
THEOREM TransferSound == Spec => []TransferInv
  BY TransferInit, TransferNext, PTL DEF Spec

\* The counters agree with what is retained and booked, and are within the limits.
LEMMA InvAccounted == TransferInv => BytesAccounted
  <1> SUFFICES ASSUME TransferInv PROVE BytesAccounted
    OBVIOUS
  <1>1. Counted(reasm) /\ Within(reasm, setup) /\ BookOK(book, setup)
    BY Zenon DEF TransferInv, Whole, Near
  <1>2. ASSUME NEW n \in Nodes
        PROVE  /\ reasm.all[n] = PartBytes(reasm, At(reasm, n)) /\ reasm.all[n] <= setup.total
               /\ book.bytes[n] = OutBytes(Out(book, n)) /\ book.bytes[n] <= setup.book_total
               /\ Cardinality(Out(book, n)) <= setup.book_total_transfers
    BY <1>1, Zenon DEF Counted, Within, BookOK, Booked, BookWithin
  <1>3. ASSUME NEW n \in Nodes, NEW p \in Nodes
        PROVE  /\ reasm.peer[n][p] = PartBytes(reasm, AtFrom(reasm, n, p))
               /\ reasm.peer[n][p] <= setup.peer
               /\ Cardinality(AtFrom(reasm, n, p)) <= setup.transfers
               /\ Cardinality(OutTo(book, n, p)) <= setup.book_transfers
               /\ OutBytes(OutTo(book, n, p)) <= setup.book_peer
    BY <1>1, Zenon DEF Counted, Within, BookOK, BookWithin
  <1> QED BY <1>2, <1>3, Zenon DEF BytesAccounted

\* For every value of the constants, the byte counters of reassembler and recovery
\* book agree with what is retained and stay within the configured limits.
THEOREM BytesStayAccounted == Spec => []BytesAccounted
  BY TransferSound, InvAccounted, PTL

\* A retained transfer lacks something, and its fragments are apart.
LEMMA InvExact == TransferInv => MissingIsExact
  <1> SUFFICES ASSUME TransferInv, NEW m \in Messages, reasm.parts[m] # None
               PROVE  Exact(reasm.parts[m].frags, Size[m])
    BY Zenon DEF MissingIsExact, Exact, Asked, Lacking
  <1> DEFINE T == reasm.parts[m]
             F == T.frags
  <1>1. Sound(m, T) /\ T.bytes # Size[m]
    <2>1. m \in Kept(reasm)
      BY Zenon DEF Kept
    <2> QED BY <2>1, Zenon DEF TransferInv, Whole, Near
  <1>2. T \in Part /\ Apart(F, Size[m]) /\ T.bytes = Cardinality(Covered(F))
    BY <1>1, Zenon DEF Sound
  <1>3. F \in Fragments /\ Size[m] \in Nat
    <2> HIDE DEF T
    <2> QED BY <1>2, MessageEnds, SMTT(30) DEF Part
  <1> HIDE DEF F, T
  <1>4. /\ Covered(F) \subseteq Bytes(0, Size[m]) /\ IsFiniteSet(Covered(F))
        /\ Cardinality(Covered(F)) \in Nat /\ Cardinality(Covered(F)) <= Size[m]
        /\ Cardinality(Covered(F)) = Size[m] <=> Covered(F) = Bytes(0, Size[m])
    BY <1>2, <1>3, CoveredWithin, Zenon
  <1>5. Covered(F) # Bytes(0, Size[m])
    BY <1>1, <1>2, <1>4, Zenon
  <1>6. Exact(F, Size[m])
    BY <1>2, <1>3, <1>5, MissingExact, Zenon
  <1> QED BY <1>6, Zenon DEF F, T

\* For every value of the constants, what a receiver would report missing is what it
\* lacks, gap by gap from the first on.
THEOREM MissingStaysExact == Spec => []MissingIsExact
  BY TransferSound, InvExact, PTL

\* Whatever fragment arrives, accept_fragment refuses it at no cost to what it
\* retains, and completes a message just when all of it has arrived: the hash never
\* fails over a gap, and no covered message is left waiting.
FragmentsGetTheirDue ==
    \A f \in net : f.kind = "fragment" =>
        LET R == Expire(reasm, To[f.m]) IN Deserved(R, f, AcceptFragment(R, f))

\* For every value of the constants, a byte sum equal to total_len means that the
\* whole message is there, as accept_fragment's comment says, and a refused
\* fragment leaves its transfer untouched.
THEOREM FragmentsStayDue == Spec => []FragmentsGetTheirDue
  <1>1. TransferInv => FragmentsGetTheirDue
    <2> USE Zenon
    <2> SUFFICES ASSUME TransferInv, NEW f \in net, f.kind = "fragment"
                 PROVE  Deserved(Expire(reasm, To[f.m]), f, AcceptFragment(Expire(reasm, To[f.m]), f))
      BY DEF FragmentsGetTheirDue
    <2>1. setup \in Setup /\ Whole(reasm, setup) /\ IsFragment(f)
      BY DEF TransferInv, Framed, IsFrame
    <2>2. To[f.m] \in Nodes
      BY <2>1, MessageEnds DEF IsFragment
    <2>3. Whole(Expire(reasm, To[f.m]), setup)
      BY <2>1, <2>2, ExpireWhole
    <2> QED BY <2>1, <2>3, AcceptDeserved
  <1> QED BY <1>1, TransferSound, PTL
==============================================================================
