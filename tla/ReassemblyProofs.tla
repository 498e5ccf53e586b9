-------------------------- MODULE ReassemblyProofs ---------------------------
(***************************************************************************)
(* The reassembler of Transfer, for any messages, limits and fragments: it *)
(* keeps account of every byte it retains and stays within its limits, it  *)
(* finds exactly what is missing, and a fragment completes its message just *)
(* when nothing of it is missing.                                          *)
(***************************************************************************)
EXTENDS Transfer, FiniteSetTheorems, WellFoundedInduction, NaturalsInduction, TLAPS

(***************************************************************************)
(* Sums and extremes.                                                      *)
(***************************************************************************)
\* The least number principle, for Min.
LEMMA LeastNat ==
    ASSUME NEW T \in SUBSET Nat, T # {}
    PROVE  Min(T) \in T /\ \A y \in T : Min(T) <= y
  <1>1. \E x \in T : \A y \in T : ~(<<y, x>> \in OpToRel(<, Nat))
    BY NatLessThanWellFounded, WFMin, Zenon
  <1>2. PICK x \in T : \A y \in T : ~(<<y, x>> \in OpToRel(<, Nat))
    BY <1>1, Zenon
  <1>3. \A y \in T : ~(y < x)
    BY <1>2, Zenon DEF OpToRel
  <1>4. \A y \in T : x <= y
    BY <1>3
  <1> QED BY <1>4, Zenon DEF Min

\* A bounded set of offsets has a greatest member.
LEMMA GreatestNat ==
    ASSUME NEW T \in SUBSET Nat, T # {}, NEW b \in Nat, \A y \in T : y <= b
    PROVE  Max(T) \in T /\ \A y \in T : y <= Max(T)
  <1> DEFINE U == {n \in Nat : \A y \in T : y <= n}
  <1>1. U \in SUBSET Nat /\ U # {}
    BY Zenon
  <1>2. PICK n \in U : \A u \in U : n <= u
    <2> HIDE DEF U
    <2> QED BY <1>1, LeastNat, Zenon
  <1>3. n \in Nat /\ \A y \in T : y <= n
    BY <1>2, Zenon
  <1>4. n \in T
    <2> SUFFICES ASSUME n \notin T PROVE FALSE
      OBVIOUS
    <2>1. \A y \in T : y < n
      BY <1>3
    <2>2. PICK z \in T : TRUE
      BY Zenon
    <2>3. n - 1 \in Nat
      BY <1>3, <2>1, <2>2
    <2>4. \A y \in T : y <= n - 1
      BY <1>3, <2>1
    <2>5. n <= n - 1
      BY <1>2, <2>3, <2>4, Zenon
    <2> QED BY <1>3, <2>5
  <1>5. \A y \in T : n >= y
    BY <1>3
  <1>6. Max(T) \in T /\ \A y \in T : Max(T) >= y
    BY <1>4, <1>5, Zenon DEF Max
  <1> QED BY <1>6

\* The units that Total counts.
Units(w) == UNION {{m} \X (1..w[m]) : m \in DOMAIN w}

\* A unit is a pair of an argument and a number up to its value.
LEMMA UnitsAre ==
    ASSUME NEW V, NEW w \in [V -> Nat]
    PROVE  \A x : x \in Units(w) <=> \E m \in V, i \in Nat : x = <<m, i>> /\ i >= 1 /\ i <= w[m]
  <1>1. DOMAIN w = V /\ \A m \in V : w[m] \in Nat
    OBVIOUS
  <1>2. \A m \in V : \A i : i \in 1..w[m] <=> i \in Nat /\ i >= 1 /\ i <= w[m]
    BY <1>1
  <1>3. \A x : x \in Units(w) <=> \E m \in V : x \in {m} \X (1..w[m])
    BY <1>1, Zenon DEF Units
  <1>4. \A x : \A m \in V : x \in {m} \X (1..w[m]) <=> \E i \in 1..w[m] : x = <<m, i>>
    OBVIOUS
  <1>5. ASSUME NEW x, NEW m \in V
        PROVE  x \in {m} \X (1..w[m]) <=> \E i \in Nat : x = <<m, i>> /\ i >= 1 /\ i <= w[m]
    BY <1>2, <1>4, ZenonT(60)
  <1> HIDE DEF Units
  <1> QED BY <1>3, <1>5, Zenon

\* There are finitely many units when there are finitely many summands.
LEMMA UnitsFinite ==
    ASSUME NEW V, IsFiniteSet(V), NEW w \in [V -> Nat]
    PROVE  IsFiniteSet(Units(w))
  <1> DEFINE Row(m) == {m} \X (1..w[m])
             S == {Row(m) : m \in V}
             f == [m \in V |-> Row(m)]
  <1>1. f \in Surjection(V, S)
    BY Zenon DEF Surjection
  <1>2. IsFiniteSet(S)
    <2> HIDE DEF f, S
    <2> QED BY <1>1, FS_Surjection, Zenon
  <1>3. ASSUME NEW m \in V PROVE IsFiniteSet(Row(m))
    <2>1. IsFiniteSet({m}) BY FS_Singleton, Zenon
    <2>2. IsFiniteSet(1..w[m])
      <3>1. 1 \in Int /\ w[m] \in Int OBVIOUS
      <3> QED BY <3>1, FS_Interval, Zenon
    <2> QED BY <2>1, <2>2, FS_Product, Zenon
  <1>4. \A T \in S : IsFiniteSet(T)
    BY <1>3, Zenon
  <1>5. IsFiniteSet(UNION S)
    <2> HIDE DEF S
    <2> QED BY <1>2, <1>4, FS_UNION, Zenon
  <1>6. Units(w) = UNION S
    BY Zenon DEF Units
  <1> QED BY <1>5, <1>6, Zenon

\* A sum of naturals is one.
LEMMA TotalType ==
    ASSUME NEW V, IsFiniteSet(V), NEW w \in [V -> Nat]
    PROVE  Total(w) \in Nat
  <1>1. Total(w) = Cardinality(Units(w))
    BY Zenon DEF Total, Units
  <1> QED BY <1>1, UnitsFinite, FS_CardinalityType, Zenon

\* A sum splits along its arguments.
LEMMA TotalSplit ==
    ASSUME NEW V, IsFiniteSet(V), NEW w \in [V -> Nat], NEW W \in SUBSET V
    PROVE  Total(w) = Total([m \in W |-> w[m]]) + Total([m \in V \ W |-> w[m]])
  <1> DEFINE a == [m \in W |-> w[m]]
             b == [m \in V \ W |-> w[m]]
  <1>1. a \in [W -> Nat] /\ b \in [V \ W -> Nat] /\ (\A m \in W : a[m] = w[m])
          /\ (\A m \in V \ W : b[m] = w[m])
    OBVIOUS
  <1>2. IsFiniteSet(W) /\ IsFiniteSet(V \ W)
    BY FS_Subset, FS_Difference, Zenon
  <1> HIDE DEF a, b
  <1>3. \A x : x \in Units(a) <=> \E m \in W, i \in Nat : x = <<m, i>> /\ i >= 1 /\ i <= a[m]
    BY <1>1, UnitsAre, Zenon
  <1>4. \A x : x \in Units(b) <=> \E m \in V \ W, i \in Nat : x = <<m, i>> /\ i >= 1 /\ i <= b[m]
    BY <1>1, UnitsAre, Zenon
  <1>5. \A x : x \in Units(w) <=> \E m \in V, i \in Nat : x = <<m, i>> /\ i >= 1 /\ i <= w[m]
    BY UnitsAre, Zenon
  <1>6. Units(w) = Units(a) \cup Units(b)
    <2> USE Zenon
    <2>1. ASSUME NEW x \in Units(w) PROVE x \in Units(a) \/ x \in Units(b)
      <3>1. PICK m \in V : \E i \in Nat : x = <<m, i>> /\ i >= 1 /\ i <= w[m]
        BY <1>5
      <3>2. CASE m \in W
        BY <1>1, <1>3, <3>1, <3>2
      <3>3. CASE m \notin W
        BY <1>1, <1>4, <3>1, <3>3
      <3> QED BY <3>2, <3>3
    <2>2. ASSUME NEW x \in Units(a) PROVE x \in Units(w)
      BY <1>1, <1>3, <1>5
    <2>3. ASSUME NEW x \in Units(b) PROVE x \in Units(w)
      BY <1>1, <1>4, <1>5
    <2> QED BY <2>1, <2>2, <2>3
  <1>7. Units(a) \cap Units(b) = {}
    <2>1. ASSUME NEW x, x \in Units(a), x \in Units(b) PROVE FALSE
      <3>1. PICK m \in W : \E i \in Nat : x = <<m, i>>
        BY <1>3, <2>1, Zenon
      <3>2. PICK n \in V \ W : \E i \in Nat : x = <<n, i>>
        BY <1>4, <2>1, Zenon
      <3>3. m = n
        BY <3>1, <3>2
      <3> QED BY <3>3
    <2> QED BY <2>1, Zenon
  <1>8. IsFiniteSet(Units(a)) /\ IsFiniteSet(Units(b))
    BY <1>1, <1>2, UnitsFinite, Zenon
  <1>9. Cardinality(Units(a) \cup Units(b)) =
          Cardinality(Units(a)) + Cardinality(Units(b)) - Cardinality(Units(a) \cap Units(b))
    BY <1>8, FS_Union, Zenon
  <1>10. Cardinality(Units(a)) \in Nat /\ Cardinality(Units(b)) \in Nat
    BY <1>8, FS_CardinalityType, Zenon
  <1>11. Cardinality(Units(a) \cap Units(b)) = 0
    BY <1>7, FS_EmptySet, Zenon
  <1>12. Total(w) = Cardinality(Units(w)) /\ Total(a) = Cardinality(Units(a))
           /\ Total(b) = Cardinality(Units(b))
    BY Zenon DEF Total, Units
  <1>13. Total(w) = Total(a) + Total(b)
    BY <1>6, <1>9, <1>10, <1>11, <1>12
  <1> QED BY <1>13, Zenon DEF a, b

\* A sum of one summand.
LEMMA TotalOne ==
    ASSUME NEW m, NEW k \in Nat
    PROVE  Total([x \in {m} |-> k]) = k
  <1> DEFINE w == [x \in {m} |-> k]
  <1>1. DOMAIN w = {m} /\ w[m] = k
    OBVIOUS
  <1>2. UNION {{x} \X (1..w[x]) : x \in DOMAIN w} = {m} \X (1..k)
    BY <1>1, Zenon
  <1>3. IsFiniteSet({m}) /\ Cardinality({m}) = 1
    BY FS_Singleton, Zenon
  <1>4. IsFiniteSet(1..k) /\ Cardinality(1..k) = k
    <2>1. 1 \in Int /\ k \in Int OBVIOUS
    <2>2. IsFiniteSet(1..k) /\ Cardinality(1..k) = IF 1 > k THEN 0 ELSE k - 1 + 1
      BY <2>1, FS_Interval, Zenon
    <2> QED BY <2>2
  <1>5. Cardinality({m} \X (1..k)) = Cardinality({m}) * Cardinality(1..k)
    BY <1>3, <1>4, FS_Product, Zenon
  <1>6. Cardinality({m} \X (1..k)) = k
    BY <1>3, <1>4, <1>5
  <1>7. Total(w) = Cardinality({m} \X (1..k))
    BY <1>2, Zenon DEF Total
  <1> QED BY <1>6, <1>7, Zenon

\* A sum of none.
LEMMA TotalNone ==
    ASSUME NEW w \in [{} -> Nat]
    PROVE  Total(w) = 0
  <1>1. DOMAIN w = {}
    OBVIOUS
  <1>2. UNION {{x} \X (1..w[x]) : x \in DOMAIN w} = {}
    BY <1>1, Zenon
  <1> QED BY <1>2, FS_EmptySet, Zenon DEF Total

(***************************************************************************)
(* The bytes of a set of retained parts.                                   *)
(***************************************************************************)
\* The transfers of a reassembly state R, and what such a state is.
Kept(R) == {m \in Messages : R.parts[m] # None}

Shape(R) == R \in [parts : [Messages -> Part \cup {None}],
                   peer : [Nodes -> [Nodes -> Nat]], all : [Nodes -> Nat]]

\* What the constants are.
LEMMA Finite == \A V \in SUBSET Messages : IsFiniteSet(V)
  BY TransferAssumption, FS_Subset, Zenon

\* What Shape says.
LEMMA Shaped ==
    ASSUME NEW R, Shape(R)
    PROVE  /\ R.parts \in [Messages -> Part \cup {None}]
           /\ R.peer \in [Nodes -> [Nodes -> Nat]]
           /\ R.all \in [Nodes -> Nat]
           /\ \A m \in Kept(R) : R.parts[m] \in Part /\ R.parts[m].bytes \in Nat
           /\ \A n, p \in Nodes : R.all[n] \in Nat /\ R.peer[n][p] \in Nat
  <1>1. /\ R.parts \in [Messages -> Part \cup {None}]
        /\ R.peer \in [Nodes -> [Nodes -> Nat]]
        /\ R.all \in [Nodes -> Nat]
    BY DEF Shape
  <1>2. \A m \in Kept(R) : R.parts[m] \in Part
    BY <1>1, Zenon DEF Kept
  <1>3. \A T \in Part : T.bytes \in Nat
    BY DEF Part
  <1>4. \A n, p \in Nodes : R.all[n] \in Nat /\ R.peer[n][p] \in Nat
    BY <1>1
  <1> QED BY <1>1, <1>2, <1>3, <1>4, Zenon

\* The members of a retained set of parts have sizes.
LEMMA Weights ==
    ASSUME NEW R, Shape(R), NEW V \in SUBSET Kept(R)
    PROVE  [m \in V |-> R.parts[m].bytes] \in [V -> Nat] /\ IsFiniteSet(V)
  <1> USE Zenon
  <1>1. \A m \in V : R.parts[m].bytes \in Nat
    BY Shaped
  <1>2. V \in SUBSET Messages
    BY DEF Kept
  <1> QED BY <1>1, <1>2, Finite

\* The bytes of a set of parts are a natural number ...
LEMMA PartBytesType ==
    ASSUME NEW R, Shape(R), NEW V \in SUBSET Kept(R)
    PROVE  PartBytes(R, V) \in Nat
  BY Weights, TotalType, Zenon DEF PartBytes

\* ... that splits along the set ...
LEMMA PartBytesSplit ==
    ASSUME NEW R, Shape(R), NEW V \in SUBSET Kept(R), NEW W \in SUBSET V
    PROVE  /\ PartBytes(R, V) = PartBytes(R, W) + PartBytes(R, V \ W)
           /\ PartBytes(R, W) \in Nat /\ PartBytes(R, V \ W) \in Nat
  <1> USE Zenon
  <1> DEFINE w == [m \in V |-> R.parts[m].bytes]
  <1>1. w \in [V -> Nat] /\ IsFiniteSet(V)
    BY Weights
  <1>2. (\A m \in W : w[m] = R.parts[m].bytes) /\ \A m \in V \ W : w[m] = R.parts[m].bytes
    OBVIOUS
  <1>3. Total(w) = Total([m \in W |-> w[m]]) + Total([m \in V \ W |-> w[m]])
    <2> HIDE DEF w
    <2> QED BY <1>1, TotalSplit, ZenonT(60)
  <1>4. [m \in W |-> w[m]] = [m \in W |-> R.parts[m].bytes]
          /\ [m \in V \ W |-> w[m]] = [m \in V \ W |-> R.parts[m].bytes]
    <2> HIDE DEF w
    <2> QED BY <1>2
  <1>5. PartBytes(R, V) = PartBytes(R, W) + PartBytes(R, V \ W)
    BY <1>3, <1>4 DEF PartBytes
  <1>6. W \in SUBSET Kept(R) /\ V \ W \in SUBSET Kept(R)
    OBVIOUS
  <1> QED BY <1>5, <1>6, PartBytesType

\* ... and depends on the sizes of its members alone.
LEMMA PartBytesSame ==
    ASSUME NEW R, NEW Q, NEW V, \A m \in V : Q.parts[m].bytes = R.parts[m].bytes
    PROVE  PartBytes(Q, V) = PartBytes(R, V)
  <1>1. [m \in V |-> Q.parts[m].bytes] = [m \in V |-> R.parts[m].bytes]
    BY Zenon
  <1> QED BY <1>1, Zenon DEF PartBytes

\* The bytes of one part, and of none.
LEMMA PartBytesOne ==
    ASSUME NEW R, Shape(R), NEW m \in Kept(R)
    PROVE  PartBytes(R, {m}) = R.parts[m].bytes
  <1> USE Zenon
  <1>1. R.parts[m].bytes \in Nat
    BY Shaped
  <1>2. [x \in {m} |-> R.parts[x].bytes] = [x \in {m} |-> R.parts[m].bytes]
    OBVIOUS
  <1> QED BY <1>1, <1>2, TotalOne DEF PartBytes

\* No parts, no bytes.
LEMMA PartBytesNone == \A R : PartBytes(R, {}) = 0
  <1>1. ASSUME NEW R PROVE [m \in {} |-> R.parts[m].bytes] \in [{} -> Nat]
    BY Zenon
  <1> QED BY <1>1, TotalNone, Zenon DEF PartBytes

(***************************************************************************)
(* remove_transfer.                                                        *)
(***************************************************************************)
\* The counters agree with what is retained.
Counted(R) ==
    \A n \in Nodes : /\ R.all[n] = PartBytes(R, At(R, n))
                     /\ \A p \in Nodes : R.peer[n][p] = PartBytes(R, AtFrom(R, n, p))

\* The counters of a reassembler after V is gone.
LessPeer(R, r, V) == [s \in Nodes |->
    IF AtFrom(R, r, s) \subseteq V THEN 0
    ELSE Monus(R.peer[r][s], PartBytes(R, V \cap AtFrom(R, r, s)))]
LessAll(R, r, V) == Monus(R.all[r], PartBytes(R, V))

\* What remove_transfer changes.
LEMMA RemoveIs ==
    ASSUME NEW R, Shape(R), NEW r \in Nodes, NEW V, V # {}
    PROVE  RemoveParts(R, r, V) = [parts |-> Drop(R.parts, V),
                                   peer |-> [R.peer EXCEPT ![r] = LessPeer(R, r, V)],
                                   all |-> [R.all EXCEPT ![r] = LessAll(R, r, V)]]
  BY Zenon DEF RemoveParts, LessPeer, LessAll, Shape

\* The parts of a receiver are retained ones, and those of a sender among them.
LEMMA AtKept ==
    ASSUME NEW R, NEW r, NEW s
    PROVE  AtFrom(R, r, s) \subseteq At(R, r) /\ At(R, r) \subseteq Kept(R)
  BY Zenon DEF At, AtFrom, Kept

\* Q has the parts of R but for V.
Drops(R, Q, V) == \A m \in Messages : Q.parts[m] = IF m \in V THEN None ELSE R.parts[m]

\* Subtracting what V holds leaves what the others hold.
LEMMA Subtract ==
    ASSUME NEW R, Shape(R), NEW S \in SUBSET Kept(R), NEW W \in SUBSET S
    PROVE  /\ Monus(PartBytes(R, S), PartBytes(R, W)) = PartBytes(R, S \ W)
           /\ PartBytes(R, S \ W) = PartBytes(R, S) - PartBytes(R, W)
           /\ PartBytes(R, S \ W) <= PartBytes(R, S)
           /\ PartBytes(R, S \ W) \in Nat
  <1>1. /\ PartBytes(R, S) = PartBytes(R, W) + PartBytes(R, S \ W)
        /\ PartBytes(R, W) \in Nat /\ PartBytes(R, S \ W) \in Nat
    BY PartBytesSplit, Zenon
  <1> QED BY <1>1 DEF Monus

\* The counter of a peer, in either branch of remove_transfer.
LEMMA LessPeerIs ==
    ASSUME NEW R, Shape(R), Counted(R), NEW r \in Nodes, NEW V \in SUBSET At(R, r), NEW s \in Nodes
    PROVE  LessPeer(R, r, V)[s] = PartBytes(R, AtFrom(R, r, s) \ V) /\ LessPeer(R, r, V)[s] \in Nat
  <1> USE Zenon
  <1> DEFINE S == AtFrom(R, r, s)
             W == V \cap S
  <1>1. S \in SUBSET Kept(R) /\ W \in SUBSET S /\ S \ W = S \ V
    BY AtKept
  <1>2. R.peer[r][s] = PartBytes(R, S)
    BY DEF Counted
  <1>3. LessPeer(R, r, V)[s] = IF S \subseteq V THEN 0 ELSE Monus(R.peer[r][s], PartBytes(R, W))
    BY DEF LessPeer
  <1> HIDE DEF S, W
  <1>4. /\ Monus(PartBytes(R, S), PartBytes(R, W)) = PartBytes(R, S \ W)
        /\ PartBytes(R, S \ W) = PartBytes(R, S) - PartBytes(R, W)
        /\ PartBytes(R, S \ W) <= PartBytes(R, S)
        /\ PartBytes(R, S \ W) \in Nat
    BY <1>1, Subtract
  <1>5. S \subseteq V => PartBytes(R, S \ W) = 0
    <2> SUFFICES ASSUME S \subseteq V PROVE PartBytes(R, S \ W) = 0
      OBVIOUS
    <2>1. S \ W = {}
      BY <1>1
    <2> QED BY <2>1, PartBytesNone
  <1>6. LessPeer(R, r, V)[s] = PartBytes(R, S \ W)
    BY <1>2, <1>3, <1>4, <1>5
  <1>7. LessPeer(R, r, V)[s] = PartBytes(R, S \ V) /\ LessPeer(R, r, V)[s] \in Nat
    BY <1>1, <1>4, <1>6
  <1> QED BY <1>7 DEF S


\* Q is R without the parts V of a receiver.
Gone(R, Q, r, V) ==
    /\ Shape(Q) /\ Drops(R, Q, V)
    /\ Q.all[r] = PartBytes(R, At(R, r) \ V)
    /\ \A s \in Nodes : Q.peer[r][s] = PartBytes(R, AtFrom(R, r, s) \ V)
    /\ \A n \in Nodes \ {r} : Q.all[n] = R.all[n] /\ Q.peer[n] = R.peer[n]

\* Removing nothing.
LEMMA NoneGone ==
    ASSUME NEW R, Shape(R), Counted(R), NEW r \in Nodes
    PROVE  Gone(R, R, r, {})
  <1> USE Zenon
  <1>1. At(R, r) \ {} = At(R, r) /\ \A s \in Nodes : AtFrom(R, r, s) \ {} = AtFrom(R, r, s)
    OBVIOUS
  <1>2. R.all[r] = PartBytes(R, At(R, r)) /\ \A s \in Nodes : R.peer[r][s] = PartBytes(R, AtFrom(R, r, s))
    BY DEF Counted
  <1>3. Drops(R, R, {})
    BY DEF Drops
  <1> QED BY <1>1, <1>2, <1>3 DEF Gone

\* Counters for what is left of a receiver without V.
LeftOf(R, r, V, a, b) ==
    /\ a \in Nat /\ a = PartBytes(R, At(R, r) \ V)
    /\ b \in [Nodes -> Nat] /\ \A s \in Nodes : b[s] = PartBytes(R, AtFrom(R, r, s) \ V)

\* The counters after removing something.
LEMMA LessIs ==
    ASSUME NEW R, Shape(R), Counted(R), NEW r \in Nodes, NEW V \in SUBSET At(R, r)
    PROVE  LeftOf(R, r, V, LessAll(R, r, V), LessPeer(R, r, V))
  <1> USE Zenon
  <1>1. At(R, r) \in SUBSET Kept(R)
    BY AtKept
  <1>2. /\ Monus(PartBytes(R, At(R, r)), PartBytes(R, V)) = PartBytes(R, At(R, r) \ V)
        /\ PartBytes(R, At(R, r) \ V) = PartBytes(R, At(R, r)) - PartBytes(R, V)
        /\ PartBytes(R, At(R, r) \ V) <= PartBytes(R, At(R, r))
        /\ PartBytes(R, At(R, r) \ V) \in Nat
    BY <1>1, Subtract
  <1>3. LessAll(R, r, V) = PartBytes(R, At(R, r) \ V) /\ LessAll(R, r, V) \in Nat
    <2>1. R.all[r] = PartBytes(R, At(R, r))
      BY DEF Counted
    <2> QED BY <1>2, <2>1 DEF LessAll
  <1>4. ASSUME NEW s \in Nodes
        PROVE  LessPeer(R, r, V)[s] = PartBytes(R, AtFrom(R, r, s) \ V) /\ LessPeer(R, r, V)[s] \in Nat
    BY LessPeerIs
  <1>5. LessPeer(R, r, V) = [s \in Nodes |-> LessPeer(R, r, V)[s]]
    BY DEF LessPeer
  <1>6. LessPeer(R, r, V) \in [Nodes -> Nat]
    BY <1>4, <1>5
  <1> QED BY <1>3, <1>4, <1>6 DEF LeftOf

\* Removing something, with the counters that are left.
LEMMA SomeGone ==
    ASSUME NEW R, Shape(R), NEW r \in Nodes, NEW V \in SUBSET At(R, r),
           NEW a, NEW b, LeftOf(R, r, V, a, b),
           NEW Q, Q = [parts |-> Drop(R.parts, V), peer |-> [R.peer EXCEPT ![r] = b],
                       all |-> [R.all EXCEPT ![r] = a]]
    PROVE  Gone(R, Q, r, V)
  <1>1. /\ R.parts \in [Messages -> Part \cup {None}] /\ R.peer \in [Nodes -> [Nodes -> Nat]]
        /\ R.all \in [Nodes -> Nat] /\ a \in Nat /\ b \in [Nodes -> Nat]
    BY DEF Shape, LeftOf
  <1>2. Drop(R.parts, V) \in [Messages -> Part \cup {None}]
          /\ \A m \in Messages : Drop(R.parts, V)[m] = IF m \in V THEN None ELSE R.parts[m]
    BY <1>1 DEF Drop
  <1>3. Q.parts = Drop(R.parts, V)
    OBVIOUS
  <1>4. /\ Q.peer \in [Nodes -> [Nodes -> Nat]] /\ Q.peer[r] = b
        /\ \A n \in Nodes \ {r} : Q.peer[n] = R.peer[n]
    BY <1>1
  <1>5. /\ Q.all \in [Nodes -> Nat] /\ Q.all[r] = a
        /\ \A n \in Nodes \ {r} : Q.all[n] = R.all[n]
    BY <1>1
  <1>6. Shape(Q)
    BY <1>2, <1>3, <1>4, <1>5 DEF Shape
  <1>7. Drops(R, Q, V)
    BY <1>2, <1>3 DEF Drops
  <1> QED BY <1>4, <1>5, <1>6, <1>7 DEF Gone, LeftOf

\* remove_transfer does that.
LEMMA RemoveGone ==
    ASSUME NEW R, Shape(R), Counted(R), NEW r \in Nodes, NEW V \in SUBSET At(R, r)
    PROVE  Gone(R, RemoveParts(R, r, V), r, V)
  <1>1. CASE V = {}
    <2>1. RemoveParts(R, r, V) = R
      BY <1>1, Zenon DEF RemoveParts
    <2> QED BY <1>1, <2>1, NoneGone, Zenon
  <1>2. CASE V # {}
    <2> DEFINE a == LessAll(R, r, V)
               b == LessPeer(R, r, V)
               Q == RemoveParts(R, r, V)
    <2>1. Q = [parts |-> Drop(R.parts, V), peer |-> [R.peer EXCEPT ![r] = b],
               all |-> [R.all EXCEPT ![r] = a]]
      BY <1>2, RemoveIs, Zenon
    <2>2. LeftOf(R, r, V, a, b)
      BY LessIs, Zenon
    <2> HIDE DEF a, b, Q
    <2>3. Gone(R, Q, r, V)
      BY <2>1, <2>2, SomeGone
    <2> QED BY <2>3, Zenon DEF Q
  <1> QED BY <1>1, <1>2, Zenon

\* Whose parts are left.
Left(R, Q, r, V, n, p) ==
    /\ At(Q, n) = At(R, n) \ V
    /\ AtFrom(Q, n, p) = AtFrom(R, n, p) \ V
    /\ n # r => At(R, n) \ V = At(R, n) /\ AtFrom(R, n, p) \ V = AtFrom(R, n, p)

\* Nobody else's parts go.
LEMMA GoneAt ==
    ASSUME NEW R, NEW Q, NEW r \in Nodes, NEW V \in SUBSET At(R, r), Gone(R, Q, r, V),
           NEW n \in Nodes, NEW p \in Nodes
    PROVE  Left(R, Q, r, V, n, p)
  <1> USE Zenon
  <1>1. At(Q, n) = At(R, n) \ V
    BY DEF At, Drops, Gone
  <1>2. AtFrom(Q, n, p) = AtFrom(R, n, p) \ V
    BY <1>1 DEF AtFrom
  <1>3. n # r => At(R, n) \ V = At(R, n)
    BY DEF At
  <1>4. n # r => AtFrom(R, n, p) \ V = AtFrom(R, n, p)
    BY DEF At, AtFrom
  <1> QED BY <1>1, <1>2, <1>3, <1>4 DEF Left

\* The counters stay in step with the parts.
LEMMA GoneCounted ==
    ASSUME NEW R, Shape(R), Counted(R), NEW Q, NEW r \in Nodes, NEW V \in SUBSET At(R, r),
           Gone(R, Q, r, V)
    PROVE  Counted(Q)
  <1> USE Zenon
  <1>1. ASSUME NEW S \in SUBSET Messages, S \cap V = {} PROVE PartBytes(Q, S) = PartBytes(R, S)
    <2>1. \A m \in S : Q.parts[m].bytes = R.parts[m].bytes
      BY <1>1 DEF Gone, Drops
    <2> QED BY <2>1, PartBytesSame
  <1>2. ASSUME NEW n \in Nodes, NEW p \in Nodes
        PROVE  Q.all[n] = PartBytes(Q, At(Q, n)) /\ Q.peer[n][p] = PartBytes(Q, AtFrom(Q, n, p))
    <2> DEFINE A == At(R, n) \ V
               F == AtFrom(R, n, p) \ V
    <2>1. A \in SUBSET Messages /\ F \in SUBSET Messages /\ A \cap V = {} /\ F \cap V = {}
      BY DEF At, AtFrom
    <2>2. /\ At(Q, n) = A /\ AtFrom(Q, n, p) = F
          /\ n # r => A = At(R, n) /\ F = AtFrom(R, n, p)
      <3>1. Left(R, Q, r, V, n, p)
        BY GoneAt
      <3> QED BY <3>1 DEF Left
    <2>4. n = r => Q.all[n] = PartBytes(R, A) /\ Q.peer[n][p] = PartBytes(R, F)
      BY DEF Gone
    <2>5. n # r => Q.all[n] = R.all[n] /\ Q.peer[n][p] = R.peer[n][p]
      BY DEF Gone
    <2>6. R.all[n] = PartBytes(R, At(R, n)) /\ R.peer[n][p] = PartBytes(R, AtFrom(R, n, p))
      BY DEF Counted
    <2> HIDE DEF A, F
    <2>7. PartBytes(Q, A) = PartBytes(R, A) /\ PartBytes(Q, F) = PartBytes(R, F)
      BY <1>1, <2>1
    <2>8. Q.all[n] = PartBytes(Q, A) /\ Q.peer[n][p] = PartBytes(Q, F)
      BY <2>2, <2>4, <2>5, <2>6, <2>7
    <2> QED BY <2>2, <2>8
  <1> QED BY <1>2 DEF Counted

\* The counter of all goes down by what was removed ...
LEMMA GoneAll ==
    ASSUME NEW R, Shape(R), Counted(R), NEW Q, NEW r \in Nodes, NEW V \in SUBSET At(R, r),
           Gone(R, Q, r, V)
    PROVE  Q.all[r] = R.all[r] - PartBytes(R, V)
  <1> USE Zenon
  <1>1. At(R, r) \in SUBSET Kept(R)
    BY AtKept
  <1>2. PartBytes(R, At(R, r) \ V) = PartBytes(R, At(R, r)) - PartBytes(R, V)
    BY <1>1, Subtract
  <1>3. R.all[r] = PartBytes(R, At(R, r)) /\ Q.all[r] = PartBytes(R, At(R, r) \ V)
    BY DEF Counted, Gone
  <1> QED BY <1>2, <1>3

\* The counter of s at r is lower by the bytes of V.
Fell(R, Q, r, s, V) == Q.peer[r][s] = R.peer[r][s] - PartBytes(R, V)

\* The counter of a peer whose parts are removed.
LEMMA GonePeer ==
    ASSUME NEW R, Shape(R), Counted(R), NEW Q, NEW r \in Nodes, NEW V \in SUBSET At(R, r),
           Gone(R, Q, r, V), NEW s \in Nodes, V \subseteq AtFrom(R, r, s)
    PROVE  Fell(R, Q, r, s, V)
  <1> USE Zenon
  <1>1. AtFrom(R, r, s) \in SUBSET Kept(R) /\ V \in SUBSET AtFrom(R, r, s)
    BY AtKept
  <1>2. PartBytes(R, AtFrom(R, r, s) \ V) = PartBytes(R, AtFrom(R, r, s)) - PartBytes(R, V)
    BY <1>1, Subtract
  <1>3. R.peer[r][s] = PartBytes(R, AtFrom(R, r, s)) /\ Q.peer[r][s] = PartBytes(R, AtFrom(R, r, s) \ V)
    BY DEF Counted, Gone
  <1> QED BY <1>2, <1>3 DEF Fell

\* No counter goes up.
LEMMA GoneLess ==
    ASSUME NEW R, Shape(R), Counted(R), NEW Q, NEW r \in Nodes, NEW V \in SUBSET At(R, r),
           Gone(R, Q, r, V), NEW n \in Nodes, NEW p \in Nodes
    PROVE  Q.all[n] <= R.all[n] /\ Q.peer[n][p] <= R.peer[n][p]
  <1>1. CASE n = r
    <2> USE Zenon
    <2> DEFINE S == AtFrom(R, r, p)
               W == V \cap S
    <2>1. At(R, r) \in SUBSET Kept(R)
      BY AtKept
    <2>2. PartBytes(R, At(R, r) \ V) <= PartBytes(R, At(R, r))
      BY <2>1, Subtract
    <2>3. S \in SUBSET Kept(R) /\ W \in SUBSET S /\ S \ W = S \ V
      BY AtKept
    <2>4. R.peer[r][p] = PartBytes(R, S) /\ Q.peer[r][p] = PartBytes(R, S \ V)
      BY DEF Counted, Gone
    <2> HIDE DEF S, W
    <2>5. PartBytes(R, S \ W) <= PartBytes(R, S)
      BY <2>3, Subtract
    <2>6. Q.peer[r][p] <= R.peer[r][p]
      BY <2>3, <2>4, <2>5
    <2>7. R.all[r] = PartBytes(R, At(R, r)) /\ Q.all[r] = PartBytes(R, At(R, r) \ V)
      BY DEF Counted, Gone
    <2>8. Q.all[r] <= R.all[r]
      BY <2>2, <2>7
    <2> QED BY <1>1, <2>6, <2>8
  <1>2. CASE n # r
    <2>1. R.all[n] \in Nat /\ R.peer[n][p] \in Nat
      BY Shaped, Zenon
    <2>2. Q.all[n] = R.all[n] /\ Q.peer[n] = R.peer[n]
      BY <1>2, Zenon DEF Gone
    <2> QED BY <2>1, <2>2
  <1> QED BY <1>1, <1>2, Zenon

(***************************************************************************)
(* The fragments of one transfer.                                          *)
(***************************************************************************)
\* In bounds and apart from each other.
Apart(F, total) ==
    /\ \A o \in DOMAIN F : o + F[o] <= total
    /\ \A o, p \in DOMAIN F : o < p => o + F[o] <= p

\* What a set of fragments is.
LEMMA FragmentsAre ==
    ASSUME NEW F \in Fragments
    PROVE  /\ DOMAIN F \in SUBSET Nat /\ \A o \in DOMAIN F : o <= MaxLogical /\ F[o] \in Nat \ {0}
           /\ IsFiniteSet(DOMAIN F) /\ F \in [DOMAIN F -> Nat \ {0}]
  <1>1. PICK D \in SUBSET (0..MaxLogical) : F \in [D -> Nat \ {0}]
    BY Zenon DEF Fragments
  <1>2. MaxLogical \in Nat
    BY TransferAssumption
  <1>3. DOMAIN F = D /\ \A o \in D : F[o] \in Nat \ {0}
    BY <1>1
  <1>4. \A o \in D : o \in Nat /\ o <= MaxLogical
    BY <1>1, <1>2
  <1>5. D \in SUBSET Nat /\ \A o \in D : o <= MaxLogical
    BY <1>4, Zenon
  <1>6. IsFiniteSet(D)
    BY <1>2, <1>5, FS_BoundedSetOfNaturals, Zenon
  <1> QED BY <1>1, <1>3, <1>5, <1>6, Zenon

\* A function on offsets up to MaxLogical is a set of fragments.
LEMMA AreFragments ==
    ASSUME NEW D \in SUBSET Nat, \A o \in D : o <= MaxLogical, NEW F \in [D -> Nat \ {0}]
    PROVE  F \in Fragments
  <1>1. MaxLogical \in Nat
    BY TransferAssumption
  <1>2. D \in SUBSET (0..MaxLogical)
    BY <1>1
  <1> QED BY <1>2, Zenon DEF Fragments

\* The bytes of a range.
LEMMA BytesAre ==
    ASSUME NEW off \in Nat, NEW len \in Nat
    PROVE  /\ \A i : i \in Bytes(off, len) <=> i \in Nat /\ off <= i /\ i < off + len
           /\ IsFiniteSet(Bytes(off, len)) /\ Cardinality(Bytes(off, len)) = len
  <1>1. \A i : i \in Bytes(off, len) <=> i \in Nat /\ off <= i /\ i < off + len
    BY DEF Bytes
  <1> DEFINE last == off + len - 1
  <1>2. off \in Int /\ last \in Int /\ (off > last <=> len = 0) /\ last - off + 1 = len
    OBVIOUS
  <1>3. Bytes(off, len) = off..last
    BY Zenon DEF Bytes
  <1> HIDE DEF last
  <1>4. IsFiniteSet(off..last) /\ Cardinality(off..last) = IF off > last THEN 0 ELSE last - off + 1
    BY <1>2, FS_Interval, Zenon
  <1>5. IsFiniteSet(Bytes(off, len)) /\ Cardinality(Bytes(off, len)) = len
    BY <1>2, <1>3, <1>4
  <1> QED BY <1>1, <1>5, Zenon

\* The bytes that fragments cover.
LEMMA CoveredAre ==
    ASSUME NEW F \in Fragments
    PROVE  \A i : i \in Covered(F) <=> i \in Nat /\ \E o \in DOMAIN F : o <= i /\ i < o + F[o]
  <1>1. \A o \in DOMAIN F : o \in Nat /\ F[o] \in Nat
    BY FragmentsAre
  <1>2. \A i : i \in Covered(F) <=> \E o \in DOMAIN F : i \in Bytes(o, F[o])
    BY Zenon DEF Covered
  <1>3. \A o \in DOMAIN F : \A i : i \in Bytes(o, F[o]) <=> i \in Nat /\ o <= i /\ i < o + F[o]
    BY <1>1, BytesAre, Zenon
  <1> QED BY <1>2, <1>3, Zenon

\* The end of the last fragment before an offset: zero, or the end of the fragment
\* with the highest offset below it.
LEMMA CursorIs ==
    ASSUME NEW F \in Fragments, NEW at \in Nat
    PROVE  \/ Below(F, at) = {} /\ Cursor(F, at) = 0
           \/ \E o \in DOMAIN F : /\ o < at /\ Cursor(F, at) = o + F[o]
                                  /\ \A p \in DOMAIN F : p < at => p <= o
  <1>1. CASE Below(F, at) = {}
    BY <1>1, Zenon DEF Cursor
  <1>2. CASE Below(F, at) # {}
    <2> DEFINE S == Below(F, at)
    <2>1. S \in SUBSET Nat /\ \A y \in S : y <= MaxLogical
      BY FragmentsAre, Zenon DEF Below
    <2>2. MaxLogical \in Nat
      BY TransferAssumption
    <2>3. Max(S) \in S /\ \A y \in S : y <= Max(S)
      <3> HIDE DEF S
      <3>1. S # {}
        BY <1>2, Zenon DEF S
      <3> QED BY <2>1, <2>2, <3>1, GreatestNat, Zenon
    <2>4. Cursor(F, at) = Max(S) + F[Max(S)]
      BY <1>2, Zenon DEF Cursor
    <2>5. Max(S) \in DOMAIN F /\ Max(S) < at /\ \A p \in DOMAIN F : p < at => p <= Max(S)
      BY <2>3, Zenon DEF Below
    <2> QED BY <2>4, <2>5, Zenon
  <1> QED BY <1>1, <1>2, Zenon

\* A fragment that overlaps none of the retained ones is apart from each of them.
LEMMA NotOverlapping ==
    ASSUME NEW F \in Fragments, NEW total, Apart(F, total), NEW off \in Nat, NEW len \in Nat \ {0},
           ~Overlaps(F, off, off + len), off \notin DOMAIN F
    PROVE  \A o \in DOMAIN F : o + F[o] <= off \/ off + len <= o
  <1>1. DOMAIN F \in SUBSET Nat /\ \A o \in DOMAIN F : F[o] \in Nat
    BY FragmentsAre, Zenon
  <1> DEFINE after == {o \in DOMAIN F : o >= off}
  <1>2. ~(Cursor(F, off) > off) /\ (after # {} => ~(Min(after) < off + len))
    BY Zenon DEF Overlaps
  <1>3. ASSUME NEW o \in DOMAIN F, o >= off PROVE off + len <= o
    <2>1. after \in SUBSET Nat /\ o \in after
      BY <1>1, <1>3, Zenon
    <2> HIDE DEF after
    <2>2. Min(after) \in Nat /\ Min(after) <= o
      BY <2>1, LeastNat, Zenon
    <2>3. ~(Min(after) < off + len)
      BY <1>2, <2>1, Zenon
    <2> QED BY <1>1, <2>2, <2>3
  <1>4. ASSUME NEW o \in DOMAIN F, o < off PROVE o + F[o] <= off
    <2>1. Below(F, off) # {}
      BY <1>4, Zenon DEF Below
    <2>2. PICK q \in DOMAIN F : /\ q < off /\ Cursor(F, off) = q + F[q]
                                /\ \A p \in DOMAIN F : p < off => p <= q
      BY <2>1, CursorIs, Zenon
    <2>3. o <= q /\ o \in Nat /\ q \in Nat /\ F[o] \in Nat /\ F[q] \in Nat
      BY <1>1, <1>4, <2>2, Zenon
    <2>4. q + F[q] <= off
      BY <1>2, <2>2, <2>3
    <2>5. o < q => o + F[o] <= q
      BY Zenon DEF Apart
    <2> QED BY <2>2, <2>3, <2>4, <2>5
  <1>5. ASSUME NEW o \in DOMAIN F PROVE o \in Nat
    BY <1>1, Zenon
  <1> QED BY <1>3, <1>4, <1>5

\* One more fragment among the retained ones.
Added(F, off, len) == [o \in DOMAIN F \cup {off} |-> IF o = off THEN len ELSE F[o]]

\* It keeps the fragments apart ...
LEMMA AddedApart ==
    ASSUME NEW F \in Fragments, NEW total \in Nat, Apart(F, total), total <= MaxLogical,
           NEW off \in Nat, NEW len \in Nat \ {0}, off + len <= total, off \notin DOMAIN F,
           ~Overlaps(F, off, off + len)
    PROVE  Added(F, off, len) \in Fragments /\ Apart(Added(F, off, len), total)
  <1> DEFINE G == Added(F, off, len)
             D == DOMAIN F \cup {off}
  <1>1. /\ DOMAIN F \in SUBSET Nat /\ \A o \in DOMAIN F : o <= MaxLogical /\ F[o] \in Nat \ {0}
    BY FragmentsAre, Zenon
  <1>2. MaxLogical \in Nat
    BY TransferAssumption
  <1>3. D \in SUBSET Nat /\ \A o \in D : o <= MaxLogical
    BY <1>1, <1>2
  <1>4. G \in [D -> Nat \ {0}] /\ DOMAIN G = D /\ G[off] = len /\ \A o \in DOMAIN F : G[o] = F[o]
    BY <1>1 DEF Added
  <1>5. G \in Fragments
    <2> HIDE DEF G, D
    <2> QED BY <1>3, <1>4, AreFragments, Zenon
  <1>6. \A o \in DOMAIN F : o + F[o] <= off \/ off + len <= o
    BY NotOverlapping, Zenon
  <1>7. ASSUME NEW o \in D PROVE o + G[o] <= total
    BY <1>4 DEF Apart
  <1>8. ASSUME NEW o \in D, NEW p \in D, o < p PROVE o + G[o] <= p
    <2>1. CASE o = off /\ p = off
      BY <1>8, <2>1
    <2>2. CASE o = off /\ p # off
      <3>1. p \in DOMAIN F /\ p \in Nat /\ F[p] \in Nat \ {0} /\ G[o] = len
        BY <1>1, <1>4, <2>2
      <3>2. p + F[p] <= off \/ off + len <= p
        BY <1>6, <3>1
      <3> QED BY <1>8, <2>2, <3>1, <3>2
    <2>3. CASE o # off /\ p = off
      <3>1. o \in DOMAIN F /\ o \in Nat /\ G[o] = F[o] /\ F[o] \in Nat \ {0}
        BY <1>1, <1>4, <2>3
      <3>2. o + F[o] <= off \/ off + len <= o
        BY <1>6, <3>1
      <3> QED BY <1>8, <2>3, <3>1, <3>2
    <2>4. CASE o # off /\ p # off
      <3>1. o \in DOMAIN F /\ p \in DOMAIN F /\ G[o] = F[o]
        BY <1>4, <2>4
      <3> QED BY <1>8, <3>1, Zenon DEF Apart
    <2> QED BY <2>1, <2>2, <2>3, <2>4, Zenon
  <1>9. Apart(G, total)
    BY <1>4, <1>7, <1>8, Zenon DEF Apart
  <1> QED BY <1>5, <1>9, Zenon

\* ... and covers len more bytes.
LEMMA AddedCovers ==
    ASSUME NEW F \in Fragments, NEW total \in Nat, Apart(F, total), total <= MaxLogical,
           NEW off \in Nat, NEW len \in Nat \ {0}, off + len <= total, off \notin DOMAIN F,
           ~Overlaps(F, off, off + len), IsFiniteSet(Covered(F))
    PROVE  /\ IsFiniteSet(Covered(Added(F, off, len)))
           /\ Cardinality(Covered(Added(F, off, len))) = Cardinality(Covered(F)) + len
  <1> DEFINE G == Added(F, off, len)
             B == Bytes(off, len)
  <1>1. DOMAIN G = DOMAIN F \cup {off} /\ G[off] = len /\ \A o \in DOMAIN F : G[o] = F[o]
    BY DEF Added
  <1>2. Covered(G) = Covered(F) \cup B
    <2> USE Zenon
    <2> HIDE DEF G, B
    <2>1. \A i : i \in Covered(G) <=> \E o \in DOMAIN G : i \in Bytes(o, G[o])
      BY DEF Covered
    <2>2. \A i : i \in Covered(F) <=> \E o \in DOMAIN F : i \in Bytes(o, F[o])
      BY DEF Covered
    <2>3. ASSUME NEW i \in Covered(G) PROVE i \in Covered(F) \cup B
      <3>1. PICK o \in DOMAIN G : i \in Bytes(o, G[o])
        BY <2>1
      <3>2. CASE o = off
        BY <1>1, <3>1, <3>2 DEF B
      <3>3. CASE o # off
        <4>1. o \in DOMAIN F /\ i \in Bytes(o, F[o])
          BY <1>1, <3>1, <3>3
        <4> QED BY <2>2, <4>1
      <3> QED BY <3>2, <3>3
    <2>4. ASSUME NEW i \in Covered(F) PROVE i \in Covered(G)
      <3>1. PICK o \in DOMAIN F : i \in Bytes(o, F[o])
        BY <2>2
      <3>2. o \in DOMAIN G /\ i \in Bytes(o, G[o])
        BY <1>1, <3>1
      <3> QED BY <2>1, <3>2
    <2>5. ASSUME NEW i \in B PROVE i \in Covered(G)
      <3>1. off \in DOMAIN G /\ i \in Bytes(off, G[off])
        BY <1>1 DEF B
      <3> QED BY <2>1, <3>1
    <2> QED BY <2>3, <2>4, <2>5
  <1>3. len \in Nat
    OBVIOUS
  <1>4. IsFiniteSet(B) /\ Cardinality(B) = len
    BY <1>3, BytesAre, Zenon
  <1>5. Covered(F) \cap B = {}
    <2>1. ASSUME NEW i \in Covered(F), i \in B PROVE FALSE
      <3>1. i \in Nat /\ off <= i /\ i < off + len
        BY <1>3, <2>1, BytesAre, Zenon
      <3>2. PICK o \in DOMAIN F : o <= i /\ i < o + F[o]
        BY CoveredAre, Zenon
      <3>3. o + F[o] <= off \/ off + len <= o
        BY NotOverlapping, Zenon
      <3>4. o \in Nat /\ F[o] \in Nat
        BY FragmentsAre
      <3> QED BY <3>1, <3>2, <3>3, <3>4
    <2> QED BY <2>1, Zenon
  <1> HIDE DEF B
  <1>6. IsFiniteSet(Covered(F) \cup B) /\ Cardinality(Covered(F) \cup B) =
          Cardinality(Covered(F)) + Cardinality(B) - Cardinality(Covered(F) \cap B)
    BY <1>4, FS_Union, Zenon
  <1>7. Cardinality(Covered(F) \cap B) = 0
    BY <1>5, FS_EmptySet, Zenon
  <1>8. Cardinality(Covered(F)) \in Nat
    BY FS_CardinalityType, Zenon
  <1>9. Cardinality(Covered(F) \cup B) = Cardinality(Covered(F)) + len
    BY <1>4, <1>6, <1>7, <1>8
  <1> QED BY <1>2, <1>6, <1>9, Zenon

\* Fragments in bounds cover no byte out of bounds, and all of them only when nothing
\* is missing.
LEMMA CoveredWithin ==
    ASSUME NEW F \in Fragments, NEW total \in Nat, Apart(F, total)
    PROVE  /\ Covered(F) \subseteq Bytes(0, total) /\ IsFiniteSet(Covered(F))
           /\ Cardinality(Covered(F)) \in Nat /\ Cardinality(Covered(F)) <= total
           /\ Cardinality(Covered(F)) = total <=> Covered(F) = Bytes(0, total)
  <1>1. /\ \A i : i \in Bytes(0, total) <=> i \in Nat /\ 0 <= i /\ i < 0 + total
        /\ IsFiniteSet(Bytes(0, total)) /\ Cardinality(Bytes(0, total)) = total
    BY BytesAre
  <1>2. ASSUME NEW i \in Covered(F) PROVE i \in Bytes(0, total)
    <2>1. i \in Nat
      BY CoveredAre, Zenon
    <2>2. PICK o \in DOMAIN F : o <= i /\ i < o + F[o]
      BY CoveredAre, Zenon
    <2>3. o + F[o] <= total /\ o \in Nat /\ F[o] \in Nat
      BY FragmentsAre DEF Apart
    <2> QED BY <1>1, <2>1, <2>2, <2>3
  <1>3. Covered(F) \in SUBSET Bytes(0, total)
    BY <1>2, Zenon
  <1>4. /\ IsFiniteSet(Covered(F)) /\ Cardinality(Covered(F)) <= Cardinality(Bytes(0, total))
        /\ Cardinality(Bytes(0, total)) = Cardinality(Covered(F)) => Bytes(0, total) = Covered(F)
    BY <1>1, <1>3, FS_Subset, Zenon
  <1>5. Cardinality(Covered(F)) \in Nat
    BY <1>4, FS_CardinalityType, Zenon
  <1> QED BY <1>1, <1>3, <1>4, <1>5, Zenon
(***************************************************************************)
(* missing_ranges_for_transfer.                                            *)
(***************************************************************************)
\* Where gaps end, the first MaxRanges of such ends, and the gap before o.
Ends(F, total) == {o \in DOMAIN F \cup {total} : Cursor(F, o) < o}
Rank(E, p) == Cardinality({q \in E : q < p})
First(E) == {p \in E : Rank(E, p) < MaxRanges}
Gap(F, o) == <<Cursor(F, o), o - Cursor(F, o)>>

\* The first members of a bounded set of offsets: all of them, or as many as are
\* wanted, before any of the others.
LEMMA FirstOf ==
    ASSUME NEW E \in SUBSET Nat, IsFiniteSet(E), First(E) # E
    PROVE  Cardinality(First(E)) = MaxRanges /\ \A p \in First(E), q \in E \ First(E) : p < q
  <1> DEFINE P == First(E)
             L(x) == {q \in E : q < x}
  <1>1. MaxRanges \in Nat
    BY TransferAssumption
  <1>2. P \in SUBSET E /\ (\A x \in E : x \in P <=> Cardinality(L(x)) < MaxRanges)
    BY Zenon DEF First, Rank
  <1>3. ASSUME NEW x \in E
        PROVE  x \in Nat /\ L(x) \in SUBSET E /\ IsFiniteSet(L(x)) /\ Cardinality(L(x)) \in Nat
    <2> USE Zenon
    <2>1. x \in Nat /\ L(x) \in SUBSET E
      OBVIOUS
    <2>2. IsFiniteSet(L(x))
      BY <2>1, FS_Subset
    <2> QED BY <2>1, <2>2, FS_CardinalityType
  <1>4. ASSUME NEW p \in P, NEW q \in E \ P PROVE p < q
    <2> SUFFICES ASSUME ~(p < q) PROVE FALSE
      OBVIOUS
    <2>1. p \in E /\ p \in Nat /\ q \in Nat /\ p # q
      BY <1>2, Zenon
    <2>2. q < p
      BY <2>1
    <2>3. \A y \in E : y < q => y < p
      BY <2>1, <2>2
    <2>4. L(q) \in SUBSET L(p)
      BY <2>3, Zenon
    <2>5. IsFiniteSet(L(p)) /\ Cardinality(L(p)) \in Nat /\ Cardinality(L(q)) \in Nat
      BY <1>3, <2>1, Zenon
    <2>6. Cardinality(L(q)) <= Cardinality(L(p))
      BY <2>4, <2>5, FS_Subset, Zenon
    <2>7. Cardinality(L(p)) < MaxRanges /\ ~(Cardinality(L(q)) < MaxRanges)
      BY <1>2, <2>1, Zenon
    <2> QED BY <1>1, <2>5, <2>6, <2>7
  <1>5. E \ P \in SUBSET Nat /\ E \ P # {}
    BY <1>2, Zenon
  <1>6. PICK q \in E \ P : \A y \in E \ P : q <= y
    BY <1>5, LeastNat, Zenon
  <1>7. P = L(q)
    <2>1. ASSUME NEW y \in P PROVE y \in E /\ y < q
      BY <1>2, <1>4, <1>6, Zenon
    <2>2. ASSUME NEW y \in E, y < q, y \notin P PROVE FALSE
      <3>1. q <= y
        BY <1>6, <2>2, Zenon
      <3>2. y \in Nat /\ q \in Nat
        BY <1>6, Zenon
      <3> QED BY <2>2, <3>1, <3>2
    <2> QED BY <2>1, <2>2, Zenon
  <1>8. Cardinality(P) \in Nat /\ IsFiniteSet(P) /\ MaxRanges <= Cardinality(P)
    <2>1. Cardinality(L(q)) \in Nat /\ IsFiniteSet(L(q))
      BY <1>3, <1>6, Zenon
    <2>2. ~(Cardinality(L(q)) < MaxRanges)
      BY <1>2, <1>6, Zenon
    <2>3. MaxRanges <= Cardinality(L(q))
      BY <1>1, <2>1, <2>2
    <2> QED BY <1>7, <2>1, <2>3, Zenon
  <1>9. Cardinality(P) <= MaxRanges
    <2>1. CASE P = {}
      <3>1. Cardinality(P) = 0
        BY <2>1, FS_EmptySet, Zenon
      <3> QED BY <1>1, <3>1
    <2>2. CASE P # {}
      <3> HIDE DEF P
      <3>1. P \in SUBSET Nat /\ q \in Nat
        BY <1>2, <1>6, Zenon
      <3>2. \A y \in P : y <= q
        <4>1. \A y \in P : y < q
          BY <1>4, <1>6, Zenon
        <4> QED BY <3>1, <4>1
      <3> DEFINE p == Max(P)
      <3>3. p \in P /\ \A y \in P : y <= p
        BY <2>2, <3>1, <3>2, GreatestNat, Zenon
      <3> HIDE DEF p
      <3>4. p \in E /\ p < q /\ p \in Nat
        BY <1>2, <1>4, <1>6, <3>1, <3>3, Zenon
      <3>5. ASSUME NEW y \in E, y < p PROVE y \in P /\ y # p
        <4>1. y \in Nat /\ y < q
          BY <1>6, <3>4, <3>5
        <4> QED BY <1>7, <3>4, <3>5, <4>1
      <3>6. ASSUME NEW y \in P, y # p PROVE y \in E /\ y < p
        <4>1. y <= p /\ y \in Nat /\ y \in E
          BY <1>2, <3>1, <3>3, Zenon
        <4> QED BY <3>4, <3>6, <4>1
      <3>7. L(p) = P \ {p}
        BY <3>5, <3>6, Zenon
      <3>8. Cardinality(P \ {p}) = IF p \in P THEN Cardinality(P) - 1 ELSE Cardinality(P)
        BY <1>8, FS_RemoveElement, Zenon
      <3>9. Cardinality(L(p)) < MaxRanges
        BY <1>2, <3>3, <3>4, Zenon
      <3> QED BY <1>1, <1>8, <3>3, <3>7, <3>8, <3>9
    <2> QED BY <2>1, <2>2, Zenon
  <1>10. Cardinality(P) = MaxRanges
    BY <1>1, <1>8, <1>9
  <1> QED BY <1>4, <1>10, Zenon

\* When something is wanted the first of them is there.
LEMMA FirstSome ==
    ASSUME NEW E \in SUBSET Nat, E # {}, MaxRanges > 0
    PROVE  First(E) # {}
  <1>1. PICK e \in E : \A y \in E : e <= y
    BY LeastNat, Zenon
  <1>2. {q \in E : q < e} = {}
    <2>1. ASSUME NEW q \in E, q < e PROVE FALSE
      <3>1. e <= q /\ q \in Nat /\ e \in Nat
        BY <1>1, Zenon
      <3> QED BY <2>1, <3>1
    <2> QED BY <2>1, Zenon
  <1>3. Rank(E, e) = 0
    BY <1>2, FS_EmptySet, Zenon DEF Rank
  <1>4. Rank(E, e) < MaxRanges
    BY <1>3
  <1> QED BY <1>4, Zenon DEF First

\* An end of a gap is an offset up to the total, and the gap has a beginning.
LEMMA EndsAre ==
    ASSUME NEW F \in Fragments, NEW total \in Nat, Apart(F, total)
    PROVE  /\ Ends(F, total) \in SUBSET Nat /\ IsFiniteSet(Ends(F, total))
           /\ \A o \in Ends(F, total) : /\ o \in Nat /\ o <= total /\ (o # total => o \in DOMAIN F)
                                        /\ Cursor(F, o) \in Nat /\ Cursor(F, o) < o
  <1>1. /\ DOMAIN F \in SUBSET Nat /\ \A o \in DOMAIN F : F[o] \in Nat \ {0}
    BY FragmentsAre, Zenon
  <1>2. ASSUME NEW o \in Ends(F, total)
        PROVE  /\ o \in Nat /\ o <= total /\ (o # total => o \in DOMAIN F)
               /\ Cursor(F, o) \in Nat /\ Cursor(F, o) < o
    <2>1. (o \in DOMAIN F \/ o = total) /\ Cursor(F, o) < o
      BY Zenon DEF Ends
    <2>2. o \in Nat /\ (o \in DOMAIN F => o + F[o] <= total)
      BY <1>1, <2>1, Zenon DEF Apart
    <2>3. o <= total
      BY <1>1, <2>1, <2>2
    <2>4. CASE Cursor(F, o) = 0
      BY <2>1, <2>2, <2>3, <2>4
    <2>5. CASE \E q \in DOMAIN F : Cursor(F, o) = q + F[q]
      <3>1. PICK q \in DOMAIN F : Cursor(F, o) = q + F[q]
        BY <2>5, Zenon
      <3>2. q \in Nat /\ F[q] \in Nat
        BY <1>1
      <3> QED BY <2>1, <2>2, <2>3, <3>1, <3>2
    <2> QED BY <2>2, <2>4, <2>5, CursorIs, Zenon
  <1>3. Ends(F, total) \in SUBSET Nat /\ \A o \in Ends(F, total) : o <= total
    BY <1>2, Zenon
  <1>4. IsFiniteSet(Ends(F, total))
    BY <1>3, FS_BoundedSetOfNaturals, Zenon
  <1> QED BY <1>2, <1>3, <1>4, Zenon

\* A gap touches no retained byte.
LEMMA GapLacks ==
    ASSUME NEW F \in Fragments, NEW total \in Nat, Apart(F, total), NEW o \in Ends(F, total),
           NEW i \in Nat, Cursor(F, o) <= i, i < o
    PROVE  i \in Bytes(0, total) \ Covered(F)
  <1>1. o \in Nat /\ o <= total /\ Cursor(F, o) \in Nat
    BY EndsAre, Zenon
  <1>2. i \in Bytes(0, total)
    <2>1. i < 0 + total /\ 0 <= i
      BY <1>1
    <2>2. 0 \in Nat
      OBVIOUS
    <2> QED BY <2>1, <2>2, BytesAre, Zenon
  <1>3. ASSUME i \in Covered(F) PROVE FALSE
    <2>1. PICK q \in DOMAIN F : q <= i /\ i < q + F[q]
      BY <1>3, CoveredAre, Zenon
    <2>2. \A p \in DOMAIN F : p \in Nat /\ F[p] \in Nat
      BY FragmentsAre
    <2>3. q < o
      BY <1>1, <2>1, <2>2
    <2>4. PICK p \in DOMAIN F : /\ p < o /\ Cursor(F, o) = p + F[p]
                                /\ \A z \in DOMAIN F : z < o => z <= p
      <3>1. Below(F, o) # {}
        BY <2>3, Zenon DEF Below
      <3> QED BY <1>1, <3>1, CursorIs, Zenon
    <2>5. q <= p
      BY <2>3, <2>4, Zenon
    <2>6. q < p => q + F[q] <= p
      BY Zenon DEF Apart
    <2>7. q \in Nat /\ F[q] \in Nat /\ p \in Nat /\ F[p] \in Nat
      BY <2>2, Zenon
    <2> QED BY <1>1, <2>1, <2>4, <2>5, <2>6, <2>7
  <1> QED BY <1>2, <1>3, Zenon

\* A byte that is lacking is in a gap.
LEMMA LackInGap ==
    ASSUME NEW F \in Fragments, NEW total \in Nat, Apart(F, total),
           NEW i \in Bytes(0, total) \ Covered(F)
    PROVE  i \in Nat /\ \E o \in Ends(F, total) : Cursor(F, o) <= i /\ i < o
  <1>1. i \in Nat /\ i < total
    <2>1. 0 \in Nat
      OBVIOUS
    <2>2. i \in Nat /\ i < 0 + total
      BY <2>1, BytesAre, Zenon
    <2> QED BY <2>2
  <1>2. \A p \in DOMAIN F : p \in Nat /\ F[p] \in Nat \ {0}
    BY FragmentsAre
  <1> DEFINE S == {p \in DOMAIN F \cup {total} : p > i}
  <1>3. S \in SUBSET Nat /\ total \in S
    BY <1>1, <1>2
  <1>4. PICK o \in S : \A y \in S : o <= y
    <2> HIDE DEF S
    <2> QED BY <1>3, LeastNat, Zenon
  <1>5. o \in DOMAIN F \cup {total} /\ i < o /\ o \in Nat
    BY <1>1, <1>2, <1>4
  <1>6. Cursor(F, o) <= i
    <2>1. CASE Cursor(F, o) = 0
      BY <1>1, <2>1
    <2>2. CASE \E p \in DOMAIN F : p < o /\ Cursor(F, o) = p + F[p]
      <3>1. PICK p \in DOMAIN F : p < o /\ Cursor(F, o) = p + F[p]
        BY <2>2, Zenon
      <3>2. p \in Nat /\ F[p] \in Nat
        BY <1>2
      <3>3. p <= i
        <4>1. ASSUME p > i PROVE FALSE
          <5>1. o <= p
            BY <1>4, <4>1, Zenon
          <5> QED BY <1>5, <3>1, <3>2, <5>1
        <4> QED BY <1>1, <3>2, <4>1
      <3>4. ~(i < p + F[p])
        BY <1>1, <3>3, CoveredAre, Zenon
      <3> QED BY <1>1, <3>1, <3>2, <3>4
    <2> QED BY <1>5, <2>1, <2>2, CursorIs, Zenon
  <1>7. Cursor(F, o) < o
    <2>1. Cursor(F, o) \in Nat
      <3>1. CASE Cursor(F, o) = 0
        BY <3>1
      <3>2. CASE \E p \in DOMAIN F : Cursor(F, o) = p + F[p]
        BY <1>2, <3>2
      <3> QED BY <1>5, <3>1, <3>2, CursorIs, Zenon
    <2> QED BY <1>1, <1>5, <1>6, <2>1
  <1>8. o \in Ends(F, total)
    BY <1>5, <1>7, Zenon DEF Ends
  <1> QED BY <1>1, <1>5, <1>6, <1>8, Zenon

\* A later gap begins after the end of an earlier one.
LEMMA GapsOrdered ==
    ASSUME NEW F \in Fragments, NEW total \in Nat, Apart(F, total),
           NEW o \in Ends(F, total), NEW p \in Ends(F, total), o < p
    PROVE  o <= Cursor(F, p)
  <1>1. /\ o \in Nat /\ o <= total /\ (o # total => o \in DOMAIN F)
        /\ p \in Nat /\ p <= total
    BY EndsAre, Zenon
  <1>2. o \in DOMAIN F
    BY <1>1
  <1>3. PICK q \in DOMAIN F : /\ q < p /\ Cursor(F, p) = q + F[q]
                              /\ \A z \in DOMAIN F : z < p => z <= q
    <2>1. Below(F, p) # {}
      BY <1>2, Zenon DEF Below
    <2> QED BY <1>1, <2>1, CursorIs, Zenon
  <1>4. o <= q
    BY <1>2, <1>3, Zenon
  <1>5. q \in Nat /\ F[q] \in Nat
    BY FragmentsAre
  <1> QED BY <1>1, <1>3, <1>4, <1>5
\* What a report asks for, and what is missing.
Asked(F, total) == UNION {Bytes(x[1], x[2]) : x \in MissingRanges(F, total)}
Lacking(F, total) == Bytes(0, total) \ Covered(F)

\* What MissingIsExact says of one transfer.
Exact(F, total) ==
    /\ Asked(F, total) \subseteq Lacking(F, total) /\ (MaxRanges > 0 => Asked(F, total) # {})
    /\ \/ Asked(F, total) = Lacking(F, total)
       \/ /\ Cardinality(MissingRanges(F, total)) = MaxRanges
          /\ \A i \in Asked(F, total), j \in Lacking(F, total) \ Asked(F, total) : i < j

\* The ranges are the first gaps.
LEMMA RangesAre ==
    ASSUME NEW F, NEW total
    PROVE  MissingRanges(F, total) = {Gap(F, o) : o \in First(Ends(F, total))}
  BY Zenon DEF MissingRanges, Gap, First, Rank, Ends

\* The bytes asked for are those of the first gaps.
LEMMA AskedAre ==
    ASSUME NEW F \in Fragments, NEW total \in Nat, Apart(F, total)
    PROVE  \A i : i \in Asked(F, total) <=>
             i \in Nat /\ \E o \in First(Ends(F, total)) : Cursor(F, o) <= i /\ i < o
  <1> DEFINE P == First(Ends(F, total))
  <1>1. ASSUME NEW o \in P
        PROVE  o \in Nat /\ Cursor(F, o) \in Nat /\ Cursor(F, o) < o
    <2>1. o \in Ends(F, total)
      BY Zenon DEF First
    <2> QED BY <2>1, EndsAre, Zenon
  <1>2. ASSUME NEW o \in P, NEW i
        PROVE  i \in Bytes(Gap(F, o)[1], Gap(F, o)[2]) <=> i \in Nat /\ Cursor(F, o) <= i /\ i < o
    <2> DEFINE c == Cursor(F, o)
               l == o - c
    <2>1. o \in Nat /\ c \in Nat /\ c < o
      BY <1>1, Zenon
    <2>2. Gap(F, o)[1] = c /\ Gap(F, o)[2] = l
      BY DEF Gap
    <2>3. l \in Nat /\ c + l = o
      BY <2>1
    <2> HIDE DEF c, l
    <2>4. i \in Bytes(c, l) <=> i \in Nat /\ c <= i /\ i < c + l
      BY <2>1, <2>3, BytesAre, Zenon
    <2>5. i \in Bytes(c, l) <=> i \in Nat /\ c <= i /\ i < o
      BY <2>3, <2>4, Zenon
    <2>6. i \in Bytes(Gap(F, o)[1], Gap(F, o)[2]) <=> i \in Nat /\ c <= i /\ i < o
      BY <2>2, <2>5, Zenon
    <2> QED BY <2>6, Zenon DEF c
  <1>3. \A i : i \in Asked(F, total) <=> \E o \in P : i \in Bytes(Gap(F, o)[1], Gap(F, o)[2])
    <2>1. \A i : i \in Asked(F, total) <=>
            \E x \in {Gap(F, o) : o \in P} : i \in Bytes(x[1], x[2])
      BY RangesAre, Zenon DEF Asked
    <2> HIDE DEF P
    <2> QED BY <2>1, Zenon
  <1> QED BY <1>2, <1>3, Zenon

\* There is one range for each of the first gaps.
LEMMA RangesCount ==
    ASSUME NEW F \in Fragments, NEW total \in Nat, Apart(F, total)
    PROVE  Cardinality(MissingRanges(F, total)) = Cardinality(First(Ends(F, total)))
  <1> DEFINE P == First(Ends(F, total))
             G == {Gap(F, o) : o \in P}
             f == [o \in P |-> Gap(F, o)]
  <1>1. IsFiniteSet(P)
    <2>1. P \in SUBSET Ends(F, total) /\ IsFiniteSet(Ends(F, total))
      BY EndsAre, Zenon DEF First
    <2> QED BY <2>1, FS_Subset, Zenon
  <1>2. f \in Surjection(P, G)
    <2> HIDE DEF P
    <2> QED BY Zenon DEF Surjection
  <1>3. f \in Injection(P, G)
    <2>1. ASSUME NEW o \in P, NEW p \in P, Gap(F, o) = Gap(F, p) PROVE o = p
      <3>1. o \in Ends(F, total) /\ p \in Ends(F, total)
        BY Zenon DEF First
      <3>2. o \in Nat /\ p \in Nat /\ Cursor(F, o) \in Nat /\ Cursor(F, p) \in Nat
        BY <3>1, EndsAre, Zenon
      <3>3. Cursor(F, o) = Cursor(F, p) /\ o - Cursor(F, o) = p - Cursor(F, p)
        BY <2>1 DEF Gap
      <3> QED BY <3>2, <3>3
    <2> HIDE DEF P
    <2>2. f \in [P -> G] /\ DOMAIN f = P /\ \A o \in P : f[o] = Gap(F, o)
      BY Zenon
    <2> QED BY <2>1, <2>2, Zenon DEF Injection, IsInjective
  <1>4. Cardinality(G) = Cardinality(P)
    <2> HIDE DEF f, G, P
    <2>1. Cardinality(G) = Cardinality(P) <=> f \in Injection(P, G)
      BY <1>1, <1>2, FS_Surjection, Zenon
    <2> QED BY <1>3, <2>1, Zenon
  <1> QED BY <1>4, RangesAre, Zenon

\* A report names exactly what is missing, for any fragments that are in bounds and
\* apart and do not cover the message.
LEMMA MissingExact ==
    ASSUME NEW F \in Fragments, NEW total \in Nat, Apart(F, total), Covered(F) # Bytes(0, total)
    PROVE  Exact(F, total)
  <1> DEFINE E == Ends(F, total)
             P == First(E)
             A == Asked(F, total)
             L == Lacking(F, total)
  <1>1. E \in SUBSET Nat /\ IsFiniteSet(E) /\ P \in SUBSET E
    BY EndsAre, Zenon DEF First
  <1>2. \A i : i \in A <=> i \in Nat /\ \E o \in P : Cursor(F, o) <= i /\ i < o
    BY AskedAre, Zenon
  <1>3. ASSUME NEW i \in A PROVE i \in L
    <2>1. PICK o \in P : i \in Nat /\ Cursor(F, o) <= i /\ i < o
      BY <1>2, Zenon
    <2> QED BY <1>1, <2>1, GapLacks, Zenon DEF Lacking
  <1>4. ASSUME NEW i \in L PROVE i \in Nat /\ \E o \in E : Cursor(F, o) <= i /\ i < o
    BY LackInGap, Zenon DEF Lacking
  <1>5. L # {}
    BY CoveredWithin, Zenon DEF Lacking
  <1>6. MaxRanges > 0 => A # {}
    <2> SUFFICES ASSUME MaxRanges > 0 PROVE A # {}
      BY Zenon
    <2>1. E # {}
      BY <1>4, <1>5, Zenon
    <2>2. PICK o \in P : TRUE
      BY <1>1, <2>1, FirstSome, Zenon
    <2>3. o \in Nat /\ Cursor(F, o) \in Nat /\ Cursor(F, o) < o
      BY <1>1, <2>2, EndsAre, Zenon
    <2>4. Cursor(F, o) <= Cursor(F, o)
      BY <2>3
    <2> QED BY <1>2, <2>3, <2>4, Zenon
  <1>7. CASE P = E
    <2>1. A = L
      BY <1>2, <1>3, <1>4, <1>7, Zenon
    <2> QED BY <1>6, <2>1, Zenon DEF Exact
  <1>8. CASE P # E
    <2>1. Cardinality(P) = MaxRanges /\ \A p \in P, q \in E \ P : p < q
      BY <1>1, <1>8, FirstOf, Zenon
    <2>2. Cardinality(MissingRanges(F, total)) = MaxRanges
      BY <2>1, RangesCount, Zenon
    <2>3. ASSUME NEW i \in A, NEW j \in L \ A PROVE i < j
      <3>1. PICK p \in P : i \in Nat /\ Cursor(F, p) <= i /\ i < p
        BY <1>2, Zenon
      <3>2. PICK q \in E : j \in Nat /\ Cursor(F, q) <= j /\ j < q
        BY <1>4, Zenon
      <3>3. q \notin P
        BY <1>2, <3>2, Zenon
      <3>4. p \in E /\ p < q
        BY <1>1, <2>1, <3>3, Zenon
      <3>5. p <= Cursor(F, q)
        BY <3>4, GapsOrdered, Zenon
      <3>6. p \in Nat /\ Cursor(F, q) \in Nat
        BY <3>4, EndsAre, Zenon
      <3> QED BY <3>1, <3>2, <3>5, <3>6
    <2> QED BY <1>3, <1>6, <2>2, <2>3, Zenon DEF Exact
  <1> QED BY <1>7, <1>8, Zenon

\* Fragments that are in bounds and apart and cover the message follow on each other:
\* what accept_fragment assembles when the bytes add up is the message.
LEMMA CoveredContiguous ==
    ASSUME NEW F \in Fragments, NEW total \in Nat, Apart(F, total), Covered(F) = Bytes(0, total)
    PROVE  Contiguous(F)
  <1> SUFFICES ASSUME NEW o \in DOMAIN F, Cursor(F, o) # o PROVE FALSE
    BY Zenon DEF Contiguous
  <1>1. \A p \in DOMAIN F : p \in Nat /\ F[p] \in Nat \ {0}
    BY FragmentsAre
  <1>2. Cursor(F, o) \in Nat /\ Cursor(F, o) <= o
    <2>1. CASE Cursor(F, o) = 0
      BY <1>1, <2>1
    <2>2. CASE \E p \in DOMAIN F : p < o /\ Cursor(F, o) = p + F[p]
      <3>1. PICK p \in DOMAIN F : p < o /\ Cursor(F, o) = p + F[p]
        BY <2>2, Zenon
      <3>2. p + F[p] <= o
        BY <3>1, Zenon DEF Apart
      <3> QED BY <1>1, <3>1, <3>2
    <2>3. o \in Nat
      BY <1>1, Zenon
    <2> QED BY <2>1, <2>2, <2>3, CursorIs, Zenon
  <1>3. Cursor(F, o) < o
    BY <1>1, <1>2
  <1>4. o \in Ends(F, total)
    BY <1>3, Zenon DEF Ends
  <1>5. Cursor(F, o) <= Cursor(F, o)
    BY <1>2
  <1>6. Cursor(F, o) \in Bytes(0, total) \ Covered(F)
    BY <1>2, <1>3, <1>4, <1>5, GapLacks, Zenon
  <1> QED BY <1>6, Zenon
(***************************************************************************)
(* The invariant of a reassembler.                                         *)
(***************************************************************************)
\* The fragments of T are apart, within m, and its byte count is what they cover.
Sound(m, T) ==
    T \in Part /\ Apart(T.frags, Size[m]) /\ T.bytes = Cardinality(Covered(T.frags))

\* The limits hold.
Within(R, s) ==
    \A n \in Nodes : /\ R.all[n] <= s.total
                     /\ \A p \in Nodes : /\ R.peer[n][p] <= s.peer
                                         /\ Cardinality(AtFrom(R, n, p)) <= s.transfers

\* Before a completed transfer is taken out, and after.
Near(R, s) ==
    Shape(R) /\ Counted(R) /\ Within(R, s) /\ \A m \in Kept(R) : Sound(m, R.parts[m])
Whole(R, s) == Near(R, s) /\ \A m \in Kept(R) : R.parts[m].bytes # Size[m]

\* The parts of one sender at one receiver are finitely many.
LEMMA AtFromFinite ==
    ASSUME NEW R, NEW n, NEW p
    PROVE  IsFiniteSet(AtFrom(R, n, p)) /\ Cardinality(AtFrom(R, n, p)) \in Nat
  <1> USE Zenon
  <1>1. AtFrom(R, n, p) \in SUBSET Messages
    BY DEF AtFrom, At
  <1>2. IsFiniteSet(AtFrom(R, n, p))
    BY <1>1, Finite
  <1> QED BY <1>2, FS_CardinalityType

\* Removing parts leaves no more of them.
LEMMA GoneFewer ==
    ASSUME NEW R, NEW Q, NEW r \in Nodes, NEW V \in SUBSET At(R, r), Gone(R, Q, r, V),
           NEW n \in Nodes, NEW p \in Nodes
    PROVE  Cardinality(AtFrom(Q, n, p)) <= Cardinality(AtFrom(R, n, p))
  <1> USE Zenon
  <1>1. Left(R, Q, r, V, n, p)
    BY GoneAt
  <1>2. AtFrom(Q, n, p) \in SUBSET AtFrom(R, n, p)
    BY <1>1 DEF Left
  <1> QED BY <1>2, AtFromFinite, FS_Subset

\* What a setup is.
LEMMA SetupIs ==
    ASSUME NEW s \in Setup
    PROVE  s.transfers \in Nat /\ s.peer \in Nat /\ s.total \in Nat
  BY DEF Setup

\* Removing parts keeps the limits ...
LEMMA GoneWithin ==
    ASSUME NEW R, Shape(R), Counted(R), NEW s \in Setup, Within(R, s),
           NEW Q, NEW r \in Nodes, NEW V \in SUBSET At(R, r), Gone(R, Q, r, V)
    PROVE  Within(Q, s)
  <1>1. ASSUME NEW n \in Nodes, NEW p \in Nodes
        PROVE  Q.all[n] <= s.total /\ Q.peer[n][p] <= s.peer
                 /\ Cardinality(AtFrom(Q, n, p)) <= s.transfers
    <2>1. Q.all[n] <= R.all[n] /\ Q.peer[n][p] <= R.peer[n][p]
      BY GoneLess, Zenon
    <2>2. Cardinality(AtFrom(Q, n, p)) <= Cardinality(AtFrom(R, n, p))
      BY GoneFewer, Zenon
    <2>3. R.all[n] <= s.total /\ R.peer[n][p] <= s.peer
            /\ Cardinality(AtFrom(R, n, p)) <= s.transfers
      BY Zenon DEF Within
    <2>4. R.all[n] \in Nat /\ R.peer[n][p] \in Nat
      BY Shaped, Zenon
    <2>5. Shape(Q)
      BY Zenon DEF Gone
    <2>6. Q.all[n] \in Nat /\ Q.peer[n][p] \in Nat
      BY <2>5, Shaped, Zenon
    <2>7. Cardinality(AtFrom(Q, n, p)) \in Nat /\ Cardinality(AtFrom(R, n, p)) \in Nat
      BY AtFromFinite, Zenon
    <2>8. s.transfers \in Nat /\ s.peer \in Nat /\ s.total \in Nat
      BY SetupIs, Zenon
    <2> QED BY <2>1, <2>2, <2>3, <2>4, <2>6, <2>7, <2>8, SMTT(30)
  <1> QED BY <1>1, Zenon DEF Within

\* ... and the parts that are left.
LEMMA GoneParts ==
    ASSUME NEW R, NEW Q, NEW r, NEW V, Gone(R, Q, r, V), NEW m \in Kept(Q)
    PROVE  m \in Kept(R) /\ m \notin V /\ Q.parts[m] = R.parts[m]
  BY Zenon DEF Gone, Drops, Kept

\* Removing parts keeps the invariant.
LEMMA GoneNear ==
    ASSUME NEW R, NEW s \in Setup, Near(R, s),
           NEW Q, NEW r \in Nodes, NEW V \in SUBSET At(R, r), Gone(R, Q, r, V)
    PROVE  Near(Q, s)
  <1> USE Zenon
  <1>1. Shape(R) /\ Counted(R) /\ Within(R, s) /\ \A m \in Kept(R) : Sound(m, R.parts[m])
    BY DEF Near
  <1>2. Shape(Q)
    BY DEF Gone
  <1>3. Counted(Q)
    BY <1>1, GoneCounted
  <1>4. Within(Q, s)
    BY <1>1, GoneWithin
  <1>5. ASSUME NEW m \in Kept(Q) PROVE Sound(m, Q.parts[m])
    <2>1. m \in Kept(R) /\ Q.parts[m] = R.parts[m]
      BY GoneParts
    <2> QED BY <1>1, <2>1
  <1> QED BY <1>2, <1>3, <1>4, <1>5 DEF Near

\* remove_transfer keeps the invariant, and completes it when it takes out every
\* part that is complete.
LEMMA RemoveWhole ==
    ASSUME NEW R, NEW s \in Setup, Near(R, s), NEW r \in Nodes, NEW V \in SUBSET At(R, r),
           \A m \in Kept(R) \ V : R.parts[m].bytes # Size[m]
    PROVE  Whole(RemoveParts(R, r, V), s)
  <1> USE Zenon
  <1> DEFINE Q == RemoveParts(R, r, V)
  <1>1. Gone(R, Q, r, V)
    BY RemoveGone DEF Near
  <1> HIDE DEF Q
  <1>2. Near(Q, s)
    BY <1>1, GoneNear
  <1>3. ASSUME NEW m \in Kept(Q) PROVE Q.parts[m].bytes # Size[m]
    <2>1. m \in Kept(R) /\ m \notin V /\ Q.parts[m] = R.parts[m]
      BY <1>1, GoneParts
    <2> QED BY <2>1
  <1>4. Whole(Q, s)
    BY <1>2, <1>3 DEF Whole
  <1> QED BY <1>4 DEF Q

\* Expiry keeps the invariant.
LEMMA ExpireWhole ==
    ASSUME NEW R, NEW s \in Setup, Whole(R, s), NEW r \in Nodes
    PROVE  Whole(Expire(R, r), s)
  <1> USE Zenon
  <1> DEFINE V == {m \in At(R, r) : R.parts[m].idle >= ReassemblyTTL}
  <1>1. V \in SUBSET At(R, r) /\ Near(R, s) /\ \A m \in Kept(R) \ V : R.parts[m].bytes # Size[m]
    BY DEF Whole
  <1> HIDE DEF V
  <1>2. Whole(RemoveParts(R, r, V), s)
    BY <1>1, RemoveWhole
  <1> QED BY <1>2 DEF Expire, V

(***************************************************************************)
(* make_transfer_slot and make_byte_room.                                  *)
(***************************************************************************)
\* There is a slot for m, and room for len more bytes of it.
SlotFits(R, m) == \/ R.parts[m] # None
                  \/ Cardinality(AtFrom(R, To[m], From[m])) < setup.transfers
PeerFits(R, m, len) == R.peer[To[m]][From[m]] + len <= setup.peer
AllFits(R, m, len) == R.all[To[m]] + len <= setup.total

\* Victims are candidates.
LEMMA VictimsAre ==
    ASSUME NEW C, NEW T, NEW Peer, NEW Enough
    PROVE  Victims(C, T, Peer, Enough) \in SUBSET C
  BY Zenon DEF Victims

\* Where a message goes.
LEMMA MessageEnds ==
    \A m \in Messages : From[m] \in Nodes /\ To[m] \in Nodes /\ Size[m] \in Nat \ {0}
  BY TransferAssumption

\* Q is what one pass leaves of R: V is gone, and there is room if the pass says so.
Evicts(R, Q, ok, pass, m, len, V) ==
    /\ V \in SUBSET (At(R, To[m]) \ {m})
    /\ pass # "all" => V \subseteq AtFrom(R, To[m], From[m])
    /\ ok = Fits(R, pass, m, len, V)
    /\ Gone(R, Q, To[m], V)

\* What a pass does.
LEMMA EvictIs ==
    ASSUME NEW R, Whole(R, setup), NEW pass, NEW m \in Messages, NEW len
    PROVE  \E V : Evicts(R, EvictParts(R, pass, m, len).R, EvictParts(R, pass, m, len).ok, pass, m, len, V)
  <1> DEFINE C == {x \in At(R, To[m]) \ {m} : pass = "all" \/ From[x] = From[m]}
             V == Victims(C, R.parts, From, {W \in SUBSET C : Fits(R, pass, m, len, W)})
  <1>1. V \in SUBSET C
    <2> HIDE DEF C
    <2> QED BY VictimsAre, Zenon
  <1>2. EvictParts(R, pass, m, len) = [ok |-> Fits(R, pass, m, len, V), R |-> RemoveParts(R, To[m], V)]
    BY Zenon DEF EvictParts
  <1> HIDE DEF V
  <1>3. V \in SUBSET (At(R, To[m]) \ {m}) /\ (pass # "all" => V \subseteq AtFrom(R, To[m], From[m]))
    BY <1>1, Zenon DEF AtFrom
  <1>4. V \in SUBSET At(R, To[m]) /\ To[m] \in Nodes /\ Shape(R) /\ Counted(R)
    BY <1>3, MessageEnds, Zenon DEF Whole, Near
  <1>5. Gone(R, RemoveParts(R, To[m], V), To[m], V)
    BY <1>4, RemoveGone, Zenon
  <1>6. EvictParts(R, pass, m, len).R = RemoveParts(R, To[m], V)
          /\ EvictParts(R, pass, m, len).ok = Fits(R, pass, m, len, V)
    BY <1>2
  <1>7. Evicts(R, EvictParts(R, pass, m, len).R, EvictParts(R, pass, m, len).ok, pass, m, len, V)
    BY <1>3, <1>5, <1>6, Zenon DEF Evicts
  <1> QED BY <1>7, Zenon

\* A pass keeps the invariant, the transfer it makes room for, and the room that the
\* passes before it made.
LEMMA EvictKeeps ==
    ASSUME setup \in Setup, NEW R, Whole(R, setup), NEW m \in Messages, NEW len \in Nat,
           NEW Q, NEW ok, NEW pass, NEW V, Evicts(R, Q, ok, pass, m, len, V)
    PROVE  /\ Whole(Q, setup) /\ Q.parts[m] = R.parts[m]
           /\ SlotFits(R, m) => SlotFits(Q, m)
           /\ PeerFits(R, m, len) => PeerFits(Q, m, len)
  <1>1. V \in SUBSET At(R, To[m]) /\ m \notin V /\ Gone(R, Q, To[m], V)
    BY Zenon DEF Evicts
  <1>2. From[m] \in Nodes /\ To[m] \in Nodes
    BY MessageEnds, Zenon
  <1>3. Near(R, setup) /\ Shape(R) /\ Counted(R)
    BY Zenon DEF Whole, Near
  <1>4. Near(Q, setup)
    BY <1>1, <1>2, <1>3, GoneNear, Zenon
  <1>5. ASSUME NEW x \in Kept(Q) PROVE Q.parts[x].bytes # Size[x]
    <2>1. x \in Kept(R) /\ Q.parts[x] = R.parts[x]
      BY <1>1, GoneParts, ZenonT(60)
    <2> QED BY <2>1, Zenon DEF Whole
  <1>6. Whole(Q, setup)
    BY <1>4, <1>5, Zenon DEF Whole
  <1>7. Q.parts[m] = R.parts[m]
    BY <1>1, Zenon DEF Gone, Drops
  <1>8. SlotFits(R, m) => SlotFits(Q, m)
    <2>1. Cardinality(AtFrom(Q, To[m], From[m])) <= Cardinality(AtFrom(R, To[m], From[m]))
      BY <1>1, <1>2, GoneFewer, Zenon
    <2>2. Cardinality(AtFrom(Q, To[m], From[m])) \in Nat /\ Cardinality(AtFrom(R, To[m], From[m])) \in Nat
      BY AtFromFinite, Zenon
    <2>3. setup.transfers \in Nat
      BY SetupIs, Zenon
    <2> QED BY <1>7, <2>1, <2>2, <2>3 DEF SlotFits
  <1>9. PeerFits(R, m, len) => PeerFits(Q, m, len)
    <2>1. Q.peer[To[m]][From[m]] <= R.peer[To[m]][From[m]]
      BY <1>1, <1>2, <1>3, GoneLess, Zenon
    <2>2. R.peer[To[m]][From[m]] \in Nat
      BY <1>2, <1>3, Shaped, Zenon
    <2>3. Shape(Q)
      BY <1>4, Zenon DEF Near
    <2>4. Q.peer[To[m]][From[m]] \in Nat
      BY <1>2, <2>3, Shaped, Zenon
    <2>5. setup.peer \in Nat
      BY SetupIs, Zenon
    <2> QED BY <2>1, <2>2, <2>4, <2>5 DEF PeerFits
  <1> QED BY <1>6, <1>7, <1>8, <1>9, Zenon

\* A pass that succeeds made its room.
LEMMA EvictMakes ==
    ASSUME setup \in Setup, NEW R, Whole(R, setup), NEW m \in Messages, NEW len \in Nat,
           NEW Q, NEW ok, NEW pass, NEW V, Evicts(R, Q, ok, pass, m, len, V), ok
    PROVE  /\ pass = "slots" => SlotFits(Q, m)
           /\ pass = "peer" => PeerFits(Q, m, len)
           /\ pass = "all" => AllFits(Q, m, len)
  <1>1. V \in SUBSET At(R, To[m]) /\ m \notin V /\ Gone(R, Q, To[m], V)
    BY Zenon DEF Evicts
  <1>2. From[m] \in Nodes /\ To[m] \in Nodes
    BY MessageEnds, Zenon
  <1>3. Shape(R) /\ Counted(R)
    BY Zenon DEF Whole, Near
  <1>4. Fits(R, pass, m, len, V)
    BY Zenon DEF Evicts
  <1>5. ASSUME pass = "slots" PROVE SlotFits(Q, m)
    <2>1. R.parts[m] # None \/ Cardinality(AtFrom(R, To[m], From[m]) \ V) < setup.transfers
      BY <1>4, <1>5 DEF Fits
    <2>2. Q.parts[m] = R.parts[m]
      BY <1>1, Zenon DEF Gone, Drops
    <2>3. Left(R, Q, To[m], V, To[m], From[m])
      BY <1>1, <1>2, GoneAt, Zenon
    <2>4. AtFrom(Q, To[m], From[m]) = AtFrom(R, To[m], From[m]) \ V
      BY <2>3, Zenon DEF Left
    <2> QED BY <2>1, <2>2, <2>4, Zenon DEF SlotFits
  <1>6. ASSUME pass = "peer" PROVE PeerFits(Q, m, len)
    <2>1. R.peer[To[m]][From[m]] - PartBytes(R, V) + len <= setup.peer
      BY <1>4, <1>6 DEF Fits
    <2>2. pass # "all"
      BY <1>6
    <2>3. V \subseteq AtFrom(R, To[m], From[m])
      BY <2>2, Zenon DEF Evicts
    <2>4. Q.peer[To[m]][From[m]] = R.peer[To[m]][From[m]] - PartBytes(R, V)
      <3>1. Fell(R, Q, To[m], From[m], V)
        BY <1>1, <1>2, <1>3, <2>3, GonePeer, Zenon
      <3> QED BY <3>1, Zenon DEF Fell
    <2> QED BY <2>1, <2>4, Zenon DEF PeerFits
  <1>7. ASSUME pass = "all" PROVE AllFits(Q, m, len)
    <2>1. R.all[To[m]] - PartBytes(R, V) + len <= setup.total
      BY <1>4, <1>7 DEF Fits
    <2>2. Q.all[To[m]] = R.all[To[m]] - PartBytes(R, V)
      BY <1>1, <1>2, <1>3, GoneAll, Zenon
    <2> QED BY <2>1, <2>2, Zenon DEF AllFits
  <1> QED BY <1>5, <1>6, <1>7, Zenon

\* A reassembler with the invariant and the transfer of m as it was in R.
Like(R, Q, m) == Whole(Q, setup) /\ Q.parts[m] = R.parts[m]

\* What a pass leaves.
Passed(R, a, pass, m, len) ==
    /\ Like(R, a.R, m)
    /\ SlotFits(R, m) => SlotFits(a.R, m)
    /\ PeerFits(R, m, len) => PeerFits(a.R, m, len)
    /\ a.ok => /\ pass = "slots" => SlotFits(a.R, m)
               /\ pass = "peer" => PeerFits(a.R, m, len)
               /\ pass = "all" => AllFits(a.R, m, len)

\* One pass of make_transfer_slot and make_byte_room.
LEMMA Pass ==
    ASSUME setup \in Setup, NEW R, Whole(R, setup), NEW m \in Messages, NEW len \in Nat, NEW pass,
           NEW a, a = EvictParts(R, pass, m, len)
    PROVE  Passed(R, a, pass, m, len)
  <1> USE Zenon
  <1>1. PICK V : Evicts(R, a.R, a.ok, pass, m, len, V)
    BY EvictIs
  <1>2. /\ Whole(a.R, setup) /\ a.R.parts[m] = R.parts[m]
        /\ SlotFits(R, m) => SlotFits(a.R, m)
        /\ PeerFits(R, m, len) => PeerFits(a.R, m, len)
    BY <1>1, EvictKeeps
  <1>3. a.ok => /\ pass = "slots" => SlotFits(a.R, m)
                /\ pass = "peer" => PeerFits(a.R, m, len)
                /\ pass = "all" => AllFits(a.R, m, len)
    BY <1>1, EvictMakes
  <1> QED BY <1>2, <1>3 DEF Like, Passed

\* Together they make room in the slots, in the peer's bytes and in the bytes of all.
LEMMA RoomMade ==
    ASSUME setup \in Setup, NEW R, Whole(R, setup), NEW m \in Messages, NEW len \in Nat,
           NEW c, c = MakeRoom(R, m, len)
    PROVE  /\ Like(R, c.R, m)
           /\ c.ok => SlotFits(c.R, m) /\ PeerFits(c.R, m, len) /\ AllFits(c.R, m, len)
  <1> DEFINE slots == EvictParts(R, "slots", m, len)
             bytes == EvictParts(slots.R, "peer", m, len)
             all == EvictParts(bytes.R, "all", m, len)
  <1>1. \/ c = [ok |-> FALSE, R |-> R]
        \/ ~slots.ok /\ c = slots
        \/ slots.ok /\ ~bytes.ok /\ c = bytes
        \/ slots.ok /\ bytes.ok /\ c = all
    BY Zenon DEF MakeRoom
  <1>2. Passed(R, slots, "slots", m, len)
    BY Pass, Zenon
  <1>3. Like(R, slots.R, m) /\ (slots.ok => SlotFits(slots.R, m))
    BY <1>2, Zenon DEF Passed
  <1>4. Whole(slots.R, setup)
    BY <1>3, Zenon DEF Like
  <1>5. Passed(slots.R, bytes, "peer", m, len)
    BY <1>4, Pass, Zenon
  <1>6. /\ Like(slots.R, bytes.R, m) /\ (SlotFits(slots.R, m) => SlotFits(bytes.R, m))
        /\ bytes.ok => PeerFits(bytes.R, m, len)
    BY <1>5, Zenon DEF Passed
  <1>7. Whole(bytes.R, setup)
    BY <1>6, Zenon DEF Like
  <1>8. Passed(bytes.R, all, "all", m, len)
    BY <1>7, Pass, Zenon
  <1>9. /\ Like(bytes.R, all.R, m) /\ (SlotFits(bytes.R, m) => SlotFits(all.R, m))
        /\ (PeerFits(bytes.R, m, len) => PeerFits(all.R, m, len))
        /\ all.ok => AllFits(all.R, m, len)
    BY <1>8, Zenon DEF Passed
  <1> HIDE DEF slots, bytes, all
  <1>10. CASE c = [ok |-> FALSE, R |-> R]
    <2>1. c.R = R /\ ~c.ok
      BY <1>10
    <2> QED BY <2>1, Zenon DEF Like
  <1>11. CASE ~slots.ok /\ c = slots
    BY <1>3, <1>11, Zenon
  <1>12. CASE slots.ok /\ ~bytes.ok /\ c = bytes
    BY <1>3, <1>6, <1>12, Zenon DEF Like
  <1>13. CASE slots.ok /\ bytes.ok /\ c = all
    BY <1>3, <1>6, <1>9, <1>13, Zenon DEF Like
  <1> QED BY <1>1, <1>10, <1>11, <1>12, <1>13, Zenon
(***************************************************************************)
(* accept_fragment.                                                        *)
(***************************************************************************)
\* A transfer that begins is sound.
LEMMA NewSound ==
    ASSUME NEW m \in Messages
    PROVE  Sound(m, NewPart)
  <1> DEFINE F == <<>>
  <1>1. DOMAIN F = {} /\ F \in [{} -> Nat \ {0}]
    OBVIOUS
  <1>2. F \in Fragments
    <2>1. {} \in SUBSET Nat /\ \A o \in {} : o <= MaxLogical
      OBVIOUS
    <2> HIDE DEF F
    <2> QED BY <1>1, <2>1, AreFragments, Zenon
  <1>3. Covered(F) = {}
    BY <1>1, Zenon DEF Covered
  <1>4. Cardinality(Covered(F)) = 0
    BY <1>3, FS_EmptySet, Zenon
  <1>5. Apart(F, Size[m])
    BY <1>1, Zenon DEF Apart
  <1>6. RetryInterval \in Nat
    BY TransferAssumption
  <1> HIDE DEF F
  <1>7. NewPart = [frags |-> F, bytes |-> 0, idle |-> 0, asked |-> RetryInterval]
    BY Zenon DEF NewPart, F
  <1>8. NewPart \in Part /\ NewPart.frags = F /\ NewPart.bytes = 0
    BY <1>2, <1>6, <1>7 DEF Part
  <1> QED BY <1>4, <1>5, <1>8, Zenon DEF Sound

\* The transfer of m, begun if need be, and T with a fragment more.
Begun(R, m) == IF R.parts[m] = None THEN NewPart ELSE R.parts[m]
Longer(T, off, len) ==
    [T EXCEPT !.frags = Added(T.frags, off, len), !.bytes = @ + len, !.idle = 0]

\* What insert_fragment changes in a transfer.
LEMMA LongerIs ==
    ASSUME NEW T \in Part, NEW off, NEW len
    PROVE  Longer(T, off, len) \in [frags : {Added(T.frags, off, len)}, bytes : {T.bytes + len},
                                   idle : {0}, asked : Nat]
  BY Zenon DEF Longer, Part

\* L is sound and has len more bytes than T.
Lengthened(m, T, L, len) == Sound(m, L) /\ L.bytes = T.bytes + len

\* A transfer that is longer by a fragment apart from the others is sound.
LEMMA LongerSound ==
    ASSUME NEW m \in Messages, NEW T, Sound(m, T), Size[m] <= MaxLogical,
           NEW off \in Nat, NEW len \in Nat \ {0}, off + len <= Size[m], off \notin DOMAIN T.frags,
           ~Overlaps(T.frags, off, off + len)
    PROVE  Lengthened(m, T, Longer(T, off, len), len)
  <1> DEFINE F == T.frags
             G == Added(F, off, len)
             N == Longer(T, off, len)
  <1>1. T \in Part /\ Apart(F, Size[m]) /\ T.bytes = Cardinality(Covered(F))
    BY Zenon DEF Sound
  <1>2. F \in Fragments /\ T.bytes \in Nat
    BY <1>1 DEF Part
  <1>3. Size[m] \in Nat
    BY MessageEnds
  <1>4. G \in Fragments /\ Apart(G, Size[m])
    <2> HIDE DEF F
    <2>1. off \notin DOMAIN F /\ ~Overlaps(F, off, off + len)
      BY Zenon DEF F
    <2> QED BY <1>1, <1>2, <1>3, <2>1, AddedApart, Zenon
  <1>5. IsFiniteSet(Covered(F))
    BY <1>1, <1>2, <1>3, CoveredWithin, Zenon
  <1>6. /\ IsFiniteSet(Covered(G))
        /\ Cardinality(Covered(G)) = Cardinality(Covered(F)) + len
    <2> HIDE DEF F
    <2>1. off \notin DOMAIN F /\ ~Overlaps(F, off, off + len)
      BY Zenon DEF F
    <2> QED BY <1>1, <1>2, <1>3, <1>5, <2>1, AddedCovers, ZenonT(60)
  <1> HIDE DEF G
  <1>7. N \in [frags : {G}, bytes : {T.bytes + len}, idle : {0}, asked : Nat]
    BY <1>1, LongerIs, Zenon DEF G
  <1> HIDE DEF N, F
  <1>8. N \in Part /\ N.frags = G /\ N.bytes = T.bytes + len
    BY <1>2, <1>4, <1>7 DEF Part
  <1>9. Sound(m, N)
    BY <1>1, <1>4, <1>6, <1>8, Zenon DEF Sound
  <1> QED BY <1>8, <1>9, Zenon DEF N, Lengthened

\* Q is R but for the transfer of m, which is T now, and len more bytes on its counters.
Grown(R, Q, m, T, len) ==
    /\ Shape(Q) /\ Q.parts[m] = T /\ \A x \in Messages \ {m} : Q.parts[x] = R.parts[x]
    /\ Q.all[To[m]] = R.all[To[m]] + len
    /\ \A n \in Nodes \ {To[m]} : Q.all[n] = R.all[n] /\ Q.peer[n] = R.peer[n]
    /\ Q.peer[To[m]][From[m]] = R.peer[To[m]][From[m]] + len
    /\ \A s \in Nodes \ {From[m]} : Q.peer[To[m]][s] = R.peer[To[m]][s]

\* The counters with len more bytes of m.
MorePeer(R, m, len) ==
    [R.peer EXCEPT ![To[m]] = [R.peer[To[m]] EXCEPT ![From[m]] = R.peer[To[m]][From[m]] + len]]
MoreAll(R, m, len) == [R.all EXCEPT ![To[m]] = R.all[To[m]] + len]

\* insert_fragment, in its fields.
LEMMA InsertIs ==
    ASSUME NEW R, Shape(R), NEW f
    PROVE  InsertFragment(R, f) \in
             [parts : {[R.parts EXCEPT ![f.m] = Longer(Begun(R, f.m), f.off, f.len)]},
              peer : {MorePeer(R, f.m, f.len)}, all : {MoreAll(R, f.m, f.len)}]
  <1> USE Zenon
  <1> DEFINE L == Longer(Begun(R, f.m), f.off, f.len)
  <1>1. InsertFragment(R, f) = [R EXCEPT !.parts[f.m] = L, !.peer[To[f.m]][From[f.m]] = @ + f.len,
                                         !.all[To[f.m]] = @ + f.len]
    BY DEF InsertFragment, Longer, Begun, Added
  <1> HIDE DEF L
  <1>2. InsertFragment(R, f) \in [parts : {[R.parts EXCEPT ![f.m] = L]},
                                  peer : {MorePeer(R, f.m, f.len)}, all : {MoreAll(R, f.m, f.len)}]
    BY <1>1 DEF Shape, MorePeer, MoreAll
  <1> QED BY <1>2 DEF L

\* It does that.
LEMMA PutGrown ==
    ASSUME NEW R, Shape(R), NEW m \in Messages, NEW T \in Part, NEW len \in Nat,
           NEW Q \in [parts : {[R.parts EXCEPT ![m] = T]}, peer : {MorePeer(R, m, len)},
                      all : {MoreAll(R, m, len)}]
    PROVE  Grown(R, Q, m, T, len)
  <1>1. From[m] \in Nodes /\ To[m] \in Nodes
    BY MessageEnds, Zenon
  <1>2. /\ R.parts \in [Messages -> Part \cup {None}]
        /\ R.peer \in [Nodes -> [Nodes -> Nat]]
        /\ R.all \in [Nodes -> Nat]
    BY Zenon DEF Shape
  <1> DEFINE P == [R.parts EXCEPT ![m] = T]
             c == R.peer[To[m]]
             d == [c EXCEPT ![From[m]] = c[From[m]] + len]
             e == MorePeer(R, m, len)
             a == MoreAll(R, m, len)
  <1>3. c \in [Nodes -> Nat]
    BY <1>1, <1>2
  <1>4. e = [R.peer EXCEPT ![To[m]] = d]
    BY Zenon DEF MorePeer
  <1> HIDE DEF c, e
  <1>5. d \in [Nodes -> Nat] /\ d[From[m]] = c[From[m]] + len /\ \A s \in Nodes \ {From[m]} : d[s] = c[s]
    BY <1>1, <1>3, SMTT(30)
  <1> HIDE DEF d
  <1>6. e \in [Nodes -> [Nodes -> Nat]] /\ e[To[m]] = d /\ \A n \in Nodes \ {To[m]} : e[n] = R.peer[n]
    BY <1>1, <1>2, <1>4, <1>5, SMTT(30)
  <1>7. a \in [Nodes -> Nat] /\ a[To[m]] = R.all[To[m]] + len /\ \A n \in Nodes \ {To[m]} : a[n] = R.all[n]
    BY <1>1, <1>2 DEF MoreAll
  <1>8. P \in [Messages -> Part \cup {None}] /\ P[m] = T /\ \A x \in Messages \ {m} : P[x] = R.parts[x]
    BY <1>2, Zenon
  <1>9. Q \in [parts : {P}, peer : {e}, all : {a}]
    BY Zenon DEF e
  <1> HIDE DEF P, a
  <1>10. Q.parts = P /\ Q.peer = e /\ Q.all = a /\ Shape(Q)
    BY <1>6, <1>7, <1>8, <1>9, Zenon DEF Shape
  <1> QED BY <1>5, <1>6, <1>7, <1>8, <1>10, Zenon DEF Grown, c

\* T has len more bytes than the transfer of m had, and the parts S with m have len
\* more than they had.
Lengthens(R, T, m, len) == T.bytes = Begun(R, m).bytes + len
Heavier(R, Q, S, m, len) == PartBytes(Q, S \cup {m}) = PartBytes(R, S) + len

\* The bytes of a set of parts, one of which is new or longer.
LEMMA GrownMore ==
    ASSUME NEW R, Shape(R), NEW Q, NEW m \in Messages, NEW T \in Part, NEW len \in Nat,
           Grown(R, Q, m, T, len), Lengthens(R, T, m, len),
           NEW S \in SUBSET Kept(R), m \in S \/ R.parts[m] = None
    PROVE  Heavier(R, Q, S, m, len)
  <1>0. /\ Shape(Q) /\ Q.parts[m] # None /\ Q.parts[m].bytes = Begun(R, m).bytes + len
        /\ \A x \in Messages \ {m} : Q.parts[x] = R.parts[x]
    BY NoneAssumption, Zenon DEF Grown, Lengthens
  <1>1. /\ S \cup {m} \in SUBSET Kept(Q) /\ {m} \in SUBSET (S \cup {m}) /\ m \in Kept(Q)
        /\ (S \cup {m}) \ {m} = S \ {m}
    BY <1>0, Zenon DEF Kept
  <1>2. /\ PartBytes(Q, S \cup {m}) = PartBytes(Q, {m}) + PartBytes(Q, (S \cup {m}) \ {m})
        /\ PartBytes(Q, {m}) \in Nat /\ PartBytes(Q, (S \cup {m}) \ {m}) \in Nat
    BY <1>0, <1>1, PartBytesSplit, Zenon
  <1>3. PartBytes(Q, {m}) = Q.parts[m].bytes
    BY <1>0, <1>1, PartBytesOne, Zenon
  <1>4. \A x \in S \ {m} : Q.parts[x].bytes = R.parts[x].bytes
    BY <1>0, Zenon DEF Kept
  <1>5. PartBytes(Q, S \ {m}) = PartBytes(R, S \ {m})
    BY <1>4, PartBytesSame, Zenon
  <1>6. \A b, c \in Nat : (b + len) + c = (b + c) + len
    OBVIOUS
  <1>7. \A c \in Nat : (0 + len) + c = c + len
    OBVIOUS
  <1>8. CASE m \in S
    <2> USE Zenon
    <2>1. {m} \in SUBSET S /\ m \in Kept(R) /\ R.parts[m] # None
      BY <1>8 DEF Kept
    <2>2. /\ PartBytes(R, S) = PartBytes(R, {m}) + PartBytes(R, S \ {m})
          /\ PartBytes(R, {m}) \in Nat /\ PartBytes(R, S \ {m}) \in Nat
      BY <2>1, PartBytesSplit
    <2>3. PartBytes(R, {m}) = R.parts[m].bytes
      BY <2>1, PartBytesOne
    <2>4. Begun(R, m).bytes = R.parts[m].bytes
      BY <2>1 DEF Begun
    <2>5. PartBytes(Q, S \cup {m}) = (R.parts[m].bytes + len) + PartBytes(R, S \ {m})
      BY <1>0, <1>1, <1>2, <1>3, <1>5, <2>4
    <2>6. /\ PartBytes(R, S) = R.parts[m].bytes + PartBytes(R, S \ {m})
          /\ R.parts[m].bytes \in Nat /\ PartBytes(R, S \ {m}) \in Nat
      BY <2>2, <2>3
    <2> QED BY <1>6, <2>5, <2>6 DEF Heavier
  <1>9. CASE m \notin S
    <2>1. R.parts[m] = None /\ S \ {m} = S
      BY <1>9, Zenon
    <2>2. Begun(R, m).bytes = 0
      BY <2>1 DEF Begun, NewPart
    <2>3. PartBytes(R, S) \in Nat
      BY PartBytesType, Zenon
    <2>4. PartBytes(Q, S \cup {m}) = (0 + len) + PartBytes(R, S)
      BY <1>0, <1>1, <1>2, <1>3, <1>5, <2>1, <2>2, Zenon
    <2>5. (0 + len) + PartBytes(R, S) = PartBytes(R, S) + len
      BY <1>7, <2>3, Zenon
    <2> QED BY <2>4, <2>5, Zenon DEF Heavier
  <1> QED BY <1>8, <1>9, Zenon

\* Whose parts there are now.
Joined(R, Q, m, n, p) ==
    /\ n = To[m] => At(Q, n) = At(R, n) \cup {m}
    /\ n = To[m] /\ p = From[m] => AtFrom(Q, n, p) = AtFrom(R, n, p) \cup {m}
    /\ n # To[m] => At(Q, n) = At(R, n) /\ m \notin At(R, n)
    /\ n # To[m] \/ p # From[m] => AtFrom(Q, n, p) = AtFrom(R, n, p) /\ m \notin AtFrom(R, n, p)

\* m joins its receiver's and its sender's.
LEMMA GrownAt ==
    ASSUME NEW R, NEW Q, NEW m \in Messages, NEW T \in Part, NEW len, Grown(R, Q, m, T, len),
           NEW n, NEW p
    PROVE  Joined(R, Q, m, n, p)
  <1> USE Zenon
  <1>1. Q.parts[m] # None /\ \A x \in Messages \ {m} : Q.parts[x] = R.parts[x]
    BY NoneAssumption DEF Grown
  <1>2. \A x \in Messages : (Q.parts[x] # None) <=> (x = m \/ R.parts[x] # None)
    BY <1>1
  <1>3. \A x : x \in At(Q, n) <=> x \in Messages /\ To[x] = n /\ (x = m \/ R.parts[x] # None)
    BY <1>2 DEF At
  <1>4. \A x : x \in At(R, n) <=> x \in Messages /\ To[x] = n /\ R.parts[x] # None
    BY DEF At
  <1>5. n = To[m] => At(Q, n) = At(R, n) \cup {m}
    BY <1>3, <1>4
  <1>6. n # To[m] => At(Q, n) = At(R, n) /\ m \notin At(R, n)
    BY <1>3, <1>4
  <1>7. n = To[m] /\ p = From[m] => AtFrom(Q, n, p) = AtFrom(R, n, p) \cup {m}
    BY <1>3, <1>4 DEF AtFrom
  <1>8. n # To[m] \/ p # From[m] => AtFrom(Q, n, p) = AtFrom(R, n, p) /\ m \notin AtFrom(R, n, p)
    BY <1>3, <1>4 DEF AtFrom
  <1> QED BY <1>5, <1>6, <1>7, <1>8 DEF Joined

\* A set of parts without m weighs what it did.
Equal(R, Q, S) == PartBytes(Q, S) = PartBytes(R, S)

\* What a fragment of m leaves alone.
LEMMA GrownSame ==
    ASSUME NEW R, NEW Q, NEW m \in Messages, NEW T, NEW len, Grown(R, Q, m, T, len),
           NEW S \in SUBSET Kept(R), m \notin S
    PROVE  Equal(R, Q, S)
  <1> USE Zenon
  <1>1. \A x \in S : Q.parts[x].bytes = R.parts[x].bytes
    BY DEF Grown, Kept
  <1>2. PartBytes(Q, S) = PartBytes(R, S)
    BY <1>1, PartBytesSame
  <1> QED BY <1>2 DEF Equal

\* The counters stay in step with the parts.
LEMMA GrownCounted ==
    ASSUME NEW R, Shape(R), Counted(R), NEW Q, NEW m \in Messages, NEW T \in Part, NEW len \in Nat,
           Grown(R, Q, m, T, len), Lengthens(R, T, m, len)
    PROVE  Counted(Q)
  <1> USE Zenon
  <1>1. ASSUME NEW n \in Nodes PROVE Q.all[n] = PartBytes(Q, At(Q, n))
    <2>1. At(R, n) \in SUBSET Kept(R) /\ R.all[n] = PartBytes(R, At(R, n))
      BY AtKept DEF Counted
    <2>2. Joined(R, Q, m, n, n)
      BY GrownAt
    <2>3. CASE n = To[m]
      <3>1. m \in At(R, n) \/ R.parts[m] = None
        BY <2>3 DEF At
      <3>2. Heavier(R, Q, At(R, n), m, len)
        BY <2>1, <3>1, GrownMore
      <3>3. At(Q, n) = At(R, n) \cup {m}
        BY <2>2, <2>3 DEF Joined
      <3>4. Q.all[n] = R.all[n] + len
        BY <2>3 DEF Grown
      <3> QED BY <2>1, <3>2, <3>3, <3>4 DEF Heavier
    <2>4. CASE n # To[m]
      <3>1. At(Q, n) = At(R, n) /\ m \notin At(R, n)
        BY <2>2, <2>4 DEF Joined
      <3>2. Equal(R, Q, At(R, n))
        BY <2>1, <3>1, GrownSame
      <3>3. Q.all[n] = R.all[n]
        BY <2>4 DEF Grown
      <3> QED BY <2>1, <3>1, <3>2, <3>3 DEF Equal
    <2> QED BY <2>3, <2>4
  <1>2. ASSUME NEW n \in Nodes, NEW p \in Nodes PROVE Q.peer[n][p] = PartBytes(Q, AtFrom(Q, n, p))
    <2>1. AtFrom(R, n, p) \in SUBSET Kept(R) /\ R.peer[n][p] = PartBytes(R, AtFrom(R, n, p))
      BY AtKept DEF Counted
    <2>2. Joined(R, Q, m, n, p)
      BY GrownAt
    <2>3. CASE n = To[m] /\ p = From[m]
      <3>1. m \in AtFrom(R, n, p) \/ R.parts[m] = None
        BY <2>3 DEF At, AtFrom
      <3>2. Heavier(R, Q, AtFrom(R, n, p), m, len)
        BY <2>1, <3>1, GrownMore
      <3>3. AtFrom(Q, n, p) = AtFrom(R, n, p) \cup {m}
        BY <2>2, <2>3 DEF Joined
      <3>4. Q.peer[n][p] = R.peer[n][p] + len
        BY <2>3 DEF Grown
      <3> QED BY <2>1, <3>2, <3>3, <3>4 DEF Heavier
    <2>4. CASE n # To[m] \/ p # From[m]
      <3>1. AtFrom(Q, n, p) = AtFrom(R, n, p) /\ m \notin AtFrom(R, n, p)
        BY <2>2, <2>4 DEF Joined
      <3>2. Equal(R, Q, AtFrom(R, n, p))
        BY <2>1, <3>1, GrownSame
      <3>3. Q.peer[n][p] = R.peer[n][p]
        BY <2>4 DEF Grown
      <3> QED BY <2>1, <3>1, <3>2, <3>3 DEF Equal
    <2> QED BY <2>3, <2>4
  <1> QED BY <1>1, <1>2 DEF Counted

\* The limits hold, if there was room.
LEMMA GrownWithin ==
    ASSUME NEW R, Within(R, setup), NEW Q, NEW m \in Messages, NEW T \in Part,
           NEW len \in Nat, Grown(R, Q, m, T, len), SlotFits(R, m), PeerFits(R, m, len),
           AllFits(R, m, len), setup \in Setup
    PROVE  Within(Q, setup)
  <1>1. ASSUME NEW n \in Nodes PROVE Q.all[n] <= setup.total
    <2> USE Zenon
    <2>1. CASE n = To[m]
      BY <2>1 DEF Grown, AllFits
    <2>2. CASE n # To[m]
      BY <2>2 DEF Grown, Within
    <2> QED BY <2>1, <2>2
  <1>2. ASSUME NEW n \in Nodes, NEW p \in Nodes PROVE Q.peer[n][p] <= setup.peer
    <2> USE Zenon
    <2>1. CASE n = To[m] /\ p = From[m]
      BY <2>1 DEF Grown, PeerFits
    <2>2. CASE n # To[m] \/ p # From[m]
      <3>1. Q.peer[n][p] = R.peer[n][p]
        BY <2>2 DEF Grown
      <3> QED BY <3>1 DEF Within
    <2> QED BY <2>1, <2>2
  <1>3. ASSUME NEW n \in Nodes, NEW p \in Nodes
        PROVE  Cardinality(AtFrom(Q, n, p)) <= setup.transfers
    <2>1. Joined(R, Q, m, n, p)
      BY GrownAt, Zenon
    <2>2. Cardinality(AtFrom(R, n, p)) <= setup.transfers
      BY Zenon DEF Within
    <2>3. IsFiniteSet(AtFrom(R, n, p)) /\ Cardinality(AtFrom(R, n, p)) \in Nat
      BY AtFromFinite, Zenon
    <2>4. CASE n = To[m] /\ p = From[m]
      <3>1. AtFrom(Q, n, p) = AtFrom(R, n, p) \cup {m}
        BY <2>1, <2>4, Zenon DEF Joined
      <3>2. CASE m \in AtFrom(R, n, p)
        <4>1. AtFrom(R, n, p) \cup {m} = AtFrom(R, n, p)
          BY <3>2, Zenon
        <4> QED BY <2>2, <3>1, <4>1, Zenon
      <3>3. CASE m \notin AtFrom(R, n, p)
        <4>1. R.parts[m] = None
          BY <2>4, <3>3, Zenon DEF At, AtFrom
        <4>2. Cardinality(AtFrom(R, n, p)) < setup.transfers
          BY <2>4, <4>1, Zenon DEF SlotFits
        <4>3. Cardinality(AtFrom(R, n, p) \cup {m}) = Cardinality(AtFrom(R, n, p)) + 1
          BY <2>3, <3>3, FS_AddElement, Zenon
        <4>4. setup.transfers \in Nat
          BY SetupIs, Zenon
        <4> QED BY <2>3, <3>1, <4>2, <4>3, <4>4, SMTT(30)
      <3> QED BY <3>2, <3>3, Zenon
    <2>5. CASE n # To[m] \/ p # From[m]
      <3>1. AtFrom(Q, n, p) = AtFrom(R, n, p)
        BY <2>1, <2>5, Zenon DEF Joined
      <3> QED BY <2>2, <3>1, Zenon
    <2> QED BY <2>4, <2>5, Zenon
  <1> QED BY <1>1, <1>2, <1>3, Zenon DEF Within

\* Where insert_fragment leaves the reassembler: m is there, and nothing else is complete.
Nearly(Q, m) ==
    /\ Near(Q, setup) /\ {m} \in SUBSET At(Q, To[m])
    /\ \A x \in Kept(Q) \ {m} : Q.parts[x].bytes # Size[x]

\* Putting in a longer, sound transfer for which there is room.
LEMMA GrownNear ==
    ASSUME setup \in Setup, NEW R, Whole(R, setup), NEW Q, NEW m \in Messages, NEW T, Sound(m, T),
           NEW len \in Nat, Grown(R, Q, m, T, len), Lengthens(R, T, m, len),
           SlotFits(R, m), PeerFits(R, m, len), AllFits(R, m, len)
    PROVE  Nearly(Q, m)
  <1> USE Zenon
  <1>1. Shape(R) /\ Counted(R) /\ Within(R, setup)
    BY DEF Whole, Near
  <1>2. T \in Part
    BY DEF Sound
  <1>3. Counted(Q)
    BY <1>1, <1>2, GrownCounted
  <1>4. Within(Q, setup)
    BY <1>1, <1>2, GrownWithin
  <1>5. Shape(Q) /\ Q.parts[m] = T /\ \A x \in Messages \ {m} : Q.parts[x] = R.parts[x]
    BY DEF Grown
  <1>6. ASSUME NEW x \in Kept(Q), x # m
        PROVE  Sound(x, Q.parts[x]) /\ Q.parts[x].bytes # Size[x]
    <2>1. x \in Kept(R) /\ Q.parts[x] = R.parts[x]
      BY <1>5, <1>6 DEF Kept
    <2> QED BY <2>1 DEF Whole, Near
  <1>7. \A x \in Kept(Q) : Sound(x, Q.parts[x])
    BY <1>5, <1>6
  <1>8. {m} \in SUBSET At(Q, To[m])
    BY <1>2, <1>5, NoneAssumption DEF At
  <1> QED BY <1>3, <1>4, <1>5, <1>6, <1>7, <1>8 DEF Nearly, Near

\* The fragment f may be added to T.
Addable(T, f) ==
    /\ f.off + f.len <= Size[f.m] /\ Size[f.m] <= MaxLogical
    /\ f.off \notin DOMAIN T.frags /\ ~Overlaps(T.frags, f.off, f.off + f.len)

\* insert_fragment.
LEMMA InsertNearly ==
    ASSUME setup \in Setup, NEW R, Whole(R, setup),
           NEW f, f.m \in Messages, f.off \in Nat, f.len \in Nat \ {0}, Addable(Begun(R, f.m), f),
           SlotFits(R, f.m), PeerFits(R, f.m, f.len), AllFits(R, f.m, f.len)
    PROVE  Nearly(InsertFragment(R, f), f.m)
  <1> DEFINE B == Begun(R, f.m)
             L == Longer(B, f.off, f.len)
             Q == InsertFragment(R, f)
  <1>1. Sound(f.m, B)
    <2> USE Zenon
    <2>1. CASE R.parts[f.m] = None
      BY <2>1, NewSound DEF Begun
    <2>2. CASE R.parts[f.m] # None
      <3>1. f.m \in Kept(R) /\ B = R.parts[f.m]
        BY <2>2 DEF Kept, Begun
      <3> QED BY <3>1 DEF Whole, Near
    <2> QED BY <2>1, <2>2
  <1> HIDE DEF B
  <1>2. Addable(B, f)
    BY Zenon DEF B
  <1>3. Lengthened(f.m, B, L, f.len)
    <2>1. /\ f.off + f.len <= Size[f.m] /\ Size[f.m] <= MaxLogical
          /\ f.off \notin DOMAIN B.frags /\ ~Overlaps(B.frags, f.off, f.off + f.len)
      BY <1>2, Zenon DEF Addable
    <2> QED BY <1>1, <2>1, LongerSound, Zenon
  <1>4. Lengthens(R, L, f.m, f.len) /\ L \in Part
    BY <1>3, Zenon DEF Lengthened, Lengthens, B, Sound
  <1>5. Shape(R)
    BY Zenon DEF Whole, Near
  <1>6. Q \in [parts : {[R.parts EXCEPT ![f.m] = L]},
               peer : {MorePeer(R, f.m, f.len)}, all : {MoreAll(R, f.m, f.len)}]
    BY <1>5, InsertIs, Zenon DEF B
  <1>7. f.len \in Nat
    OBVIOUS
  <1> HIDE DEF L, Q
  <1>8. Grown(R, Q, f.m, L, f.len)
    BY <1>4, <1>5, <1>6, <1>7, PutGrown, Zenon
  <1>9. Nearly(Q, f.m)
    <2>1. Sound(f.m, L)
      BY <1>3, Zenon DEF Lengthened
    <2> QED BY <1>4, <1>7, <1>8, <2>1, GrownNear, Zenon
  <1> QED BY <1>9, Zenon DEF Q

\* The invariant holds after a fragment of m, and m is retained if more is awaited.
Accepted(a, m) == Whole(a.R, setup) /\ (a.outcome = "waiting" => m \in Kept(a.R))

\* The end of accept_fragment: a transfer whose bytes add up is taken out.
LEMMA StoredWhole ==
    ASSUME setup \in Setup, NEW Q, NEW f, f.m \in Messages, Nearly(Q, f.m)
    PROVE  Accepted(Stored(Q, f), f.m)
  <1> DEFINE V == {f.m}
             P == RemoveParts(Q, To[f.m], V)
  <1>1. /\ Near(Q, setup) /\ V \in SUBSET At(Q, To[f.m])
        /\ \A x \in Kept(Q) \ V : Q.parts[x].bytes # Size[x]
    BY Zenon DEF Nearly
  <1>2. CASE Q.parts[f.m].bytes # Size[f.m]
    <2>1. Stored(Q, f).R = Q
      BY <1>2 DEF Stored
    <2>2. Whole(Q, setup)
      BY <1>1, <1>2, Zenon DEF Whole
    <2>3. f.m \in Kept(Q)
      BY <1>1, AtKept, Zenon
    <2> QED BY <2>1, <2>2, <2>3, Zenon DEF Accepted
  <1>3. CASE Q.parts[f.m].bytes = Size[f.m]
    <2>1. Stored(Q, f).R = P /\ Stored(Q, f).outcome # "waiting"
      <3> HIDE DEF P
      <3>1. Stored(Q, f) = [outcome |-> IF Contiguous(Q.parts[f.m].frags) THEN "whole" ELSE "rejected",
                            R |-> P]
        BY <1>3, Zenon DEF Stored, P
      <3> QED BY <3>1
    <2>2. To[f.m] \in Nodes
      BY MessageEnds, Zenon
    <2> HIDE DEF V
    <2>3. Whole(RemoveParts(Q, To[f.m], V), setup)
      BY <1>1, <2>2, RemoveWhole, Zenon
    <2> QED BY <2>1, <2>3, Zenon DEF Accepted
  <1> QED BY <1>2, <1>3, Zenon

\* T is S but for its ages.
Alike(S, T) == T \in Part /\ T.frags = S.frags /\ T.bytes = S.bytes

\* Q is R but for the ages of transfers.
Aged(R, Q) ==
    /\ Shape(Q) /\ Q.peer = R.peer /\ Q.all = R.all
    /\ \A m \in Messages : /\ R.parts[m] = None => Q.parts[m] = None
                           /\ R.parts[m] # None => Alike(R.parts[m], Q.parts[m])

\* What replacing the ages leaves.
LEMMA PutAged ==
    ASSUME NEW R, Shape(R), NEW P \in [Messages -> Part \cup {None}],
           \A m \in Messages : /\ R.parts[m] = None => P[m] = None
                               /\ R.parts[m] # None => Alike(R.parts[m], P[m])
    PROVE  Aged(R, [R EXCEPT !.parts = P])
  <1> USE Zenon
  <1> DEFINE Q == [R EXCEPT !.parts = P]
  <1>1. Q \in [parts : {P}, peer : {R.peer}, all : {R.all}]
    BY DEF Shape
  <1>2. R.peer \in [Nodes -> [Nodes -> Nat]] /\ R.all \in [Nodes -> Nat]
    BY DEF Shape
  <1> HIDE DEF Q
  <1>3. Shape(Q) /\ Q.parts = P /\ Q.peer = R.peer /\ Q.all = R.all
    BY <1>1, <1>2 DEF Shape
  <1>4. Aged(R, Q)
    BY <1>3 DEF Aged
  <1> QED BY <1>4 DEF Q

\* Ages do not matter for the invariant.
LEMMA AgedWhole ==
    ASSUME NEW s, NEW R, Whole(R, s), NEW Q, Aged(R, Q)
    PROVE  Whole(Q, s) /\ Kept(Q) = Kept(R)
  <1> USE Zenon
  <1>1. \A m \in Messages : (Q.parts[m] # None) <=> (R.parts[m] # None)
    BY NoneAssumption DEF Aged, Alike
  <1>2. Kept(Q) = Kept(R)
    BY <1>1 DEF Kept
  <1>3. \A n : At(Q, n) = At(R, n)
    BY <1>1 DEF At
  <1>4. \A n, p : AtFrom(Q, n, p) = AtFrom(R, n, p)
    BY <1>3 DEF AtFrom
  <1>5. \A m \in Kept(R) : Alike(R.parts[m], Q.parts[m])
    BY DEF Aged, Kept
  <1>6. \A V \in SUBSET Kept(R) : PartBytes(Q, V) = PartBytes(R, V)
    <2>1. \A m \in Kept(R) : Q.parts[m].bytes = R.parts[m].bytes
      BY <1>5 DEF Alike
    <2> QED BY <2>1, PartBytesSame
  <1>7. Shape(Q) /\ Q.peer = R.peer /\ Q.all = R.all
    BY DEF Aged
  <1>8. Counted(Q)
    <2>1. \A n, p : AtFrom(R, n, p) \in SUBSET Kept(R) /\ At(R, n) \in SUBSET Kept(R)
      BY AtKept
    <2>2. Counted(R)
      BY DEF Whole, Near
    <2>3. \A n, p : PartBytes(Q, AtFrom(Q, n, p)) = PartBytes(R, AtFrom(R, n, p))
      BY <1>4, <1>6, <2>1
    <2>4. \A n : PartBytes(Q, At(Q, n)) = PartBytes(R, At(R, n))
      BY <1>3, <1>6, <2>1
    <2>5. ASSUME NEW n \in Nodes PROVE Q.all[n] = PartBytes(Q, At(Q, n))
      <3>1. R.all[n] = PartBytes(R, At(R, n))
        BY <2>2 DEF Counted
      <3> QED BY <1>7, <2>4, <3>1
    <2>6. ASSUME NEW n \in Nodes, NEW p \in Nodes PROVE Q.peer[n][p] = PartBytes(Q, AtFrom(Q, n, p))
      <3>1. R.peer[n][p] = PartBytes(R, AtFrom(R, n, p))
        BY <2>2 DEF Counted
      <3> QED BY <1>7, <2>3, <3>1
    <2> QED BY <2>5, <2>6 DEF Counted
  <1>9. Within(Q, s)
    BY <1>4, <1>7 DEF Whole, Near, Within
  <1>10. ASSUME NEW m \in Kept(Q) PROVE Sound(m, Q.parts[m]) /\ Q.parts[m].bytes # Size[m]
    <2>1. Sound(m, R.parts[m]) /\ R.parts[m].bytes # Size[m]
      BY <1>2 DEF Whole, Near
    <2>2. Alike(R.parts[m], Q.parts[m])
      BY <1>2, <1>5
    <2> QED BY <2>1, <2>2 DEF Sound, Alike
  <1> QED BY <1>2, <1>7, <1>8, <1>9, <1>10 DEF Whole, Near

\* A transfer with other ages.
LEMMA AgesAlike ==
    ASSUME NEW T \in Part, NEW i \in Nat, NEW j \in Nat
    PROVE  /\ Alike(T, [T EXCEPT !.idle = i]) /\ Alike(T, [T EXCEPT !.asked = i])
           /\ Alike(T, [T EXCEPT !.idle = i, !.asked = j])
  <1> USE Zenon
  <1>1. Alike(T, [T EXCEPT !.idle = i])
    BY DEF Alike, Part
  <1>2. Alike(T, [T EXCEPT !.asked = i])
    BY DEF Alike, Part
  <1>3. Alike(T, [T EXCEPT !.idle = i, !.asked = j])
    BY DEF Alike, Part
  <1> QED BY <1>1, <1>2, <1>3

\* A duplicate, and a report, reset an age.
LEMMA ResetAged ==
    ASSUME NEW R, Shape(R), NEW m \in Kept(R)
    PROVE  Aged(R, [R EXCEPT !.parts[m].idle = 0]) /\ Aged(R, [R EXCEPT !.parts[m].asked = 0])
  <1> DEFINE S == [R.parts[m] EXCEPT !.idle = 0]
             T == [R.parts[m] EXCEPT !.asked = 0]
             P == [R.parts EXCEPT ![m] = S]
             Q == [R.parts EXCEPT ![m] = T]
  <1>1. R.parts \in [Messages -> Part \cup {None}] /\ R.parts[m] \in Part /\ m \in Messages
    BY Shaped, Zenon DEF Kept
  <1>2. 0 \in Nat
    OBVIOUS
  <1>3. Alike(R.parts[m], S) /\ Alike(R.parts[m], T)
    BY <1>1, <1>2, AgesAlike, Zenon
  <1>4. \A x \in Messages : R.parts[x] # None => R.parts[x] \in Part
    BY <1>1, Zenon
  <1>5. R.parts[m] # None
    BY Zenon DEF Kept
  <1>6. [R EXCEPT !.parts[m].idle = 0] = [R EXCEPT !.parts = P]
    OBVIOUS
  <1>7. [R EXCEPT !.parts[m].asked = 0] = [R EXCEPT !.parts = Q]
    OBVIOUS
  <1> HIDE DEF S, T
  <1>8. \A x \in Messages : R.parts[x] # None => Alike(R.parts[x], R.parts[x])
    BY <1>4, Zenon DEF Alike
  <1>9. /\ P \in [Messages -> Part \cup {None}]
        /\ \A x \in Messages : /\ R.parts[x] = None => P[x] = None
                               /\ R.parts[x] # None => Alike(R.parts[x], P[x])
    <2> USE Zenon
    <2>1. S \in Part
      BY <1>3 DEF Alike
    <2>2. P \in [Messages -> Part \cup {None}] /\ P[m] = S /\ \A x \in Messages : x # m => P[x] = R.parts[x]
      BY <1>1, <2>1
    <2> HIDE DEF P
    <2> QED BY <1>3, <1>5, <1>8, <2>2
  <1>10. /\ Q \in [Messages -> Part \cup {None}]
         /\ \A x \in Messages : /\ R.parts[x] = None => Q[x] = None
                                /\ R.parts[x] # None => Alike(R.parts[x], Q[x])
    <2> USE Zenon
    <2>1. T \in Part
      BY <1>3 DEF Alike
    <2>2. Q \in [Messages -> Part \cup {None}] /\ Q[m] = T /\ \A x \in Messages : x # m => Q[x] = R.parts[x]
      BY <1>1, <2>1
    <2> HIDE DEF Q
    <2> QED BY <1>3, <1>5, <1>8, <2>2
  <1> HIDE DEF P, Q
  <1>11. Aged(R, [R EXCEPT !.parts = P])
    BY <1>9, PutAged, Zenon
  <1>12. Aged(R, [R EXCEPT !.parts = Q])
    BY <1>10, PutAged, Zenon
  <1> QED BY <1>6, <1>7, <1>11, <1>12, Zenon

\* Nothing overlaps nothing.
LEMMA NoOverlap ==
    ASSUME NEW start \in Nat, NEW end
    PROVE  ~Overlaps(<<>>, start, end) /\ start \notin DOMAIN <<>>
  <1>1. DOMAIN <<>> = {}
    OBVIOUS
  <1>2. Below(<<>>, start) = {} /\ {o \in DOMAIN <<>> : o >= start} = {}
    BY <1>1, Zenon DEF Below
  <1>3. Cursor(<<>>, start) = 0
    BY <1>2, Zenon DEF Cursor
  <1>4. ~(Cursor(<<>>, start) > start)
    BY <1>3
  <1> QED BY <1>1, <1>2, <1>4, Zenon DEF Overlaps

\* insert_fragment and the end of accept_fragment, once there was or was not room.
LEMMA StoreWhole ==
    ASSUME setup \in Setup, NEW R, Whole(R, setup),
           NEW f, f.m \in Messages, f.off \in Nat, f.len \in Nat \ {0}, Addable(Begun(R, f.m), f)
    PROVE  Accepted(Store(MakeRoom(R, f.m, f.len), f), f.m)
  <1> DEFINE c == MakeRoom(R, f.m, f.len)
  <1>1. f.len \in Nat
    OBVIOUS
  <1>2. /\ Like(R, c.R, f.m)
        /\ c.ok => SlotFits(c.R, f.m) /\ PeerFits(c.R, f.m, f.len) /\ AllFits(c.R, f.m, f.len)
    BY <1>1, RoomMade, Zenon
  <1> HIDE DEF c
  <1>3. Whole(c.R, setup) /\ Begun(c.R, f.m) = Begun(R, f.m)
    BY <1>2, Zenon DEF Like, Begun
  <1>4. CASE c.ok
    <2> USE Zenon
    <2>1. Addable(Begun(c.R, f.m), f)
      BY <1>3
    <2>2. Nearly(InsertFragment(c.R, f), f.m)
      BY <1>2, <1>3, <1>4, <2>1, InsertNearly
    <2>3. Accepted(Stored(InsertFragment(c.R, f), f), f.m)
      BY <2>2, StoredWhole
    <2> QED BY <1>4, <2>3 DEF Store, c
  <1>5. CASE ~c.ok
    <2>1. Store(c, f) = [outcome |-> "rejected", R |-> c.R]
      BY <1>5, Zenon DEF Store
    <2>2. Store(c, f).R = c.R /\ Store(c, f).outcome # "waiting"
      BY <2>1
    <2> QED BY <1>3, <2>2, Zenon DEF Accepted, c
  <1> QED BY <1>4, <1>5, Zenon

\* What the frames of a fragmented message are.
IsFragment(f) == f.m \in Messages /\ f.off \in Nat /\ f.len \in Nat \ {0}

\* The ways through accept_fragment: refused, known already, or stored if there is room.
Known(R, f) == R.parts[f.m] # None /\ f.off \in DOMAIN R.parts[f.m].frags
Path(R, f, a) ==
    \/ a = [outcome |-> "rejected", R |-> R]
    \/ /\ Known(R, f) /\ R.parts[f.m].frags[f.off] = f.len
       /\ a = [outcome |-> "waiting", R |-> [R EXCEPT !.parts[f.m].idle = 0]]
    \/ Addable(Begun(R, f.m), f) /\ a = Store(MakeRoom(R, f.m, f.len), f)

\* There is no other way through accept_fragment.
LEMMA AcceptPaths ==
    ASSUME NEW R, NEW f, IsFragment(f)
    PROVE  Path(R, f, AcceptFragment(R, f))
  <1> DEFINE T == R.parts[f.m]
             known == T # None /\ f.off \in DOMAIN T.frags
             clashes == T # None /\ (\/ Overlaps(T.frags, f.off, f.off + f.len)
                                     \/ Cardinality(DOMAIN T.frags) >= MaxFragments)
             out == f.off + f.len > Size[f.m] \/ Size[f.m] > MaxLogical \/ MaxFragments = 0
             dup == known /\ T.frags[f.off] = f.len
             a == AcceptFragment(R, f)
  <1>1. f.m \in Messages /\ f.off \in Nat /\ f.len \in Nat \ {0}
    BY Zenon DEF IsFragment
  <1>2. a = IF out THEN [outcome |-> "rejected", R |-> R]
            ELSE IF dup THEN [outcome |-> "waiting", R |-> [R EXCEPT !.parts[f.m].idle = 0]]
            ELSE IF known \/ clashes THEN [outcome |-> "rejected", R |-> R]
            ELSE Store(MakeRoom(R, f.m, f.len), f)
    BY Zenon DEF AcceptFragment
  <1> HIDE DEF a
  <1>3. CASE a = [outcome |-> "rejected", R |-> R]
    BY <1>3, Zenon DEF Path, a
  <1>4. CASE dup /\ a = [outcome |-> "waiting", R |-> [R EXCEPT !.parts[f.m].idle = 0]]
    BY <1>4, Zenon DEF Path, Known, a
  <1>5. CASE ~out /\ ~known /\ ~clashes /\ a = Store(MakeRoom(R, f.m, f.len), f)
    <2>1. f.off + f.len <= Size[f.m] /\ Size[f.m] <= MaxLogical
      <3>1. Size[f.m] \in Nat /\ MaxLogical \in Nat
        BY <1>1, TransferAssumption
      <3> QED BY <1>1, <1>5, <3>1, SMTT(30)
    <2>2. f.off \notin DOMAIN Begun(R, f.m).frags /\ ~Overlaps(Begun(R, f.m).frags, f.off, f.off + f.len)
      <3>1. CASE T = None
        <4>1. Begun(R, f.m).frags = <<>>
          BY <3>1 DEF Begun, NewPart
        <4>2. ~Overlaps(<<>>, f.off, f.off + f.len) /\ f.off \notin DOMAIN <<>>
          BY <1>1, NoOverlap, Zenon
        <4> QED BY <4>1, <4>2, Zenon
      <3>2. CASE T # None
        <4>1. Begun(R, f.m) = T
          BY <3>2, Zenon DEF Begun
        <4> QED BY <1>5, <3>2, <4>1, Zenon
      <3> QED BY <3>1, <3>2, Zenon
    <2>3. Addable(Begun(R, f.m), f)
      BY <2>1, <2>2, Zenon DEF Addable
    <2> QED BY <1>5, <2>3, Zenon DEF Path, a
  <1> HIDE DEF out, dup, known, clashes
  <1> QED BY <1>2, <1>3, <1>4, <1>5, Zenon DEF dup

\* accept_fragment keeps the invariant on every path.
LEMMA AcceptWhole ==
    ASSUME setup \in Setup, NEW R, Whole(R, setup), NEW f, IsFragment(f)
    PROVE  Accepted(AcceptFragment(R, f), f.m)
  <1> DEFINE a == AcceptFragment(R, f)
             D == [R EXCEPT !.parts[f.m].idle = 0]
  <1>1. f.m \in Messages /\ f.off \in Nat /\ f.len \in Nat \ {0} /\ Shape(R)
    BY Zenon DEF IsFragment, Whole, Near
  <1>2. Path(R, f, a)
    BY AcceptPaths, Zenon
  <1> HIDE DEF a
  <1>3. CASE a = [outcome |-> "rejected", R |-> R]
    <2>1. a.R = R /\ a.outcome # "waiting"
      BY <1>3
    <2> QED BY <2>1, Zenon DEF Accepted, a
  <1>4. CASE Known(R, f) /\ a = [outcome |-> "waiting", R |-> D]
    <2>1. f.m \in Kept(R)
      BY <1>1, <1>4, Zenon DEF Known, Kept
    <2>2. Aged(R, D)
      BY <1>1, <2>1, ResetAged, Zenon
    <2> HIDE DEF D
    <2>3. Whole(D, setup) /\ Kept(D) = Kept(R)
      BY <2>2, AgedWhole, Zenon
    <2>4. a.R = D
      BY <1>4
    <2> QED BY <2>1, <2>3, <2>4, Zenon DEF Accepted, a
  <1>5. CASE Addable(Begun(R, f.m), f) /\ a = Store(MakeRoom(R, f.m, f.len), f)
    <2>1. Accepted(Store(MakeRoom(R, f.m, f.len), f), f.m)
      BY <1>1, <1>5, StoreWhole, Zenon
    <2> QED BY <1>5, <2>1, Zenon DEF a
  <1> QED BY <1>2, <1>3, <1>4, <1>5, Zenon DEF Path

\* Time passes for every transfer.
LEMMA TickAged ==
    ASSUME NEW R, Shape(R)
    PROVE  Aged(R, [R EXCEPT !.parts = [m \in Messages |-> LaterPart(@[m])]])
  <1> DEFINE P == [m \in Messages |-> LaterPart(R.parts[m])]
  <1>1. ASSUME NEW m \in Messages, R.parts[m] # None PROVE Alike(R.parts[m], LaterPart(R.parts[m]))
    <2> DEFINE S == R.parts[m]
               i == Later(S.idle, ReassemblyTTL)
               j == Later(S.asked, RetryInterval)
    <2>1. S \in Part
      BY <1>1, Shaped, Zenon DEF Kept
    <2>2. S.idle \in Nat /\ S.asked \in Nat
      BY <2>1 DEF Part
    <2>3. i \in Nat /\ j \in Nat
      BY <2>2 DEF Later
    <2>4. LaterPart(S) = [S EXCEPT !.idle = i, !.asked = j]
      BY <1>1, Zenon DEF LaterPart
    <2> HIDE DEF S, i, j
    <2>5. Alike(S, [S EXCEPT !.idle = i, !.asked = j])
      BY <2>1, <2>3, AgesAlike, Zenon
    <2> QED BY <2>4, <2>5, Zenon DEF S
  <1>2. \A m \in Messages : R.parts[m] = None => LaterPart(R.parts[m]) = None
    BY Zenon DEF LaterPart
  <1>3. \A m \in Messages : R.parts[m] # None => LaterPart(R.parts[m]) \in Part
    BY <1>1, Zenon DEF Alike
  <1>4. /\ P \in [Messages -> Part \cup {None}]
        /\ \A m \in Messages : /\ R.parts[m] = None => P[m] = None
                               /\ R.parts[m] # None => Alike(R.parts[m], P[m])
    BY <1>1, <1>2, <1>3, Zenon
  <1> HIDE DEF P
  <1>5. Aged(R, [R EXCEPT !.parts = P])
    BY <1>4, PutAged, Zenon
  <1> QED BY <1>5, Zenon DEF P

\* A poll resets the ages of what it asks for.
LEMMA PollAged ==
    ASSUME NEW R, Shape(R), NEW V \in SUBSET Kept(R)
    PROVE  Aged(R, [R EXCEPT !.parts = [m \in Messages |->
                     IF m \in V THEN [@[m] EXCEPT !.asked = 0] ELSE @[m]]])
  <1> DEFINE T(m) == [R.parts[m] EXCEPT !.asked = 0]
             P == [m \in Messages |-> IF m \in V THEN T(m) ELSE R.parts[m]]
  <1>1. 0 \in Nat
    OBVIOUS
  <1>2. \A m \in Kept(R) : R.parts[m] \in Part
    BY Shaped, Zenon
  <1>3. \A m \in Kept(R) : Alike(R.parts[m], T(m)) /\ Alike(R.parts[m], R.parts[m])
    <2> USE Zenon
    <2>1. \A m \in Kept(R) : Alike(R.parts[m], T(m))
      BY <1>1, <1>2, AgesAlike
    <2>2. \A m \in Kept(R) : Alike(R.parts[m], R.parts[m])
      BY <1>2 DEF Alike
    <2> QED BY <2>1, <2>2
  <1> HIDE DEF T
  <1>4. \A m \in Messages : R.parts[m] # None => m \in Kept(R)
    BY Zenon DEF Kept
  <1>5. \A m \in Kept(R) : R.parts[m] # None /\ T(m) \in Part
    BY <1>3, Zenon DEF Kept, Alike
  <1>6. /\ P \in [Messages -> Part \cup {None}]
        /\ \A m \in Messages : /\ R.parts[m] = None => P[m] = None
                               /\ R.parts[m] # None => Alike(R.parts[m], P[m])
    <2>1. \A m \in Messages : R.parts[m] \in Part \cup {None}
      BY <1>2, <1>4, Zenon
    <2> QED BY <1>3, <1>4, <1>5, <2>1, Zenon
  <1> HIDE DEF P
  <1>7. Aged(R, [R EXCEPT !.parts = P])
    BY <1>6, PutAged, Zenon
  <1> QED BY <1>7, Zenon DEF P, T

(***************************************************************************)
(* What accept_fragment tells: its comment that the retained byte sum      *)
(* reaches total_len iff the union covers the whole message.               *)
(***************************************************************************)
\* The bytes of f's message that the receiver has once it has f.
Reached(R, f) == Covered(Begun(R, f.m).frags) \cup Bytes(f.off, f.len)

\* a is what f deserves: a refusal leaves the transfer as it was, and otherwise the
\* message is whole just when nothing of it is missing.
Deserved(R, f, a) ==
    /\ a.outcome = "rejected" => a.R.parts[f.m] = R.parts[f.m]
    /\ a.outcome # "rejected" => (a.outcome = "whole" <=> Reached(R, f) = Bytes(0, Size[f.m]))

\* One more fragment covers its own bytes besides.
LEMMA AddedReaches ==
    ASSUME NEW F \in Fragments, NEW off \in Nat, NEW len \in Nat \ {0}, off \notin DOMAIN F
    PROVE  Covered(Added(F, off, len)) = Covered(F) \cup Bytes(off, len)
  <1> USE Zenon
  <1> DEFINE G == Added(F, off, len)
  <1>1. DOMAIN G = DOMAIN F \cup {off} /\ G[off] = len /\ \A o \in DOMAIN F : G[o] = F[o]
    BY DEF Added
  <1> HIDE DEF G
  <1>2. \A i : i \in Covered(G) <=> \E o \in DOMAIN G : i \in Bytes(o, G[o])
    BY DEF Covered
  <1>3. \A i : i \in Covered(F) <=> \E o \in DOMAIN F : i \in Bytes(o, F[o])
    BY DEF Covered
  <1>4. \A i : i \in Covered(G) <=> i \in Covered(F) \/ i \in Bytes(off, len)
    BY <1>1, <1>2, <1>3
  <1>5. Covered(G) = Covered(F) \cup Bytes(off, len)
    BY <1>4
  <1> QED BY <1>5 DEF G

\* A sound transfer has all its bytes just when it covers its message, in one piece.
LEMMA SoundWhole ==
    ASSUME NEW m \in Messages, NEW T, Sound(m, T)
    PROVE  /\ T.bytes = Size[m] <=> Covered(T.frags) = Bytes(0, Size[m])
           /\ T.bytes = Size[m] => Contiguous(T.frags)
  <1> DEFINE F == T.frags
  <1>1. T \in Part /\ Apart(F, Size[m]) /\ T.bytes = Cardinality(Covered(F))
    BY Zenon DEF Sound
  <1>2. F \in Fragments /\ Size[m] \in Nat
    BY <1>1, MessageEnds DEF Part
  <1> HIDE DEF F
  <1>3. /\ Covered(F) \subseteq Bytes(0, Size[m]) /\ IsFiniteSet(Covered(F))
        /\ Cardinality(Covered(F)) \in Nat /\ Cardinality(Covered(F)) <= Size[m]
        /\ Cardinality(Covered(F)) = Size[m] <=> Covered(F) = Bytes(0, Size[m])
    BY <1>1, <1>2, CoveredWithin, Zenon
  <1>4. T.bytes = Size[m] <=> Covered(F) = Bytes(0, Size[m])
    BY <1>1, <1>3, Zenon
  <1>5. Covered(F) = Bytes(0, Size[m]) => Contiguous(F)
    BY <1>1, <1>2, CoveredContiguous, Zenon
  <1> QED BY <1>4, <1>5, Zenon DEF F

\* What is begun is sound.
LEMMA BegunSound ==
    ASSUME NEW s, NEW R, Whole(R, s), NEW m \in Messages
    PROVE  Sound(m, Begun(R, m))
  <1> USE Zenon
  <1>1. CASE R.parts[m] = None
    BY <1>1, NewSound DEF Begun
  <1>2. CASE R.parts[m] # None
    <2>1. m \in Kept(R) /\ Begun(R, m) = R.parts[m]
      BY <1>2 DEF Kept, Begun
    <2> QED BY <2>1 DEF Whole, Near
  <1> QED BY <1>1, <1>2

\* The transfer after insert_fragment.
LEMMA InsertReaches ==
    ASSUME NEW s, NEW R, Whole(R, s), NEW f, IsFragment(f), Addable(Begun(R, f.m), f)
    PROVE  /\ Sound(f.m, InsertFragment(R, f).parts[f.m])
           /\ Covered(InsertFragment(R, f).parts[f.m].frags) = Reached(R, f)
  <1> DEFINE B == Begun(R, f.m)
             L == Longer(B, f.off, f.len)
             Q == InsertFragment(R, f)
  <1>1. f.m \in Messages /\ f.off \in Nat /\ f.len \in Nat \ {0} /\ Shape(R)
    BY Zenon DEF IsFragment, Whole, Near
  <1>2. Sound(f.m, B)
    BY <1>1, BegunSound, Zenon
  <1>3. /\ f.off + f.len <= Size[f.m] /\ Size[f.m] <= MaxLogical
        /\ f.off \notin DOMAIN B.frags /\ ~Overlaps(B.frags, f.off, f.off + f.len)
    BY Zenon DEF Addable
  <1>4. Q \in [parts : {[R.parts EXCEPT ![f.m] = L]},
               peer : {MorePeer(R, f.m, f.len)}, all : {MoreAll(R, f.m, f.len)}]
    BY <1>1, InsertIs, Zenon
  <1>5. L \in [frags : {Added(B.frags, f.off, f.len)}, bytes : {B.bytes + f.len}, idle : {0}, asked : Nat]
    BY <1>2, LongerIs, Zenon DEF Sound
  <1> HIDE DEF B
  <1>6. Lengthened(f.m, B, L, f.len)
    BY <1>1, <1>2, <1>3, LongerSound, Zenon
  <1> HIDE DEF L, Q
  <1>7. Q.parts[f.m] = L
    <2>1. Q.parts = [R.parts EXCEPT ![f.m] = L] /\ R.parts \in [Messages -> Part \cup {None}]
      BY <1>1, <1>4, Zenon DEF Shape
    <2> QED BY <1>1, <2>1, Zenon
  <1>8. L.frags = Added(B.frags, f.off, f.len)
    BY <1>5, Zenon
  <1>9. B.frags \in Fragments
    BY <1>2 DEF Sound, Part
  <1>10. Covered(Added(B.frags, f.off, f.len)) = Covered(B.frags) \cup Bytes(f.off, f.len)
    BY <1>1, <1>3, <1>9, AddedReaches, Zenon
  <1>11. Sound(f.m, Q.parts[f.m]) /\ Covered(Q.parts[f.m].frags) = Reached(R, f)
    BY <1>6, <1>7, <1>8, <1>10, Zenon DEF Lengthened, Reached, B
  <1> QED BY <1>11, Zenon DEF Q

\* A fragment that can be added.
LEMMA StoreDeserved ==
    ASSUME setup \in Setup, NEW R, Whole(R, setup), NEW f, IsFragment(f), Addable(Begun(R, f.m), f)
    PROVE  Deserved(R, f, Store(MakeRoom(R, f.m, f.len), f))
  <1> DEFINE c == MakeRoom(R, f.m, f.len)
             Q == InsertFragment(c.R, f)
             T == Q.parts[f.m]
             a == Store(c, f)
             P == RemoveParts(Q, To[f.m], {f.m})
  <1>1. f.m \in Messages /\ f.len \in Nat
    BY DEF IsFragment
  <1>2. /\ Like(R, c.R, f.m)
        /\ c.ok => SlotFits(c.R, f.m) /\ PeerFits(c.R, f.m, f.len) /\ AllFits(c.R, f.m, f.len)
    BY <1>1, RoomMade, Zenon
  <1> HIDE DEF c
  <1>3. Whole(c.R, setup) /\ Begun(c.R, f.m) = Begun(R, f.m) /\ c.R.parts[f.m] = R.parts[f.m]
    BY <1>2, Zenon DEF Like, Begun
  <1>4. Reached(c.R, f) = Reached(R, f) /\ Addable(Begun(c.R, f.m), f)
    BY <1>3, Zenon DEF Reached
  <1>5. Sound(f.m, T) /\ Covered(T.frags) = Reached(R, f)
    BY <1>3, <1>4, InsertReaches, Zenon
  <1> HIDE DEF Q, T, P
  <1>6. /\ T.bytes = Size[f.m] <=> Reached(R, f) = Bytes(0, Size[f.m])
        /\ T.bytes = Size[f.m] => Contiguous(T.frags)
    BY <1>1, <1>5, SoundWhole, Zenon
  <1>7. CASE ~c.ok
    <2>1. a = [outcome |-> "rejected", R |-> c.R]
      BY <1>7, Zenon DEF Store
    <2> HIDE DEF a
    <2>2. a.R = c.R /\ a.outcome = "rejected"
      BY <2>1
    <2>3. Deserved(R, f, a)
      BY <1>3, <2>2, Zenon DEF Deserved
    <2> QED BY <2>3, Zenon DEF a, c
  <1>8. CASE c.ok /\ T.bytes # Size[f.m]
    <2>1. a = [outcome |-> "waiting", R |-> Q]
      BY <1>8, Zenon DEF Store, Stored, T, Q
    <2> HIDE DEF a
    <2>2. a.outcome = "waiting" /\ a.outcome # "rejected" /\ a.outcome # "whole"
      BY <2>1
    <2>3. Deserved(R, f, a)
      BY <1>6, <1>8, <2>2, Zenon DEF Deserved
    <2> QED BY <2>3, Zenon DEF a, c
  <1>9. CASE c.ok /\ T.bytes = Size[f.m]
    <2>1. a = [outcome |-> "whole", R |-> P]
      BY <1>6, <1>9, Zenon DEF Store, Stored, T, Q, P
    <2> HIDE DEF a
    <2>2. a.outcome = "whole" /\ a.outcome # "rejected"
      BY <2>1
    <2>3. Deserved(R, f, a)
      BY <1>6, <1>9, <2>2, Zenon DEF Deserved
    <2> QED BY <2>3, Zenon DEF a, c
  <1> QED BY <1>7, <1>8, <1>9, Zenon

\* accept_fragment gives every fragment its due.
LEMMA AcceptDeserved ==
    ASSUME setup \in Setup, NEW R, Whole(R, setup), NEW f, IsFragment(f)
    PROVE  Deserved(R, f, AcceptFragment(R, f))
  <1> DEFINE a == AcceptFragment(R, f)
             T == R.parts[f.m]
             D == [R EXCEPT !.parts[f.m].idle = 0]
  <1>1. Path(R, f, a) /\ f.m \in Messages
    BY AcceptPaths, Zenon DEF IsFragment
  <1> HIDE DEF a
  <1>2. CASE a = [outcome |-> "rejected", R |-> R]
    <2>1. a.R = R /\ a.outcome = "rejected"
      BY <1>2
    <2> QED BY <2>1, Zenon DEF Deserved, a
  <1>3. CASE Known(R, f) /\ T.frags[f.off] = f.len /\ a = [outcome |-> "waiting", R |-> D]
    <2>1. a.outcome # "rejected" /\ a.outcome # "whole"
      <3> HIDE DEF D
      <3> QED BY <1>3
    <2>2. T # None /\ f.off \in DOMAIN T.frags /\ T.frags[f.off] = f.len
      BY <1>3, Zenon DEF Known
    <2>3. f.m \in Kept(R) /\ Begun(R, f.m) = T
      BY <1>1, <2>2, Zenon DEF Kept, Begun
    <2>4. Sound(f.m, T) /\ T.bytes # Size[f.m]
      BY <2>3, Zenon DEF Whole, Near
    <2> HIDE DEF T
    <2>5. Covered(T.frags) # Bytes(0, Size[f.m])
      BY <1>1, <2>4, SoundWhole, Zenon
    <2>6. Bytes(f.off, f.len) \subseteq Covered(T.frags)
      BY <2>2, Zenon DEF Covered
    <2>7. Reached(R, f) = Covered(T.frags)
      BY <2>3, <2>6, Zenon DEF Reached
    <2> QED BY <2>1, <2>5, <2>7, Zenon DEF Deserved, a
  <1>4. CASE Addable(Begun(R, f.m), f) /\ a = Store(MakeRoom(R, f.m, f.len), f)
    BY <1>4, StoreDeserved, Zenon DEF a
  <1> QED BY <1>1, <1>2, <1>3, <1>4, Zenon DEF Path
==============================================================================
