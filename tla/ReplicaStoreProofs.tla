-------------------------- MODULE ReplicaStoreProofs --------------------------
(***************************************************************************)
(* The store of one node keeps its indexes, its clock, its buffer and its  *)
(* slots right under any number of callers and keys.                       *)
(***************************************************************************)
EXTENDS ReplicaStore, FiniteSetTheorems, WellFoundedInduction, TLAPS

\* A set of naturals has a smallest element.
LEMMA SmallestExists ==
    ASSUME NEW T \in SUBSET Nat, T # {}
    PROVE  \E x \in T : \A y \in T : x <= y
  <1>1. \E x \in T : \A y \in T : ~(<<y, x>> \in OpToRel(<, Nat))
    BY NatLessThanWellFounded, WFMin, Zenon
  <1>2. PICK x \in T : \A y \in T : ~(<<y, x>> \in OpToRel(<, Nat))
    BY <1>1, Zenon
  <1>3. \A y \in T : ~(y < x)
    BY <1>2, Zenon DEF OpToRel
  <1> QED BY <1>3

\* Among entries there is one that no other is newer than: merging always has a winner.
LEMMA NewestExists ==
    ASSUME NEW F \in SUBSET Entries, F # {}
    PROVE  \E e \in F : \A f \in F : ~Newer(f, e)
  <1> DEFINE Ages == {MaxTime - f.time : f \in F}
  <1>1. \A f \in F : f.time \in 1..MaxTime /\ f.node \in Nat
    BY StoreAssumption, Zenon DEF Entries
  <1>2. Ages \in SUBSET Nat /\ Ages # {}
    BY <1>1, StoreAssumption
  <1>3. PICK a \in Ages : \A b \in Ages : a <= b
    BY <1>2, SmallestExists, Zenon
  <1>4. PICK g \in F : a = MaxTime - g.time
    BY <1>3, Zenon
  <1>5. \A f \in F : f.time <= g.time
    <2> SUFFICES ASSUME NEW f \in F PROVE f.time <= g.time
      OBVIOUS
    <2>1. MaxTime - f.time \in Ages
      OBVIOUS
    <2>2. MaxTime - g.time <= MaxTime - f.time
      BY <1>3, <1>4, <2>1, Zenon
    <2> QED BY <1>1, <2>2, StoreAssumption
  <1>6. CASE \E e \in F : e.time = g.time /\ e.node > g.node
    <2>1. PICK e \in F : e.time = g.time /\ e.node > g.node
      BY <1>6, Zenon
    <2>2. \A f \in F : ~(f.node > e.node)
      BY <2>1, StoreAssumption DEF Entries
    <2> QED BY <1>1, <1>5, <2>1, <2>2 DEF Newer
  <1>7. CASE ~(\E e \in F : e.time = g.time /\ e.node > g.node)
    BY <1>1, <1>5, <1>7 DEF Newer
  <1> QED BY <1>6, <1>7, Zenon

\* A batch maps some keys to entries.
LEMMA BatchShape ==
    /\ \A b \in Batches : DOMAIN b \in SUBSET Keys /\ \A k \in DOMAIN b : b[k] \in Entries
    /\ \A ks \in SUBSET Keys : \A b \in [ks -> Entries] : b \in Batches
BY Zenon DEF Batches

\* The place a call has reached says what its record holds.
LEMMA CallShape ==
    ASSUME TypeOK, NEW c \in Callers
    PROVE  /\ call[c].at = "mint" => call[c] \in Minting
           /\ call[c].at \in {"claim", "apply"} => call[c] \in Stamped
           /\ call[c].at = "send" => call[c] \in Sending
  <1>1. call[c] \in {Idle} \cup Minting \cup Stamped \cup Sending
    BY Zenon DEF TypeOK
  <1> QED BY <1>1 DEF Idle, Minting, Stamped, Sending

\* Replacing one call by a well-formed one keeps all calls well formed.
LEMMA CallReplaced ==
    ASSUME TypeOK, NEW c \in Callers, NEW r \in {Idle} \cup Minting \cup Stamped \cup Sending,
           call' = [call EXCEPT ![c] = r]
    PROVE  /\ call' \in [Callers -> {Idle} \cup Minting \cup Stamped \cup Sending]
           /\ call'[c] = r
           /\ \A d \in Callers \ {c} : call'[d] = call[d]
BY Zenon DEF TypeOK

\* map_insert keeps the map, the projection and the tombstone index well formed and
\* in step with each other.
LEMMA InsertMirrors ==
    ASSUME TypeOK, NEW batch \in Batches, Insert(batch)
    PROVE  /\ map' \in [Keys -> Entries \cup {None}]
           /\ projection' \in [Keys -> States \cup {None}]
           /\ tombstones' \in SUBSET Keys
           /\ IndexesMatchMap => IndexesMatchMap'
  <1>1. DOMAIN batch \in SUBSET Keys /\ \A k \in DOMAIN batch : batch[k] \in Entries
    BY BatchShape, Zenon
  <1>2. \A e \in Entries : Project(e) \in States /\ e # None
    BY NoEntry, Zenon DEF Project, States, Entries
  <1>3. map' \in [Keys -> Entries \cup {None}]
    BY <1>1, Zenon DEF Insert, TypeOK
  <1>4. projection' \in [Keys -> States \cup {None}]
    BY <1>1, <1>2, Zenon DEF Insert, TypeOK
  <1>5. tombstones' \in SUBSET Keys
    BY <1>1, Zenon DEF Insert, TypeOK
  <1>6. ASSUME IndexesMatchMap PROVE IndexesMatchMap'
    <2>1. \A k \in Keys : projection'[k] = IF map'[k] = None THEN None ELSE Project(map'[k])
      BY <1>1, <1>2, <1>6, Zenon DEF Insert, IndexesMatchMap
    <2>2. \A k \in Keys : k \in tombstones' <=> (map'[k] # None /\ ~map'[k].live)
      BY <1>1, <1>2, <1>6, Zenon DEF Insert, IndexesMatchMap
    <2> QED BY <1>5, <2>1, <2>2, Zenon DEF IndexesMatchMap
  <1> QED BY <1>3, <1>4, <1>5, <1>6, Zenon

\* The merge has a winner for every key it touches, no older than anything it was
\* chosen from.
LEMMA WinnersChosen ==
    ASSUME TypeOK
    PROVE  /\ Winners \in Batches
           /\ \A k \in DOMAIN Winners :
                /\ Winners[k] \in Contenders(k)
                /\ \A f \in Contenders(k) : ~Newer(f, Winners[k])
  <1>1. \A k \in DOMAIN Winners : /\ k \in Keys
                                  /\ Contenders(k) \in SUBSET Entries
                                  /\ Contenders(k) # {}
    BY DEF Winners, Contenders, TypeOK
  <1>2. \A k \in DOMAIN Winners :
            Winners[k] = CHOOSE e \in Contenders(k) : \A f \in Contenders(k) : ~Newer(f, e)
    BY Zenon DEF Winners
  <1>3. ASSUME NEW k \in DOMAIN Winners
        PROVE  Winners[k] \in Contenders(k) /\ \A f \in Contenders(k) : ~Newer(f, Winners[k])
    <2>1. \E e \in Contenders(k) : \A f \in Contenders(k) : ~Newer(f, e)
      BY <1>1, NewestExists, Zenon
    <2> QED BY <1>2, <2>1, Zenon
  <1>4. Winners \in [DOMAIN Winners -> Entries]
    BY <1>1, <1>3, Zenon DEF Winners
  <1> QED BY <1>1, <1>3, <1>4, BatchShape, Zenon

\* The calls that hold a slot, when one call moves on.
LEMMA HeldMoves ==
    ASSUME NEW c \in Callers, NEW n \in Nat, Cardinality(Held) <= n,
           \A d \in Callers \ {c} : call'[d] = call[d]
    PROVE  /\ Cardinality(Held') <= n + 1
           /\ (c \in Held' => c \in Held) => Cardinality(Held') <= n
           /\ (c \in Held /\ c \notin Held') => Cardinality(Held') <= n - 1
           /\ c \in Held => n > 0
  <1>1. IsFiniteSet(Callers)
    BY StoreAssumption, Zenon
  <1>2. Held \subseteq Callers /\ Held' \subseteq Callers
    BY Zenon DEF Held
  <1>3. /\ IsFiniteSet(Held) /\ IsFiniteSet(Held')
        /\ Cardinality(Held) \in Nat /\ Cardinality(Held') \in Nat
    BY <1>1, <1>2, FS_Subset, FS_CardinalityType, Zenon
  <1>4. Held \ {c} = Held' \ {c}
    BY <1>2 DEF Held
  <1>5. Cardinality(Held \ {c}) = IF c \in Held THEN Cardinality(Held) - 1 ELSE Cardinality(Held)
    BY <1>3, FS_RemoveElement, Zenon
  <1>6. Cardinality(Held' \ {c}) = IF c \in Held' THEN Cardinality(Held') - 1
                                                  ELSE Cardinality(Held')
    BY <1>3, FS_RemoveElement, Zenon
  <1>7. Cardinality(Held \ {c}) \in Nat
    BY <1>3, FS_RemoveElement, FS_CardinalityType, Zenon
  <1>8. CASE c \in Held
    <2>1. Cardinality(Held) > 0 /\ Cardinality(Held \ {c}) <= n - 1
      BY <1>3, <1>5, <1>7, <1>8
    <2>2. CASE c \in Held'
      <3>1. Held' = Held
        BY <1>4, <1>8, <2>2
      <3>2. n > 0 /\ Cardinality(Held') <= n /\ Cardinality(Held') <= n + 1
        BY <1>3, <2>1, <3>1
      <3> QED BY <2>2, <3>2, Zenon
    <2>3. CASE c \notin Held'
      <3>1. Cardinality(Held') = Cardinality(Held \ {c})
        BY <1>4, <1>6, <2>3, Zenon
      <3>2. /\ n > 0 /\ Cardinality(Held') <= n - 1
            /\ Cardinality(Held') <= n /\ Cardinality(Held') <= n + 1
        BY <1>3, <2>1, <3>1
      <3> QED BY <3>2, Zenon
    <2> QED BY <2>2, <2>3, Zenon
  <1>9. CASE c \notin Held
    <2>1. Cardinality(Held \ {c}) <= n
      BY <1>3, <1>5, <1>9, Zenon
    <2>2. CASE c \in Held'
      <3>1. Cardinality(Held') - 1 <= n
        BY <1>4, <1>6, <2>1, <2>2, Zenon
      <3>2. Cardinality(Held') <= n + 1
        BY <1>3, <3>1
      <3> QED BY <1>9, <2>2, <3>2, Zenon
    <2>3. CASE c \notin Held'
      <3>1. Held' = Held
        BY <1>4, <1>9, <2>3
      <3>2. Cardinality(Held') <= n /\ Cardinality(Held') <= n + 1
        BY <1>3, <3>1
      <3> QED BY <1>9, <3>2, Zenon
    <2> QED BY <2>2, <2>3, Zenon
  <1> QED BY <1>8, <1>9, Zenon

\* Stamps taken and not yet applied are covered by the clock as well.
StampsCovered ==
    \A c \in Callers : call[c].at \in {"claim", "apply"} =>
        \A k \in DOMAIN call[c].batch : call[c].batch[k].time <= clock

StoreInv ==
    /\ TypeOK
    /\ SlotsWithinBudget
    /\ IndexesMatchMap
    /\ ClockCoversMap
    /\ StampsCovered

\* A step that moves one call on, with stamps the clock covers, and keeps the slots
\* accounted for and the indexes in step, preserves the invariant.
LEMMA CallStep ==
    ASSUME StoreInv, NEW c \in Callers,
           NEW r \in {Idle} \cup Minting \cup Stamped \cup Sending,
           call' = [call EXCEPT ![c] = r],
           r.at \in {"claim", "apply"} => \A k \in DOMAIN r.batch : r.batch[k].time <= clock',
           slots' \in Nat, Cardinality(Held') <= slots', slots' <= Budget,
           clock' \in 0..MaxTime, clock <= clock',
           pending' \in [Keys -> Entries \cup {None}], sent' \in SUBSET (Keys \X Entries),
           map' \in [Keys -> Entries \cup {None}], projection' \in [Keys -> States \cup {None}],
           tombstones' \in SUBSET Keys, IndexesMatchMap',
           \A k \in Keys : map'[k] # None => map'[k].time <= clock',
           UNCHANGED updates
    PROVE  StoreInv'
  <1> USE DEF StoreInv
  <1>1. /\ call' \in [Callers -> {Idle} \cup Minting \cup Stamped \cup Sending]
        /\ call'[c] = r
        /\ \A d \in Callers \ {c} : call'[d] = call[d]
    BY CallReplaced, Zenon
  <1>2. TypeOK'
    BY <1>1, Zenon DEF TypeOK
  <1>3. SlotsWithinBudget'
    BY Zenon DEF SlotsWithinBudget
  <1>4. clock \in Nat /\ clock' \in Nat
    BY StoreAssumption DEF TypeOK
  <1>5. ClockCoversMap'
    <2>1. \A m \in updates : m[2].time \in Nat
      BY DEF TypeOK, Entries
    <2> QED BY <1>4, <2>1 DEF ClockCoversMap
  <1>6. StampsCovered'
    <2> SUFFICES ASSUME NEW d \in Callers, call'[d].at \in {"claim", "apply"},
                        NEW k \in DOMAIN call'[d].batch
                 PROVE  call'[d].batch[k].time <= clock'
      BY Zenon DEF StampsCovered
    <2>1. CASE d = c
      BY <1>1, <2>1, Zenon
    <2>2. CASE d # c
      <3>1. call'[d] = call[d] /\ call[d].batch[k].time <= clock
        BY <1>1, <2>2, Zenon DEF StampsCovered
      <3>2. call[d].batch[k].time \in Nat
        BY <1>1, <2>2, CallShape, BatchShape DEF Stamped, Entries
      <3> QED BY <1>4, <3>1, <3>2
    <2> QED BY <2>1, <2>2, Zenon
  <1> QED BY <1>2, <1>3, <1>5, <1>6, Zenon

\* The same for a step that leaves the map alone.
LEMMA MovesOn ==
    ASSUME StoreInv, NEW c \in Callers,
           NEW r \in {Idle} \cup Minting \cup Stamped \cup Sending,
           call' = [call EXCEPT ![c] = r],
           r.at \in {"claim", "apply"} => \A k \in DOMAIN r.batch : r.batch[k].time <= clock',
           slots' \in Nat, Cardinality(Held') <= slots', slots' <= Budget,
           clock' \in 0..MaxTime, clock <= clock',
           pending' \in [Keys -> Entries \cup {None}], sent' \in SUBSET (Keys \X Entries),
           UNCHANGED <<map, projection, tombstones, updates>>
    PROVE  StoreInv'
  <1>1. /\ map' \in [Keys -> Entries \cup {None}] /\ projection' \in [Keys -> States \cup {None}]
        /\ tombstones' \in SUBSET Keys
    BY Zenon DEF StoreInv, TypeOK
  <1>2. IndexesMatchMap'
    BY Zenon DEF StoreInv, IndexesMatchMap
  <1>3. \A k \in Keys : map'[k] # None => map'[k].time <= clock'
    <2>1. clock \in Nat /\ clock' \in Nat
      BY StoreAssumption DEF StoreInv, TypeOK
    <2>2. \A k \in Keys : map[k] # None => map[k].time \in Nat /\ map[k].time <= clock
      BY DEF StoreInv, TypeOK, Entries, ClockCoversMap
    <2> QED BY <2>1, <2>2
  <1> QED BY <1>1, <1>2, <1>3, CallStep, Zenon

\* What the invariant says of the counters.
LEMMA Counters ==
    ASSUME StoreInv
    PROVE  /\ clock \in 0..MaxTime /\ clock \in Nat /\ MaxTime \in Nat
           /\ slots \in Nat /\ Budget \in Nat /\ slots <= Budget /\ Cardinality(Held) <= slots
           /\ pending \in [Keys -> Entries \cup {None}] /\ sent \in SUBSET (Keys \X Entries)
BY StoreAssumption DEF StoreInv, TypeOK, SlotsWithinBudget

\* A call begins: it is not holding a slot yet, or has just claimed one.
LEMMA BeginKeeps ==
    ASSUME StoreInv, NEW c \in Callers, NEW op \in Ops, NEW ks \in SUBSET Keys,
           NEW live \in BOOLEAN, NEW quiet \in BOOLEAN, NEW slot \in BOOLEAN,
           call' = [call EXCEPT ![c] = [at |-> "mint", op |-> op, keys |-> ks, live |-> live,
                                        quiet |-> quiet, slot |-> slot]],
           slot => slots < Budget /\ slots' = slots + 1,
           ~slot => UNCHANGED slots,
           UNCHANGED <<map, projection, tombstones, clock, updates, pending, sent>>
    PROVE  StoreInv'
  <1> DEFINE r == [at |-> "mint", op |-> op, keys |-> ks, live |-> live,
                   quiet |-> quiet, slot |-> slot]
  <1>1. r \in Minting /\ r.at = "mint" /\ r.slot = slot
    BY Zenon DEF Minting
  <1> HIDE DEF r
  <1>2. call' = [call EXCEPT ![c] = r]
    BY Zenon DEF r
  <1>3. call'[c] = r /\ \A d \in Callers \ {c} : call'[d] = call[d]
    BY <1>1, <1>2, CallReplaced, Zenon DEF StoreInv
  <1>4. c \in Held' => slot
    BY <1>1, <1>3, Zenon DEF Held
  <1>5. slots' \in Nat /\ slots' <= Budget
    BY Counters
  <1>6. Cardinality(Held') <= slots'
    <2>1. CASE slot
      BY <1>3, <2>1, Counters, HeldMoves, Zenon
    <2>2. CASE ~slot
      BY <1>3, <1>4, <2>2, Counters, HeldMoves, Zenon
    <2> QED BY <2>1, <2>2, Zenon
  <1>7. clock' \in 0..MaxTime /\ clock <= clock'
    BY Counters
  <1>8. pending' \in [Keys -> Entries \cup {None}] /\ sent' \in SUBSET (Keys \X Entries)
    BY Counters, Zenon
  <1> QED BY <1>1, <1>2, <1>5, <1>6, <1>7, <1>8, MovesOn, Zenon

\* The stamps a call takes are covered by the clock that gave them.
LEMMA MintKeeps ==
    ASSUME StoreInv, NEW c \in Callers, Mint(c)
    PROVE  StoreInv'
  <1>1. call[c] \in Minting
    BY CallShape, Zenon DEF StoreInv, Mint
  <1>2. PICK last \in (clock + 1)..MaxTime :
        \E reading \in [call[c].keys -> (clock + 1)..last] :
          /\ call' = [call EXCEPT ![c] =
               [at |-> IF call[c].op = "try_put" THEN "claim" ELSE "apply",
                op |-> call[c].op, quiet |-> call[c].quiet, slot |-> call[c].slot,
                batch |-> [k \in call[c].keys |-> [time |-> reading[k], node |-> Me,
                                                   live |-> call[c].live]]]]
          /\ clock' = last
    BY Zenon DEF Mint
  <1>3. PICK reading \in [call[c].keys -> (clock + 1)..last] :
          /\ call' = [call EXCEPT ![c] =
               [at |-> IF call[c].op = "try_put" THEN "claim" ELSE "apply",
                op |-> call[c].op, quiet |-> call[c].quiet, slot |-> call[c].slot,
                batch |-> [k \in call[c].keys |-> [time |-> reading[k], node |-> Me,
                                                   live |-> call[c].live]]]]
          /\ clock' = last
    BY <1>2, Zenon
  <1> DEFINE b == [k \in call[c].keys |-> [time |-> reading[k], node |-> Me, live |-> call[c].live]]
             r == [at |-> IF call[c].op = "try_put" THEN "claim" ELSE "apply",
                   op |-> call[c].op, quiet |-> call[c].quiet, slot |-> call[c].slot, batch |-> b]
  <1>4. clock' \in 0..MaxTime /\ clock <= clock'
    BY <1>3, Counters
  <1>5. call[c].keys \in SUBSET Keys /\ call[c].live \in BOOLEAN
    BY <1>1, Zenon DEF Minting
  <1>6. \A k \in call[c].keys : reading[k] \in 1..MaxTime /\ reading[k] <= last
    BY Counters
  <1>7. b \in [call[c].keys -> Entries]
    BY <1>5, <1>6, Zenon DEF Entries
  <1>8. b \in Batches
    BY <1>5, <1>7, BatchShape, Zenon
  <1>9. \A k \in DOMAIN b : b[k].time <= clock'
    BY <1>3, <1>6, Zenon
  <1> HIDE DEF b
  <1>10. r \in Stamped /\ r.slot = call[c].slot /\ r.batch = b /\ r.at # "idle"
    BY <1>1, <1>8, Zenon DEF Stamped, Minting
  <1>11. call' = [call EXCEPT ![c] = r]
    BY <1>3, Zenon DEF b
  <1> HIDE DEF r
  <1>12. call'[c] = r /\ \A d \in Callers \ {c} : call'[d] = call[d]
    BY <1>10, <1>11, CallReplaced, Zenon DEF StoreInv
  <1>13. c \in Held' => c \in Held
    BY <1>10, <1>12, Zenon DEF Held, Mint
  <1>14. slots' = slots /\ pending' = pending /\ sent' = sent
    BY Zenon DEF Mint
  <1>15. Cardinality(Held') <= slots'
    BY <1>12, <1>13, <1>14, Counters, HeldMoves, Zenon
  <1>16. UNCHANGED <<map, projection, tombstones, updates>>
    BY Zenon DEF Mint
  <1>17. slots' \in Nat /\ slots' <= Budget /\ pending' \in [Keys -> Entries \cup {None}]
         /\ sent' \in SUBSET (Keys \X Entries)
    BY <1>14, Counters, Zenon
  <1> QED BY <1>4, <1>9, <1>10, <1>11, <1>15, <1>16, <1>17, MovesOn, Zenon

\* A call that ends without a slot to hand on.
LEMMA EndKeeps ==
    ASSUME StoreInv, NEW c \in Callers, call' = [call EXCEPT ![c] = Idle],
           slots' \in Nat, slots' <= Budget,
           slots' = slots \/ (slots' = slots - 1 /\ c \in Held) \/ slots' = slots + 1,
           pending' \in [Keys -> Entries \cup {None}], sent' \in SUBSET (Keys \X Entries),
           UNCHANGED <<map, projection, tombstones, clock, updates>>
    PROVE  StoreInv'
  <1>1. call'[c] = Idle /\ \A d \in Callers \ {c} : call'[d] = call[d]
    BY CallReplaced, Zenon DEF StoreInv
  <1>2. Idle.at = "idle"
    BY Zenon DEF Idle
  <1>3. c \notin Held'
    BY <1>1, <1>2, Zenon DEF Held
  <1>4. Cardinality(Held') <= slots /\ (c \in Held => Cardinality(Held') <= slots - 1)
    BY <1>1, <1>3, Counters, HeldMoves, Zenon
  <1>5. Cardinality(Held') \in Nat
    BY StoreAssumption, FS_Subset, FS_CardinalityType, Zenon DEF Held
  <1>6. Cardinality(Held') <= slots'
    BY <1>4, <1>5, Counters
  <1>7. clock' \in 0..MaxTime /\ clock <= clock'
    BY Counters
  <1> QED BY <1>2, <1>6, <1>7, MovesOn, Zenon

\* EndUnchanged gives back the slot of the call, and only that.
LEMMA EndUnchangedKeeps ==
    ASSUME StoreInv, NEW c \in Callers, call[c] \in Stamped, EndUnchanged(c)
    PROVE  StoreInv'
  <1>1. call[c].at # "idle" /\ call[c].slot \in BOOLEAN
    BY Zenon DEF Stamped
  <1>2. pending' \in [Keys -> Entries \cup {None}] /\ sent' \in SUBSET (Keys \X Entries)
    BY Counters, Zenon DEF EndUnchanged
  <1>3. CASE call[c].slot
    <2>1. c \in Held
      BY <1>1, <1>3, Zenon DEF Held
    <2>2. /\ call' = [call EXCEPT ![c] = Idle] /\ slots' = slots - 1
          /\ UNCHANGED <<map, projection, tombstones, clock, updates>>
      BY <1>3, Zenon DEF EndUnchanged
    <2>3. \A d \in Callers \ {c} : call'[d] = call[d]
      BY <2>2, CallReplaced, Zenon DEF StoreInv
    <2>4. slots > 0
      BY <2>1, <2>3, Counters, HeldMoves, Zenon
    <2>5. slots' \in Nat /\ slots' <= Budget
      BY <2>2, <2>4, Counters
    <2> QED BY <1>2, <2>1, <2>2, <2>5, EndKeeps, Zenon
  <1>4. CASE ~call[c].slot
    <2>1. slots' = slots
      BY <1>4, Counters DEF EndUnchanged
    <2> QED BY <1>2, <2>1, Counters, EndKeeps, Zenon DEF EndUnchanged
  <1> QED BY <1>1, <1>3, <1>4, Zenon

\* try_insert claims its slot, or fails.
LEMMA ClaimKeeps ==
    ASSUME StoreInv, NEW c \in Callers, Claim(c)
    PROVE  StoreInv'
  <1>1. call[c] \in Stamped /\ call[c].at = "claim"
    BY CallShape, Zenon DEF StoreInv, Claim
  <1>2. CASE slots < Budget
    <2> DEFINE r == [call[c] EXCEPT !.at = "apply", !.slot = TRUE]
    <2>1. r \in Stamped /\ r.at = "apply" /\ r.batch = call[c].batch
      BY <1>1, Zenon DEF Stamped
    <2>2. call' = [call EXCEPT ![c].at = "apply", ![c].slot = TRUE]
      BY <1>2, Zenon DEF Claim
    <2>3. call' = [call EXCEPT ![c] = r]
      BY <2>2, Zenon DEF StoreInv, TypeOK
    <2> HIDE DEF r
    <2>4. \A d \in Callers \ {c} : call'[d] = call[d]
      BY <2>1, <2>3, CallReplaced, Zenon DEF StoreInv
    <2>5. slots' = slots + 1 /\ UNCHANGED <<map, projection, tombstones, clock, updates, pending, sent>>
      BY <1>2, Zenon DEF Claim
    <2>6. Cardinality(Held') <= slots'
      BY <2>4, <2>5, Counters, HeldMoves, Zenon
    <2>7. \A k \in DOMAIN r.batch : r.batch[k].time <= clock'
      BY <1>1, <2>1, <2>5, Zenon DEF StoreInv, StampsCovered
    <2>8. slots' \in Nat /\ slots' <= Budget /\ clock' \in 0..MaxTime /\ clock <= clock'
      BY <1>2, <2>5, Counters
    <2>9. pending' \in [Keys -> Entries \cup {None}] /\ sent' \in SUBSET (Keys \X Entries)
      BY <2>5, Counters, Zenon
    <2> QED BY <2>1, <2>3, <2>5, <2>6, <2>7, <2>8, <2>9, MovesOn, Zenon
  <1>3. CASE ~(slots < Budget)
    <2>1. /\ call' = [call EXCEPT ![c] = Idle]
          /\ UNCHANGED <<map, projection, tombstones, clock, updates, pending, sent, slots>>
      BY <1>3, Zenon DEF Claim
    <2> QED BY <2>1, Counters, EndKeeps, Zenon
  <1> QED BY <1>2, <1>3, Zenon

\* What a call that holds its stamps is about to apply.
LEMMA AboutToApply ==
    ASSUME StoreInv, NEW c \in Callers, call[c].at = "apply"
    PROVE  /\ call[c] \in Stamped /\ call[c].batch \in Batches
           /\ \A k \in DOMAIN call[c].batch : /\ k \in Keys
                                             /\ call[c].batch[k] \in Entries
                                             /\ call[c].batch[k].time <= clock
  <1>1. call[c] \in Stamped
    BY CallShape, Zenon DEF StoreInv
  <1>2. call[c].batch \in Batches
    BY <1>1, Zenon DEF Stamped
  <1>3. \A k \in DOMAIN call[c].batch : call[c].batch[k].time <= clock
    BY Zenon DEF StoreInv, StampsCovered
  <1> QED BY <1>1, <1>2, <1>3, BatchShape, Zenon

\* A put replaces what the map holds by entries the clock covers.
LEMMA PutKeeps ==
    ASSUME StoreInv, NEW c \in Callers, ApplyPut(c)
    PROVE  StoreInv'
  <1> DEFINE b == call[c].batch
             r == IF call[c].quiet THEN Idle ELSE [at |-> "send", batch |-> b, slot |-> call[c].slot]
  <1>1. call[c].at = "apply"
    BY Zenon DEF ApplyPut
  <1>2. /\ call[c] \in Stamped /\ b \in Batches
        /\ \A k \in DOMAIN b : k \in Keys /\ b[k] \in Entries /\ b[k].time <= clock
    BY <1>1, AboutToApply, Zenon
  <1>3. /\ Insert(b) /\ call' = [call EXCEPT ![c] = r]
        /\ UNCHANGED <<clock, updates, pending, slots, sent>>
    BY Zenon DEF ApplyPut
  <1>4. /\ map' \in [Keys -> Entries \cup {None}] /\ projection' \in [Keys -> States \cup {None}]
        /\ tombstones' \in SUBSET Keys /\ IndexesMatchMap'
    BY <1>2, <1>3, InsertMirrors, Zenon DEF StoreInv
  <1>5. \A k \in Keys : map'[k] # None => map'[k].time <= clock'
    BY <1>2, <1>3, Zenon DEF Insert, StoreInv, ClockCoversMap
  <1>6. /\ r \in {Idle} \cup Minting \cup Stamped \cup Sending
        /\ r.at \in {"idle", "send"} /\ (r.at = "send" => r.slot = call[c].slot)
    BY <1>2, Zenon DEF Idle, Sending, Stamped
  <1> HIDE DEF r, b
  <1>7. call'[c] = r /\ \A d \in Callers \ {c} : call'[d] = call[d]
    BY <1>3, <1>6, CallReplaced, Zenon DEF StoreInv
  <1>8. c \in Held' => c \in Held
    BY <1>1, <1>6, <1>7, Zenon DEF Held
  <1>9. Cardinality(Held') <= slots' /\ slots' \in Nat /\ slots' <= Budget
    BY <1>3, <1>7, <1>8, Counters, HeldMoves, Zenon
  <1>10. /\ clock' \in 0..MaxTime /\ clock <= clock'
         /\ pending' \in [Keys -> Entries \cup {None}] /\ sent' \in SUBSET (Keys \X Entries)
    BY <1>3, Counters
  <1> QED BY <1>3, <1>4, <1>5, <1>6, <1>9, <1>10, CallStep, Zenon

\* An in-place edit of an entry keeps the tombstone index right although it leaves it
\* alone: the entry stays live, or stays a tombstone.
LEMMA RestampKeeps ==
    ASSUME StoreInv, NEW c \in Callers, call[c].at = "apply", NEW key \in DOMAIN call[c].batch,
           map[key] # None, Restamp(c, key)
    PROVE  StoreInv'
  <1> DEFINE e == [call[c].batch[key] EXCEPT !.live = map[key].live]
             b == [k \in {key} |-> e]
             r == [at |-> "send", batch |-> b, slot |-> call[c].slot]
  <1>1. /\ call[c] \in Stamped /\ key \in Keys /\ call[c].batch[key] \in Entries
        /\ call[c].batch[key].time <= clock
    BY AboutToApply, Zenon
  <1>2. map[key] \in Entries
    BY <1>1, Zenon DEF StoreInv, TypeOK
  <1>3. e \in Entries /\ e.live = map[key].live /\ e.time <= clock
    BY <1>1, <1>2, Zenon DEF Entries
  <1>4. /\ map' = [map EXCEPT ![key] = e]
        /\ projection' = [projection EXCEPT ![key] = Project(e)]
        /\ call' = [call EXCEPT ![c] = r]
        /\ UNCHANGED <<tombstones, clock, updates, pending, slots, sent>>
    BY Zenon DEF Restamp
  <1> HIDE DEF e
  <1>5. b \in [{key} -> Entries]
    BY <1>3, Zenon
  <1>6. b \in Batches
    BY <1>1, <1>5, BatchShape, Zenon
  <1> HIDE DEF b
  <1>7. r \in Sending /\ r.at = "send" /\ r.slot = call[c].slot
    BY <1>1, <1>6, Zenon DEF Sending, Stamped
  <1> HIDE DEF r
  <1>8. Project(e) \in States /\ e # None
    BY <1>3, NoEntry, Zenon DEF Project, States, Entries
  <1>9. /\ map' \in [Keys -> Entries \cup {None}] /\ projection' \in [Keys -> States \cup {None}]
        /\ tombstones' \in SUBSET Keys
    BY <1>3, <1>4, <1>8, Zenon DEF StoreInv, TypeOK
  <1>10. IndexesMatchMap'
    <2>1. \A k \in Keys : projection'[k] = IF map'[k] = None THEN None ELSE Project(map'[k])
      BY <1>1, <1>4, <1>8, Zenon DEF StoreInv, IndexesMatchMap, TypeOK
    <2>2. \A k \in Keys : k \in tombstones' <=> (map'[k] # None /\ ~map'[k].live)
      BY <1>1, <1>3, <1>4, <1>8, Zenon DEF StoreInv, IndexesMatchMap, TypeOK
    <2> QED BY <1>9, <2>1, <2>2, Zenon DEF IndexesMatchMap
  <1>11. \A k \in Keys : map'[k] # None => map'[k].time <= clock'
    BY <1>1, <1>3, <1>4, Zenon DEF StoreInv, ClockCoversMap, TypeOK
  <1>12. call'[c] = r /\ \A d \in Callers \ {c} : call'[d] = call[d]
    BY <1>4, <1>7, CallReplaced, Zenon DEF StoreInv
  <1>13. c \in Held' => c \in Held
    BY <1>7, <1>12, Zenon DEF Held
  <1>14. Cardinality(Held') <= slots' /\ slots' \in Nat /\ slots' <= Budget
    BY <1>4, <1>12, <1>13, Counters, HeldMoves, Zenon
  <1>15. /\ clock' \in 0..MaxTime /\ clock <= clock'
         /\ pending' \in [Keys -> Entries \cup {None}] /\ sent' \in SUBSET (Keys \X Entries)
    BY <1>4, Counters
  <1> QED BY <1>4, <1>7, <1>9, <1>10, <1>11, <1>14, <1>15, CallStep, Zenon

\* update, upsert and get_mut: an edit in place, no effect, or back to a put.
LEMMA MutateKeeps ==
    ASSUME StoreInv, NEW c \in Callers, ApplyMutate(c)
    PROVE  StoreInv'
  <1>1. call[c].at = "apply"
    BY Zenon DEF ApplyMutate
  <1>2. PICK key \in DOMAIN call[c].batch :
          \/ map[key] # None /\ Restamp(c, key)
          \/ EndUnchanged(c)
          \/ /\ call' = [call EXCEPT ![c] = [at |-> "mint", op |-> "put", keys |-> {key},
                            live |-> TRUE, quiet |-> FALSE, slot |-> FALSE]]
             /\ UNCHANGED <<map, projection, tombstones, clock, updates, pending, slots, sent>>
    BY Zenon DEF ApplyMutate
  <1>3. CASE map[key] # None /\ Restamp(c, key)
    BY <1>1, <1>3, RestampKeeps, Zenon
  <1>4. CASE EndUnchanged(c)
    BY <1>1, <1>4, AboutToApply, EndUnchangedKeeps, Zenon
  <1>5. CASE /\ call' = [call EXCEPT ![c] = [at |-> "mint", op |-> "put", keys |-> {key},
                            live |-> TRUE, quiet |-> FALSE, slot |-> FALSE]]
             /\ UNCHANGED <<map, projection, tombstones, clock, updates, pending, slots, sent>>
    <2>1. {key} \in SUBSET Keys /\ "put" \in Ops
      BY <1>1, AboutToApply, Zenon DEF Ops
    <2> QED BY <1>5, <2>1, BeginKeeps, Zenon
  <1> QED BY <1>2, <1>3, <1>4, <1>5, Zenon

\* The entries of a batch, as broadcast sends them.
LEMMA BatchSent ==
    ASSUME NEW b \in Batches
    PROVE  {<<k, b[k]>> : k \in DOMAIN b} \in SUBSET (Keys \X Entries)
BY BatchShape

\* queue_broadcast keeps the newer entry of each key.
LEMMA CoalescedKeepsNewer ==
    ASSUME StoreInv, NEW b \in Batches
    PROVE  /\ Coalesced(b) \in [Keys -> Entries \cup {None}]
           /\ \A k \in Keys : pending[k] # None => ~Newer(pending[k], Coalesced(b)[k])
  <1>1. DOMAIN b \in SUBSET Keys /\ \A k \in DOMAIN b : b[k] \in Entries
    BY BatchShape, Zenon
  <1>2. \A k \in Keys : pending[k] \in Entries \cup {None}
    BY Counters, Zenon
  <1>3. \A x, y \in Entries : Merge(x, y) \in {x, y} /\ ~Newer(x, Merge(x, y)) /\ ~Newer(x, x)
    BY StoreAssumption DEF Merge, Newer, Entries
  <1>4. \A k \in Keys : Coalesced(b)[k] = IF k \notin DOMAIN b THEN pending[k]
                                         ELSE IF pending[k] = None THEN b[k]
                                         ELSE Merge(pending[k], b[k])
    BY Zenon DEF Coalesced
  <1>5. \A k \in Keys : Coalesced(b)[k] \in Entries \cup {None}
    BY <1>1, <1>2, <1>3, <1>4, Zenon
  <1>6. Coalesced(b) \in [Keys -> Entries \cup {None}]
    BY <1>5, Zenon DEF Coalesced
  <1> QED BY <1>1, <1>2, <1>3, <1>4, <1>6, Zenon

\* A call hands its entries to the buffer or to a broadcast, which takes over its slot.
LEMMA SendKeeps ==
    ASSUME StoreInv, NEW c \in Callers, Send(c)
    PROVE  /\ StoreInv'
           /\ \A k \in Keys : (pending[k] # None /\ pending'[k] # None)
                                => ~Newer(pending[k], pending'[k])
  <1> DEFINE b == call[c].batch
  <1>1. call[c] \in Sending
    BY CallShape, Zenon DEF StoreInv, Send
  <1>2. b \in Batches
    BY <1>1, Zenon DEF Sending
  <1>3. /\ call' = [call EXCEPT ![c] = Idle]
        /\ UNCHANGED <<map, projection, tombstones, clock, updates>>
    BY Zenon DEF Send
  <1>4. /\ slots' = slots \/ (slots < Budget /\ slots' = slots + 1)
        /\ sent' = sent \/ sent' = sent \cup {<<k, b[k]>> : k \in DOMAIN b}
        /\ pending' = pending \/ pending' = Coalesced(b)
    BY Zenon DEF Send, Broadcast
  <1>5. slots' \in Nat /\ slots' <= Budget
    BY <1>4, Counters
  <1>6. sent' \in SUBSET (Keys \X Entries)
    BY <1>2, <1>4, BatchSent, Counters, Zenon
  <1>7. pending' \in [Keys -> Entries \cup {None}]
    BY <1>2, <1>4, CoalescedKeepsNewer, Counters, Zenon
  <1>8. StoreInv'
    BY <1>3, <1>4, <1>5, <1>6, <1>7, EndKeeps, Zenon
  <1>9. \A k \in Keys : (pending[k] # None /\ pending'[k] # None) => ~Newer(pending[k], pending'[k])
    <2>1. CASE pending' = pending
      <3>1. \A k \in Keys : pending[k] # None => pending[k] \in Entries
        BY Counters, Zenon
      <3>2. \A x \in Entries : ~Newer(x, x)
        BY StoreAssumption DEF Newer, Entries
      <3> QED BY <2>1, <3>1, <3>2, Zenon
    <2>2. CASE pending' = Coalesced(b)
      BY <1>2, <2>2, CoalescedKeepsNewer, Zenon
    <2> QED BY <1>4, <2>1, <2>2, Zenon
  <1> QED BY <1>8, <1>9, Zenon

\* A step that moves no call and leaves the map and the clock alone.
LEMMA SlotStep ==
    ASSUME StoreInv, UNCHANGED <<map, projection, tombstones, clock, call, updates>>,
           slots' \in Nat, slots' <= Budget, Cardinality(Held) <= slots',
           pending' \in [Keys -> Entries \cup {None}], sent' \in SUBSET (Keys \X Entries)
    PROVE  StoreInv'
  <1>1. TypeOK'
    BY Zenon DEF StoreInv, TypeOK
  <1>2. Held' = Held
    BY Zenon DEF Held
  <1>3. SlotsWithinBudget'
    BY <1>2, Zenon DEF SlotsWithinBudget
  <1> QED BY <1>1, <1>3, Zenon DEF StoreInv, IndexesMatchMap, ClockCoversMap, StampsCovered

\* The flush hands the buffer to a broadcast, or skips it at the budget.
LEMMA FlushKeeps ==
    ASSUME StoreInv, CoalesceFlush
    PROVE  StoreInv'
  <1> DEFINE ks == {j \in Keys : pending[j] # None}
             b == [k \in ks |-> pending[k]]
  <1>1. b \in [ks -> Entries]
    BY Counters, Zenon
  <1>2. b \in Batches
    BY <1>1, BatchShape, Zenon
  <1>3. /\ Broadcast(b) /\ pending' = [k \in Keys |-> None]
        /\ UNCHANGED <<map, projection, tombstones, clock, call, updates>>
    BY Zenon DEF CoalesceFlush
  <1> HIDE DEF b
  <1>4. /\ slots' = slots \/ (slots < Budget /\ slots' = slots + 1)
        /\ sent' = sent \/ sent' = sent \cup {<<k, b[k]>> : k \in DOMAIN b}
    BY <1>3, Zenon DEF Broadcast
  <1>5. Cardinality(Held) \in Nat
    BY StoreAssumption, FS_Subset, FS_CardinalityType, Zenon DEF Held
  <1>6. slots' \in Nat /\ slots' <= Budget /\ Cardinality(Held) <= slots'
    BY <1>4, <1>5, Counters
  <1>7. sent' \in SUBSET (Keys \X Entries)
    BY <1>2, <1>4, BatchSent, Counters, Zenon
  <1>8. pending' \in [Keys -> Entries \cup {None}]
    BY <1>3, Zenon
  <1> QED BY <1>3, <1>6, <1>7, <1>8, SlotStep, Zenon

\* A broadcast task ends.
LEMMA DoneKeeps ==
    ASSUME StoreInv, BroadcastDone
    PROVE  StoreInv'
  <1>1. Cardinality(Held) \in Nat
    BY StoreAssumption, FS_Subset, FS_CardinalityType, Zenon DEF Held
  <1>2. slots' \in Nat /\ slots' <= Budget /\ Cardinality(Held) <= slots'
    BY <1>1, Counters DEF BroadcastDone
  <1>3. /\ pending' \in [Keys -> Entries \cup {None}] /\ sent' \in SUBSET (Keys \X Entries)
        /\ UNCHANGED <<map, projection, tombstones, clock, call, updates>>
    BY Counters, Zenon DEF BroadcastDone
  <1> QED BY <1>2, <1>3, SlotStep, Zenon

\* The clock observes every stamp received before anything is merged.
LEMMA ReceiveKeeps ==
    ASSUME StoreInv, NEW m \in Keys \X Entries, NEW n \in Keys \X Entries,
           ReceiveUpdates({m, n})
    PROVE  StoreInv'
  <1> DEFINE T == {clock} \cup {x[2].time : x \in {m, n}}
  <1>1. m[2].time \in 1..MaxTime /\ n[2].time \in 1..MaxTime
    BY Zenon DEF Entries
  <1>2. \E t \in T : t >= clock /\ \A x \in {m, n} : t >= x[2].time
    <2>1. CASE clock >= m[2].time /\ clock >= n[2].time
      BY <2>1, Counters
    <2>2. CASE m[2].time >= clock /\ m[2].time >= n[2].time
      BY <1>1, <2>2
    <2>3. CASE n[2].time >= clock /\ n[2].time >= m[2].time
      BY <1>1, <2>3
    <2> QED BY <1>1, <2>1, <2>2, <2>3, Counters
  <1>3. clock' = CHOOSE t \in T : t >= clock /\ \A x \in {m, n} : t >= x[2].time
    BY Zenon DEF ReceiveUpdates
  <1>4. clock' \in T /\ clock' >= clock /\ \A x \in {m, n} : clock' >= x[2].time
    BY <1>2, <1>3, Zenon
  <1>5. clock' \in 0..MaxTime
    BY <1>1, <1>4, Counters
  <1>6. /\ updates' \in SUBSET {m, n}
        /\ UNCHANGED <<map, projection, tombstones, call, pending, slots, sent>>
    BY Zenon DEF ReceiveUpdates
  <1>7. TypeOK'
    BY <1>5, <1>6, Zenon DEF StoreInv, TypeOK
  <1>8. Held' = Held
    BY <1>6, Zenon DEF Held
  <1>9. SlotsWithinBudget' /\ IndexesMatchMap'
    BY <1>6, <1>8, Zenon DEF StoreInv, SlotsWithinBudget, IndexesMatchMap
  <1>10. ClockCoversMap'
    <2>1. \A k \in Keys : map'[k] # None => map'[k].time <= clock'
      <3>1. \A k \in Keys : map[k] # None => map[k].time \in Nat /\ map[k].time <= clock
        BY DEF StoreInv, TypeOK, Entries, ClockCoversMap
      <3> QED BY <1>4, <1>5, <1>6, <3>1, Counters
    <2>2. \A x \in updates' : x[2].time <= clock'
      BY <1>1, <1>4, <1>5, <1>6, Counters, Zenon
    <2> QED BY <2>1, <2>2, Zenon DEF ClockCoversMap
  <1>11. StampsCovered'
    <2> SUFFICES ASSUME NEW c \in Callers, call[c].at \in {"claim", "apply"},
                        NEW k \in DOMAIN call[c].batch
                 PROVE  call[c].batch[k].time <= clock'
      BY <1>6, Zenon DEF StampsCovered
    <2>1. call[c].batch[k].time <= clock
      BY Zenon DEF StoreInv, StampsCovered
    <2>2. call[c].batch[k].time \in Nat
      BY CallShape, BatchShape DEF StoreInv, Stamped, Entries
    <2> QED BY <1>4, <1>5, <2>1, <2>2, Counters
  <1> QED BY <1>7, <1>9, <1>10, <1>11, Zenon DEF StoreInv

\* The merge under the locks, whatever was written since it was decided.
LEMMA MergeKeeps ==
    ASSUME StoreInv, MergeUpdates
    PROVE  /\ StoreInv'
           /\ \A k \in Keys : map[k] # None => ~Newer(map[k], map'[k])
  <1>1. /\ Winners \in Batches
        /\ \A k \in DOMAIN Winners : /\ Winners[k] \in Contenders(k)
                                     /\ \A f \in Contenders(k) : ~Newer(f, Winners[k])
    BY WinnersChosen, Zenon DEF StoreInv
  <1>2. /\ Insert(Winners) /\ updates' = {}
        /\ UNCHANGED <<clock, call, pending, slots, sent>>
    BY Zenon DEF MergeUpdates
  <1>3. /\ map' \in [Keys -> Entries \cup {None}] /\ projection' \in [Keys -> States \cup {None}]
        /\ tombstones' \in SUBSET Keys /\ IndexesMatchMap'
    BY <1>1, <1>2, InsertMirrors, Zenon DEF StoreInv
  <1>4. TypeOK'
    BY <1>2, <1>3, Zenon DEF StoreInv, TypeOK
  <1>5. \A k \in Keys : map'[k] = IF k \in DOMAIN Winners THEN Winners[k] ELSE map[k]
    BY <1>2, Zenon DEF Insert
  <1>6. \A k \in DOMAIN Winners : k \in Keys /\ \A e \in Contenders(k) : e.time <= clock
    BY DEF StoreInv, ClockCoversMap, Contenders, Winners, TypeOK
  <1>7. ClockCoversMap'
    BY <1>1, <1>2, <1>5, <1>6, Zenon DEF StoreInv, ClockCoversMap
  <1>8. Held' = Held
    BY <1>2, Zenon DEF Held
  <1>9. SlotsWithinBudget' /\ StampsCovered'
    BY <1>2, <1>8, Zenon DEF StoreInv, SlotsWithinBudget, StampsCovered
  <1>10. ASSUME NEW k \in Keys, map[k] # None PROVE ~Newer(map[k], map'[k])
    <2>1. CASE k \in DOMAIN Winners
      <3>1. map[k] \in Contenders(k)
        BY <1>10, Zenon DEF Contenders
      <3> QED BY <1>1, <1>5, <2>1, <3>1, Zenon
    <2>2. CASE k \notin DOMAIN Winners
      <3>1. map[k] \in Entries
        BY <1>10, Zenon DEF StoreInv, TypeOK
      <3>2. ~Newer(map[k], map[k])
        BY <3>1, StoreAssumption DEF Newer, Entries
      <3> QED BY <1>5, <2>2, <3>2, Zenon
    <2> QED BY <2>1, <2>2, Zenon
  <1> QED BY <1>3, <1>4, <1>7, <1>9, <1>10, Zenon DEF StoreInv

\* Every step of a local call.
LEMMA LocalKeeps ==
    ASSUME StoreInv, NEW c \in Callers, Local(c)
    PROVE  StoreInv'
  <1>1. ASSUME NEW ks \in SUBSET Keys, NEW live \in BOOLEAN, NEW quiet \in BOOLEAN,
               BeginPut(c, ks, live, quiet)
        PROVE  StoreInv'
    <2>1. "put" \in Ops
      BY Zenon DEF Ops
    <2> QED BY <1>1, <2>1, BeginKeeps, Zenon DEF BeginPut
  <1>2. CASE \E ks \in (SUBSET Keys) \ {{}}, live, quiet \in BOOLEAN :
               (quiet => live) /\ BeginPut(c, ks, live, quiet)
    BY <1>1, <1>2, Zenon
  <1>3. CASE BeginClear(c)
    BY <1>1, <1>3, Zenon DEF BeginClear
  <1>4. CASE \E k \in Keys, op \in {"update", "upsert", "get_mut", "try_put"} : BeginOne(c, op, k)
    <2>1. PICK k \in Keys, op \in {"update", "upsert", "get_mut", "try_put"} : BeginOne(c, op, k)
      BY <1>4, Zenon
    <2>2. op \in Ops /\ {k} \in SUBSET Keys
      BY Zenon DEF Ops
    <2> QED BY <2>1, <2>2, BeginKeeps, Zenon DEF BeginOne
  <1>5. CASE \E k \in Keys : BeginTryUpdate(c, k)
    <2>1. PICK k \in Keys : BeginTryUpdate(c, k)
      BY <1>5, Zenon
    <2>2. "update" \in Ops /\ {k} \in SUBSET Keys
      BY Zenon DEF Ops
    <2> QED BY <2>1, <2>2, BeginKeeps, Zenon DEF BeginTryUpdate
  <1> QED BY <1>2, <1>3, <1>4, <1>5, MintKeeps, ClaimKeeps, PutKeeps, MutateKeeps, SendKeeps, Zenon
          DEF Local

\* The invariant is inductive.
LEMMA StoreStep == StoreInv /\ [Next]_vars => StoreInv'
  <1> SUFFICES ASSUME StoreInv, [Next]_vars PROVE StoreInv'
    OBVIOUS
  <1>1. CASE \E c \in Callers : Local(c)
    BY <1>1, LocalKeeps, Zenon
  <1>2. CASE CoalesceFlush \/ BroadcastDone
    BY <1>2, FlushKeeps, DoneKeeps, Zenon
  <1>3. CASE \E m, n \in Remote \cup sent : ReceiveUpdates({m, n})
    <2>1. Remote \in SUBSET (Keys \X Entries)
      <3>1. \A t \in 1..MaxTime :
              [time |-> t, node |-> Peer, live |-> t \notin Deletes] \in Entries
        <4> SUFFICES ASSUME NEW t \in 1..MaxTime
                     PROVE  [time |-> t, node |-> Peer, live |-> t \notin Deletes] \in Entries
          OBVIOUS
        <4>1. (t \notin Deletes) \in BOOLEAN
          OBVIOUS
        <4> QED BY <4>1, Zenon DEF Entries
      <3> QED BY <3>1, Zenon DEF Remote
    <2>2. Remote \cup sent \in SUBSET (Keys \X Entries)
      BY <2>1, Counters, Zenon
    <2> QED BY <1>3, <2>2, ReceiveKeeps, Zenon
  <1>4. CASE MergeUpdates
    BY <1>4, MergeKeeps, Zenon
  <1>5. CASE UNCHANGED vars
    <2>1. UNCHANGED <<map, projection, tombstones, clock, call, updates, pending, slots, sent>>
      BY <1>5, Zenon DEF vars
    <2> QED BY <2>1, Counters, SlotStep, Zenon
  <1> QED BY <1>1, <1>2, <1>3, <1>4, <1>5, Zenon DEF Next, Gossip

\* An empty store satisfies it.
LEMMA StoreInit == Init => StoreInv
  <1> SUFFICES ASSUME Init PROVE StoreInv
    OBVIOUS
  <1>1. TypeOK
    BY StoreAssumption DEF Init, TypeOK
  <1>2. Held = {}
    BY Zenon DEF Init, Held, Idle
  <1>3. Cardinality(Held) = 0
    BY <1>2, FS_EmptySet, Zenon
  <1>4. SlotsWithinBudget
    BY <1>3, StoreAssumption DEF Init, SlotsWithinBudget
  <1>5. IndexesMatchMap /\ ClockCoversMap
    BY Zenon DEF Init, IndexesMatchMap, ClockCoversMap
  <1>6. StampsCovered
    BY Zenon DEF Init, StampsCovered, Idle
  <1> QED BY <1>1, <1>4, <1>5, <1>6, Zenon DEF StoreInv

\* The invariant of the store holds in every reachable state.
LEMMA StoreSafe == Spec => []StoreInv
BY StoreInit, StoreStep, PTL DEF Spec

\* After every locked section the projection and the tombstone index mirror the map,
\* for any number of keys and callers: map_insert, get_mut and the merge agree.
THEOREM IndexesMirror == Spec => []IndexesMatchMap
  <1>1. StoreInv => IndexesMatchMap
    BY Zenon DEF StoreInv
  <1> QED BY <1>1, StoreSafe, PTL

\* The clock covers the map and what is about to be merged, so a write stamped now
\* outranks everything this node holds.
THEOREM ClockCovers == Spec => []ClockCoversMap
  <1>1. StoreInv => ClockCoversMap
    BY Zenon DEF StoreInv
  <1> QED BY <1>1, StoreSafe, PTL

\* The broadcast budget is never exceeded, and a slot that a call holds is never given
\* back by anyone else, on any path of try_insert and try_update.
THEOREM SlotsBounded == Spec => []SlotsWithinBudget
  <1>1. StoreInv => SlotsWithinBudget
    BY Zenon DEF StoreInv
  <1> QED BY <1>1, StoreSafe, PTL

\* A merge decided before other writes ran never replaces a newer entry, because
\* apply_dated_updates compares again under the write lock.
THEOREM MergesKeepNewer == Spec => MergeNeverRegresses
  <1>1. StoreInv /\ [Next]_vars =>
          [MergeUpdates => \A k \in Keys : map[k] # None => ~Newer(map[k], map'[k])]_vars
    BY MergeKeeps, Zenon
  <1> QED BY <1>1, StoreSafe, PTL DEF Spec, MergeNeverRegresses

\* The coalescing buffer keeps the newest entry of a key in whatever order the calls
\* that stamped them reach queue_broadcast.
THEOREM BufferKeepsNewer == Spec => BufferNeverRegresses
  <1> DEFINE Kept == \A k \in Keys : (pending[k] # None /\ pending'[k] # None)
                                         => ~Newer(pending[k], pending'[k])
  <1>1. StoreInv /\ [Next]_vars => [Kept]_vars
    <2> SUFFICES ASSUME StoreInv, Next PROVE Kept
      OBVIOUS
    <2>1. CASE UNCHANGED pending
      <3>1. \A k \in Keys : pending[k] # None => pending[k] \in Entries
        BY Counters, Zenon
      <3>2. \A x \in Entries : ~Newer(x, x)
        BY StoreAssumption DEF Newer, Entries
      <3> QED BY <2>1, <3>1, <3>2, Zenon
    <2>2. CASE \E c \in Callers : Send(c)
      BY <2>2, SendKeeps, Zenon
    <2>3. CASE CoalesceFlush
      BY <2>3, Zenon DEF CoalesceFlush
    <2>4. ASSUME NEW c \in Callers, Local(c) PROVE UNCHANGED pending \/ Send(c)
      BY <2>4, Zenon DEF Local, BeginPut, BeginClear, BeginOne, BeginTryUpdate, Mint, Claim, ApplyPut,
                  ApplyMutate, Restamp, EndUnchanged
    <2> QED BY <2>1, <2>2, <2>3, <2>4, Zenon
            DEF Next, Gossip, BroadcastDone, ReceiveUpdates, MergeUpdates
  <1> QED BY <1>1, StoreSafe, PTL DEF Spec, BufferNeverRegresses
==============================================================================
