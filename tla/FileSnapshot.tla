----------------------------- MODULE FileSnapshot -----------------------------
(***************************************************************************)
(* The file-based Persistence backend, one step per file-system operation. *)
(* A base segment and the deltas after it are named by a manifest that is  *)
(* replaced atomically.  Every write is: write a temporary file, sync it,  *)
(* rename it, sync the directory.  The process may stop and the power may  *)
(* fail between any two operations, and any operation may report an error. *)
(***************************************************************************)
EXTENDS Snapshot, Integers, FiniteSets

CONSTANTS
    Vals,              \* the values of the persisted items
    Corrupt,           \* load() fails with InvalidData
    MaxDeltas,         \* MAX_COMMITTED_DELTAS
    BaseOverhead,      \* bytes of a base segment besides its items
    OrderedMetadata,   \* does syncing the store directory commit its own entry?
    MaxGen,            \* bound on generations
    MaxFaults          \* bound on errors, stops and power losses

Generations == 1..MaxGen

States == [Keys -> Vals \cup {None}]

Deltas == UNION {[ks -> Vals \cup {None}] : ks \in (SUBSET Keys) \ {{}}}

ASSUME FileAssumption ==
    /\ IsFiniteSet(Keys) /\ None \notin Vals
    /\ MaxDeltas \in Nat
    /\ BaseOverhead \in Nat \ {0}
    /\ OrderedMetadata \in BOOLEAN
    /\ MaxGen \in Nat
    /\ MaxFaults \in Nat

\* The manifest: where the chain starts and ends, and the bytes of its segments.
Manifests == [base : Generations, baseBytes : Nat, current : Generations, deltaBytes : Nat]

ASSUME NoFile == None \notin States /\ None \notin Deltas /\ None \notin Manifests

VARIABLES
    fs,        \* the files as the running system sees them
    safe,      \* each file as of the last sync of its directory
    dirSafe,   \* is the store directory's entry in its parent durable?
    pc,        \* where the running call is
    call,      \* the running call: its kind and argument
    answered,  \* the state the last Ok answer is about; None after other calls
    faults     \* errors, stops and power losses so far

vars == <<fs, safe, dirSafe, pc, call, answered, faults>>

NoCall == [op |-> "none"]

Calls == [op : {"delta"}, arg : Deltas] \cup [op : {"full"}, arg : States]

NoFiles == [g \in Generations |-> None]

\* apply_delta, on items of one kind.
Apply(state, delta) ==
    [k \in Keys |-> IF k \in DOMAIN delta THEN delta[k] ELSE state[k]]

BaseBytes(state) == BaseOverhead + Cardinality({k \in Keys : state[k] # None})

DeltaBytes(delta) == Cardinality(DOMAIN delta)

(***************************************************************************)
(* load(): the manifest's base with its deltas, every check included; the  *)
(* legacy single file when there is no manifest.                           *)
(***************************************************************************)
Committed(m) == (m.base + 1)..m.current

ManifestValid(m) ==
    /\ 0 < m.base /\ m.base <= m.current
    /\ 0 < m.baseBytes
    /\ m.base = m.current <=> m.deltaBytes = 0

\* What one more delta makes of the recovered state and of the bytes read for it.
After(x, delta) == [state |-> Apply(x.state, delta), bytes |-> x.bytes + DeltaBytes(delta)]

\* The loop over the generations after the base.
Replay(start, chain, base, current) ==
    LET upTo[g \in base..current] ==
          IF g = base THEN start ELSE After(upTo[g - 1], chain[g])
    IN  upTo

Recovered(f, m) ==
    Replay([state |-> f.base[m.base], bytes |-> 0],
           [g \in Committed(m) |-> f.delta[g]], m.base, m.current)[m.current]

Intact(f, m) ==
    /\ ManifestValid(m)
    /\ f.base[m.base] # None /\ BaseBytes(f.base[m.base]) = m.baseBytes
    /\ \A g \in Committed(m) : f.delta[g] # None
    /\ Recovered(f, m).bytes = m.deltaBytes

Load(f) ==
    IF f.manifest = None THEN f.legacy
    ELSE IF Intact(f, f.manifest) THEN Recovered(f, f.manifest).state
    ELSE Corrupt

(***************************************************************************)
(* The calls.                                                              *)
(***************************************************************************)
NextGeneration == IF fs.manifest = None THEN 1 ELSE fs.manifest.current + 1

\* Mutant: the chain is bounded by its length only.
MaterializeByCount(m, bytes) == m.current - m.base >= MaxDeltas

ShouldMaterialize(m, bytes) ==
    \/ m.current - m.base >= MaxDeltas
    \/ m.deltaBytes + bytes >= m.baseBytes

\* try_save_delta answers Ok(false) when there is no manifest or the chain is
\* due for compaction, and Ok(true) when it is given no delta.
NothingWritten(delta) ==
    /\ pc = "idle"
    /\ (fs.manifest # None /\ delta # None)
          => ShouldMaterialize(fs.manifest, DeltaBytes(delta))
    /\ UNCHANGED vars

\* try_save_delta up to its first write.
TrySaveDelta(delta) ==
    /\ pc = "idle"
    /\ fs.manifest # None
    /\ ~ShouldMaterialize(fs.manifest, DeltaBytes(delta))
    /\ NextGeneration \in Generations
    /\ call' = [op |-> "delta", arg |-> delta]
    /\ pc' = "segment"
    /\ answered' = None
    /\ UNCHANGED <<fs, safe, dirSafe, faults>>

\* save up to its first write.
SaveFull(state) ==
    /\ pc = "idle"
    /\ NextGeneration \in Generations
    /\ call' = [op |-> "full", arg |-> state]
    /\ pc' = "segment"
    /\ answered' = None
    /\ UNCHANGED <<fs, safe, dirSafe, faults>>

\* write_atomic of the segment, up to the rename.
WriteSegment ==
    /\ pc = "segment"
    /\ fs' = IF call.op = "delta" THEN [fs EXCEPT !.delta[NextGeneration] = call.arg]
                                  ELSE [fs EXCEPT !.base[NextGeneration] = call.arg]
    /\ pc' = "segment_sync"
    /\ UNCHANGED <<safe, dirSafe, call, answered, faults>>

\* Syncing the store directory makes every rename and removal in it durable.
SyncStore ==
    /\ safe' = [fs EXCEPT !.legacy = safe.legacy]
    /\ dirSafe' = (dirSafe \/ OrderedMetadata)
    /\ UNCHANGED fs

SyncSegment ==
    /\ pc = "segment_sync"
    /\ SyncStore
    /\ pc' = "publish"
    /\ UNCHANGED <<call, answered, faults>>

NewManifest ==
    IF call.op = "delta"
    THEN [fs.manifest EXCEPT !.current = NextGeneration,
                             !.deltaBytes = @ + DeltaBytes(call.arg)]
    ELSE [base |-> NextGeneration, baseBytes |-> BaseBytes(call.arg),
          current |-> NextGeneration, deltaBytes |-> 0]

\* publish_manifest_version, up to the rename.
PublishManifest ==
    /\ pc = "publish"
    /\ fs' = [fs EXCEPT !.manifest = NewManifest]
    /\ pc' = "publish_sync"
    /\ UNCHANGED <<safe, dirSafe, call, answered, faults>>

\* The call answers Ok: what load() returns is now promised.
AnswerOk ==
    /\ pc' = "idle"
    /\ call' = NoCall
    /\ answered' = Load(fs)
    /\ UNCHANGED faults

\* Mutant: Ok is answered before the directory is synced.
AnswerBeforeSync ==
    /\ pc = "publish_sync"
    /\ UNCHANGED <<fs, safe, dirSafe>>
    /\ IF call.op = "delta" THEN AnswerOk
       ELSE pc' = "cleanup" /\ UNCHANGED <<call, answered, faults>>

SyncManifest ==
    /\ pc = "publish_sync"
    /\ SyncStore
    /\ IF call.op = "delta" THEN AnswerOk
       ELSE pc' = "cleanup" /\ UNCHANGED <<call, answered, faults>>

\* Mutant: obsolete segments go before the new manifest is durable.
RemoveTooEarly ==
    /\ pc \in {"publish_sync", "cleanup"} /\ call.op = "full"
    /\ \/ \E g \in Generations \ {fs.manifest.base} :
            fs.base[g] # None /\ fs' = [fs EXCEPT !.base[g] = None]
       \/ \E g \in Generations : fs.delta[g] # None /\ fs' = [fs EXCEPT !.delta[g] = None]
       \/ fs.legacy # None /\ fs' = [fs EXCEPT !.legacy = None]
    /\ UNCHANGED <<safe, dirSafe, pc, call, answered, faults>>

\* cleanup_after_full_materialization: one removal.
RemoveObsolete ==
    /\ pc = "cleanup"
    /\ \/ \E g \in Generations \ {fs.manifest.base} :
            fs.base[g] # None /\ fs' = [fs EXCEPT !.base[g] = None]
       \/ \E g \in Generations : fs.delta[g] # None /\ fs' = [fs EXCEPT !.delta[g] = None]
       \/ fs.legacy # None /\ fs' = [fs EXCEPT !.legacy = None]
    /\ UNCHANGED <<safe, dirSafe, pc, call, answered, faults>>

\* Its end.  Removals that failed and a failed final sync are not errors.
FinishCleanup ==
    /\ pc = "cleanup"
    /\ SyncStore \/ UNCHANGED <<fs, safe, dirSafe>>
    /\ AnswerOk

(***************************************************************************)
(* Errors, the end of the process, power loss.                             *)
(***************************************************************************)
Fault ==
    /\ faults < MaxFaults
    /\ faults' = faults + 1

\* An operation of write_atomic fails: Err.  The rename may have happened.
FailCall ==
    /\ Fault
    /\ pc \in {"segment", "segment_sync", "publish", "publish_sync"}
    /\ pc' = "idle"
    /\ call' = NoCall
    /\ UNCHANGED <<fs, safe, dirSafe, answered>>

\* The process stops; the files stay as they are seen.
Stop ==
    /\ Fault
    /\ pc # "idle"
    /\ pc' = "idle"
    /\ call' = NoCall
    /\ UNCHANGED <<fs, safe, dirSafe, answered>>

\* The kernel writes the parent directory back in its own time.
WriteBack ==
    /\ fs.base # NoFiles
    /\ ~dirSafe
    /\ dirSafe' = TRUE
    /\ UNCHANGED <<fs, safe, pc, call, answered, faults>>

\* Functions that agree at each point with one of two.
Mixed(f, g) ==
    {[x \in DOMAIN f |-> IF x \in A THEN f[x] ELSE g[x]] :
        A \in SUBSET {x \in DOMAIN f : f[x] # g[x]}}

\* What a power loss may leave: of every rename and removal that no directory
\* sync followed, either all or nothing; of a store directory whose own entry
\* was never written, nothing.
Outcomes ==
    [manifest : {fs.manifest, safe.manifest},
     base     : Mixed(fs.base, safe.base),
     delta    : Mixed(fs.delta, safe.delta),
     legacy   : {fs.legacy, safe.legacy}]
    \cup
    IF dirSafe THEN {}
    ELSE [manifest : {None}, base : {NoFiles}, delta : {NoFiles},
          legacy : {fs.legacy, safe.legacy}]

PowerLoss ==
    /\ Fault
    /\ fs' \in Outcomes
    /\ safe' = fs'
    /\ dirSafe' = (fs'.manifest # None)
    /\ pc' = "idle"
    /\ call' = NoCall
    /\ UNCHANGED answered

Init ==
    /\ \E old \in States \cup {None} :
         fs = [manifest |-> None, base |-> NoFiles, delta |-> NoFiles, legacy |-> old]
    /\ safe = fs
    /\ dirSafe = FALSE
    /\ pc = "idle"
    /\ call = NoCall
    /\ answered = None
    /\ faults = 0

Next ==
    \/ \E d \in Deltas \cup {None} : NothingWritten(d)
    \/ \E d \in Deltas : TrySaveDelta(d)
    \/ \E s \in States : SaveFull(s)
    \/ WriteSegment
    \/ SyncSegment
    \/ PublishManifest
    \/ SyncManifest
    \/ RemoveObsolete
    \/ FinishCleanup
    \/ FailCall
    \/ Stop
    \/ WriteBack
    \/ PowerLoss

Spec == Init /\ [][Next]_vars

(***************************************************************************)
(* Properties.                                                             *)
(***************************************************************************)
\* Once save or try_save_delta has answered Ok, and until the next call, every
\* power loss leaves exactly the state that was saved.
SavedSurvivesPowerLoss ==
    answered # None => \A f \in Outcomes : Load(f) = answered

\* The deltas to replay stay fewer than MAX_COMMITTED_DELTAS and smaller than
\* the base, across failed calls and recoveries: load() is linear in the base.
ChainIsShort ==
    \A f \in Outcomes : f.manifest # None =>
        /\ f.manifest.current - f.manifest.base <= MaxDeltas
        /\ f.manifest.deltaBytes < f.manifest.baseBytes

\* What load() may return after a power loss.
Kept == {Load(f) : f \in Outcomes}

Backend == INSTANCE AtomicBackend WITH
    States <- States \cup {None},
    shown  <- Load(fs),
    kept   <- Kept,
    done   <- pc \in {"publish_sync", "cleanup"}

\* The files implement the atomic backend the Persistence trait promises.
ImplementsAtomicBackend == Backend!Spec
==============================================================================
