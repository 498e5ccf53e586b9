----------------------------- MODULE ReplayFilter -----------------------------
(***************************************************************************)
(* The receiver's replay filter and the senders' counters, over a network  *)
(* that loses, delays, duplicates and reorders datagrams.  Senders crash   *)
(* and restart, which forgets their counters; replay state expires, and    *)
(* the number of senders tracked is bounded.                               *)
(*                                                                         *)
(* A header is minted in one step.  A wall clock may step back by up to    *)
(* Backstep, and a restart outlasts such a step.                           *)
(***************************************************************************)
EXTENDS Wire, Integers, FiniteSets

CONSTANTS
    Senders,
    Window,      \* WINDOW_SIZE
    Freshness,   \* freshness_window
    MaxSenders,  \* max_senders
    Backstep,
    MaxSeq, MaxTime, MaxRuns, MaxSent  \* bounds

ASSUME FilterAssumption ==
    /\ IsFiniteSet(Senders)
    /\ Window \in Nat \ {0} /\ MaxRuns \in Nat \ {0}
    /\ {Freshness, MaxSenders, Backstep, MaxSeq, MaxTime, MaxSent} \subseteq Nat

Datagrams == [sender : Senders, run : 1..MaxRuns, seq : 1..MaxSeq, stamp : 0..MaxTime]

\* PeerState; the bitmap is the set of offsets behind max_seq that are marked.
PeerStates == [max_seq : 1..MaxSeq, stamp_at_max : 0..MaxTime,
               max_stamp_seen : 0..MaxTime, bitmap : SUBSET (0..(Window - 1))]

ASSUME NoState == None \notin PeerStates

VARIABLES
    now,        \* physical time
    run,        \* how many times each sender was started
    seq,        \* SenderCounter.seq
    floor,      \* SenderCounter.stamp_floor
    sent,       \* datagrams ever sent
    peers,      \* the filter's map
    accepted    \* datagrams the filter accepted

filterVars == <<now, run, seq, floor, sent, peers, accepted>>

\* Counters stay within their bounds, and the bitmap of a sender within its window.
TypeOK ==
    /\ now \in 0..MaxTime
    /\ run \in [Senders -> 1..MaxRuns]
    /\ seq \in [Senders -> 1..(MaxSeq + 1)]
    /\ floor \in [Senders -> 0..MaxTime]
    /\ sent \in SUBSET Datagrams
    /\ peers \in [Senders -> PeerStates \cup {None}]
    /\ accepted \in SUBSET sent

Larger(a, b) == IF a > b THEN a ELSE b

Age(stamp, time) == Larger(time - stamp, 0)

(***************************************************************************)
(* The sender.                                                             *)
(***************************************************************************)
NextStamp(p, physical) == Larger(floor[p], physical)

Send(p) ==
    /\ seq[p] <= MaxSeq /\ Cardinality(sent) < MaxSent
    /\ \E physical \in Larger(now - Backstep, 0)..now :
         LET stamp == NextStamp(p, physical)
         IN  /\ floor' = [floor EXCEPT ![p] = stamp]
             /\ sent' = sent \cup {[sender |-> p, run |-> run[p],
                                    seq |-> seq[p], stamp |-> stamp]}
    /\ seq' = [seq EXCEPT ![p] = @ + 1]
    /\ UNCHANGED <<now, run, peers, accepted>>

RestartSender(p) ==
    /\ run[p] < MaxRuns
    /\ now > floor[p] + Backstep
    /\ run' = [run EXCEPT ![p] = @ + 1]
    /\ seq' = [seq EXCEPT ![p] = 1]
    /\ floor' = [floor EXCEPT ![p] = 0]
    /\ UNCHANGED <<now, sent, peers, accepted>>

(***************************************************************************)
(* PeerState::accept: the new state, or None when the datagram is dropped. *)
(***************************************************************************)
NewState(s, t) ==
    [max_seq |-> s, stamp_at_max |-> t, max_stamp_seen |-> t, bitmap |-> {0}]

\* SlidingBitmap::advance
Advance(bitmap, delta) == {0} \cup {i \in delta..(Window - 1) : i - delta \in bitmap}

Ahead(st, s, t) ==
    IF t < st.max_stamp_seen THEN None
    ELSE [max_seq |-> s, stamp_at_max |-> t, max_stamp_seen |-> Larger(st.max_stamp_seen, t),
          bitmap |-> Advance(st.bitmap, s - st.max_seq)]

Reset(st, s, t) ==
    [max_seq |-> s, stamp_at_max |-> t, max_stamp_seen |-> Larger(st.max_stamp_seen, t),
     bitmap |-> {0}]

\* MUTANT of Behind: a restarted sender is taken for a regression.
BehindWithoutRestart(st, s, t) ==
    IF st.max_seq - s >= Window \/ st.max_seq - s \in st.bitmap THEN None
    ELSE [st EXCEPT !.bitmap = @ \cup {st.max_seq - s}]

\* MUTANT of Behind: a datagram behind max_seq is accepted without being marked.
BehindUnmarked(st, s, t) ==
    IF t > st.stamp_at_max THEN Reset(st, s, t)
    ELSE IF st.max_seq - s >= Window \/ st.max_seq - s \in st.bitmap THEN None
    ELSE st

Behind(st, s, t) ==
    IF t > st.stamp_at_max THEN Reset(st, s, t)
    ELSE IF st.max_seq - s >= Window \/ st.max_seq - s \in st.bitmap THEN None
    ELSE [st EXCEPT !.bitmap = @ \cup {st.max_seq - s}]

Accept(st, s, t) == IF s > st.max_seq THEN Ahead(st, s, t) ELSE Behind(st, s, t)

(***************************************************************************)
(* check_and_record_sender.                                                *)
(***************************************************************************)
Fresh(stamp) == Age(stamp, now) <= Freshness /\ Age(now, stamp) <= Freshness

Alive(p) == peers[p] # None /\ Age(peers[p].stamp_at_max, now) <= Freshness

Record(d, state, kept) ==
    /\ peers' = [p \in Senders |-> IF p = d.sender THEN state
                                   ELSE IF p \in kept THEN peers[p] ELSE None]
    /\ accepted' = accepted \cup {d}
    /\ UNCHANGED <<now, run, seq, floor, sent>>

Tracked == {p \in Senders : peers[p] # None}

ReceiveKnown(d) ==
    /\ Fresh(d.stamp) /\ Alive(d.sender)
    /\ LET state == Accept(peers[d.sender], d.seq, d.stamp)
       IN  state # None /\ Record(d, state, Senders)

\* A sender without live state, while there is room.
ReceiveNew(d) ==
    /\ Fresh(d.stamp) /\ ~Alive(d.sender)
    /\ Cardinality(Tracked \ {d.sender}) < MaxSenders
    /\ Record(d, NewState(d.seq, d.stamp), Senders)

Others(d) == {p \in Senders \ {d.sender} : Alive(p)}

\* MUTANT of ReceiveAfterPurge: room is made by dropping everyone.
ReceiveAfterEvictingAll(d) ==
    /\ Fresh(d.stamp) /\ ~Alive(d.sender)
    /\ Cardinality(Tracked \ {d.sender}) >= MaxSenders
    /\ Record(d, NewState(d.seq, d.stamp), {})

\* At capacity stale state is purged first ...
ReceiveAfterPurge(d) ==
    /\ Fresh(d.stamp) /\ ~Alive(d.sender)
    /\ Cardinality(Tracked \ {d.sender}) >= MaxSenders
    /\ Cardinality(Others(d)) < MaxSenders
    /\ Record(d, NewState(d.seq, d.stamp), Others(d))

\* ... also when the datagram is then dropped for want of room.
RefuseAtCapacity(d) ==
    /\ Fresh(d.stamp) /\ ~Alive(d.sender)
    /\ Cardinality(Tracked \ {d.sender}) >= MaxSenders
    /\ Cardinality(Others(d)) >= MaxSenders
    /\ peers' = [p \in Senders |-> IF p \in Others(d) THEN peers[p] ELSE None]
    /\ UNCHANGED <<now, run, seq, floor, sent, accepted>>

\* A datagram that is out of the freshness window, or that accept drops.
DropDatagram(d) ==
    /\ ~Fresh(d.stamp) \/ (Alive(d.sender)
                             /\ Accept(peers[d.sender], d.seq, d.stamp) = None)
    /\ UNCHANGED filterVars

AcceptDatagram(d) == ReceiveKnown(d) \/ ReceiveNew(d) \/ ReceiveAfterPurge(d)

PassTime ==
    /\ now < MaxTime
    /\ now' = now + 1
    /\ UNCHANGED <<run, seq, floor, sent, peers, accepted>>

FilterInit ==
    /\ now = 0
    /\ run = [p \in Senders |-> 1]
    /\ seq = [p \in Senders |-> 1]
    /\ floor = [p \in Senders |-> 0]
    /\ sent = {}
    /\ peers = [p \in Senders |-> None]
    /\ accepted = {}

FilterNext ==
    \/ \E p \in Senders : Send(p) \/ RestartSender(p)
    \/ \E d \in sent : AcceptDatagram(d) \/ RefuseAtCapacity(d) \/ DropDatagram(d)
    \/ PassTime

FilterSpec == FilterInit /\ [][FilterNext]_filterVars

(***************************************************************************)
(* Properties.                                                             *)
(***************************************************************************)
\* accept never lets the two stamps of a PeerState part: the stamp at max_seq is
\* the highest one accepted, so detecting a restart and guarding against its tail
\* use the same mark.
StampAtMaxIsHighest ==
    \A p \in Senders : peers[p] # None => peers[p].stamp_at_max = peers[p].max_stamp_seen

\* The filter remembers every datagram it accepted from a sender's current run, as
\* long as a copy of it would still be fresh: a copy is behind the window or marked.
RemembersCurrentRun ==
    \A d \in accepted :
        (d.run = run[d.sender] /\ Age(d.stamp, now) <= Freshness) =>
            /\ Alive(d.sender)
            /\ LET st == peers[d.sender]
               IN  /\ d.seq <= st.max_seq
                   /\ d.stamp <= st.stamp_at_max
                   /\ st.max_seq - d.seq >= Window \/ st.max_seq - d.seq \in st.bitmap

\* A datagram of a sender's current run is accepted at most once, whatever the
\* network duplicates and reorders: a copy is stale, or accept drops it.
AcceptedOncePerRun ==
    \A d \in accepted : (d.run = run[d.sender] /\ Fresh(d.stamp)) =>
        Alive(d.sender) /\ Accept(peers[d.sender], d.seq, d.stamp) = None

\* State that is still fresh is never dropped or replaced to admit another sender,
\* and the high-water stamp of a live sender never goes back.
FreshStateIsKept ==
    [][\A p \in Senders : Alive(p) =>
          peers'[p] # None /\ peers'[p].max_stamp_seen >= peers[p].max_stamp_seen]_filterVars

\* A sender's datagrams are not lost to its own restart: the first of a new run is
\* accepted on arrival, whatever the filter recorded of the old run.
RestartIsAdmitted ==
    \A p \in Senders : Alive(p) =>
        \A d \in sent : (d.sender = p /\ d.run = run[p] /\ Fresh(d.stamp)
                           /\ ~\E e \in accepted : e.sender = p /\ e.run = run[p])
                             => Accept(peers[p], d.seq, d.stamp) # None
==============================================================================
