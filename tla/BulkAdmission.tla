---------------------------- MODULE BulkAdmission -----------------------------
(***************************************************************************)
(* Admission of bulk work: a rate limit per source and one for all of      *)
(* them, and a growing delay for a comparison that is repeated unchanged.  *)
(*                                                                         *)
(* Time is counted in ticks, Second ticks to a second.  The constants of   *)
(* the code are durations; here the longer ones are parameters.            *)
(***************************************************************************)
EXTENDS Bulk, Integers, Sequences

CONSTANTS
    Fingerprints,  \* comparison fingerprints
    Second,        \* PER_PEER_REFILL_INTERVAL and REPEATED_WORK_RETRY_MIN
    Burst,         \* PER_PEER_BULK_BURST
    GlobalRate,    \* max_concurrent_bulk_dumps
    RetryMax,      \* REPEATED_WORK_RETRY_MAX
    Retention,     \* RECENT_WORK_RETENTION
    MaxTime        \* bound

ASSUME AdmissionAssumption ==
    /\ Second \in Nat \ {0} /\ Burst \in Nat \ {0} /\ GlobalRate \in Nat
    /\ {RetryMax, Retention, MaxTime} \subseteq Nat
    /\ Second <= RetryMax /\ RetryMax <= Retention

ASSUME NoInstant == None \notin Int

GlobalInterval == IF GlobalRate = 0 THEN Second ELSE Second \div GlobalRate

GlobalBurst == GlobalRate * Burst

\* RecentWork
Works == [fingerprint : Fingerprints, retry_after : Nat,
          retry_delay : Second..RetryMax, forget_after : Nat]

VARIABLES
    now,
    peers,       \* theoretical arrival time per source
    global_tat,
    recent,      \* recent_dated and recent_value
    granted,     \* when each source was admitted
    all,         \* when anyone was admitted
    streak       \* when the last comparison was admitted, unchanged and unforgotten

admissionVars == <<now, peers, global_tat, recent, granted, all, streak>>

Max(a, b) == IF a > b THEN a ELSE b

Min(a, b) == IF a < b THEN a ELSE b

Last(s) == s[Len(s)]

(***************************************************************************)
(* try_admit_at.                                                           *)
(***************************************************************************)
\* What is left of the state once expired entries are discarded.
Live(tat) == IF tat # None /\ tat > now THEN tat ELSE None

LiveWork(work) == IF work # None /\ work.forget_after > now THEN work ELSE None

OrNow(tat) == IF tat = None THEN now ELSE tat

\* MUTANT of GcraAllows: the allowance is one interval too large.
GcraAllowsOneMore(tat, interval, burst) == tat <= now + interval * burst

GcraAllows(tat, interval, burst) == tat <= now + interval * Max(burst - 1, 0)

Repeated(c, p, f) ==
    LET work == LiveWork(recent[c][p])
    IN  work # None /\ work.fingerprint = f /\ work.retry_after > now

Admissible(c, p, f) ==
    /\ GlobalRate # 0
    /\ ~Repeated(c, p, f)
    /\ GcraAllows(OrNow(Live(peers[p])), Second, Burst)
    /\ GcraAllows(OrNow(Live(global_tat)), GlobalInterval, GlobalBurst)

\* MUTANT of RetryDelay: the delay never grows.
RetryDelayFlat(work, f) == Second

RetryDelay(work, f) ==
    IF work # None /\ work.fingerprint = f THEN Min(2 * work.retry_delay, RetryMax) ELSE Second

Purge ==
    /\ peers' = [p \in Peers |-> Live(peers[p])]
    /\ global_tat' = Live(global_tat)
    /\ recent' = [c \in Channels |-> [p \in Peers |-> LiveWork(recent[c][p])]]

\* MUTANT of NextTat: arrivals are not accumulated.
NextTatForgetful(tat, interval) == now + interval

NextTat(tat, interval) == Max(OrNow(Live(tat)), now) + interval

\* MUTANT of Refuse: a refused attempt is charged.
RefuseCharges(c, p, f) ==
    /\ ~Admissible(c, p, f)
    /\ peers' = [peers EXCEPT ![p] = NextTat(@, Second)]
    /\ UNCHANGED <<now, global_tat, recent, granted, all, streak>>

Refuse(c, p, f) ==
    /\ ~Admissible(c, p, f)
    /\ IF GlobalRate = 0 THEN UNCHANGED <<peers, global_tat, recent>> ELSE Purge
    /\ UNCHANGED <<now, granted, all, streak>>

TryAdmit(c, p, f) ==
    /\ Admissible(c, p, f)
    /\ peers' = [q \in Peers |-> IF q = p THEN NextTat(peers[p], Second) ELSE Live(peers[q])]
    /\ global_tat' = NextTat(global_tat, GlobalInterval)
    /\ LET work == LiveWork(recent[c][p])
           delay == RetryDelay(work, f)
       IN  /\ recent' = [d \in Channels |-> [q \in Peers |->
                           IF d = c /\ q = p
                             THEN [fingerprint |-> f, retry_after |-> now + delay,
                                   retry_delay |-> delay, forget_after |-> now + Retention]
                             ELSE LiveWork(recent[d][q])]]
           /\ streak' = [streak EXCEPT ![c][p] =
                           IF work # None /\ work.fingerprint = f THEN Append(@, now) ELSE <<now>>]
    /\ granted' = [granted EXCEPT ![p] = Append(@, now)]
    /\ all' = Append(all, now)
    /\ UNCHANGED now

Tick ==
    /\ now < MaxTime
    /\ now' = now + 1
    /\ UNCHANGED <<peers, global_tat, recent, granted, all, streak>>

AdmissionInit ==
    /\ now = 0
    /\ peers = [p \in Peers |-> None]
    /\ global_tat = None
    /\ recent = [c \in Channels |-> [p \in Peers |-> None]]
    /\ granted = [p \in Peers |-> <<>>]
    /\ all = <<>>
    /\ streak = [c \in Channels |-> [p \in Peers |-> <<>>]]

AdmissionNext ==
    \/ \E c \in Channels, p \in Peers, f \in Fingerprints : TryAdmit(c, p, f) \/ Refuse(c, p, f)
    \/ Tick

AdmissionSpec == AdmissionInit /\ [][AdmissionNext]_admissionVars

(***************************************************************************)
(* Properties.                                                             *)
(***************************************************************************)
\* Rate accounts are instants, a repetition delay stays between its floor and its cap.
TypeOK ==
    /\ now \in 0..MaxTime
    /\ peers \in [Peers -> Nat \cup {None}]
    /\ global_tat \in Nat \cup {None}
    /\ recent \in [Channels -> [Peers -> Works \cup {None}]]
    /\ granted \in [Peers -> Seq(Nat)]
    /\ all \in Seq(Nat)
    /\ streak \in [Channels -> [Peers -> Seq(Nat)]]

\* In every stretch of time, at most a burst plus one per interval.
Paced(times, interval, burst) ==
    \A i, j \in DOMAIN times : i <= j =>
        (j - i + 1) * interval <= burst * interval + (times[j] - times[i])

\* No source gets more than its burst and its rate, although its state is discarded
\* as soon as it has no debt and however refused attempts fall in between.
PeerIsPaced == \A p \in Peers : Paced(granted[p], Second, Burst)

\* Nor do all sources together.
AllArePaced == Paced(all, GlobalInterval, GlobalBurst)

\* The limits never refuse more than they must: a source that was quiet for a second
\* may start new work as soon as nobody was admitted for one global interval.
QuietIsAdmitted ==
    \A c \in Channels, p \in Peers, f \in Fingerprints :
        (/\ GlobalRate # 0 /\ ~Repeated(c, p, f)
         /\ granted[p] # <<>> => now >= Last(granted[p]) + Second
         /\ all # <<>> => now >= Last(all) + GlobalInterval)
           => Admissible(c, p, f)

\* An unchanged comparison is admitted again only after a second, then two, four, up
\* to the cap, as long as it is not forgotten.
RepetitionSlowsDown ==
    \A c \in Channels, p \in Peers :
        LET times == streak[c][p]
        IN  \A i \in 1..(Len(times) - 1) :
              times[i + 1] - times[i] >= Min(Second * 2^(i - 1), RetryMax)
==============================================================================
