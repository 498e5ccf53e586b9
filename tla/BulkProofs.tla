------------------------------ MODULE BulkProofs ------------------------------
(***************************************************************************)
(* Bulk dumps and their admission: the rate limits hold for every burst,   *)
(* rate and retention and refuse no more than they must; slots are         *)
(* accounted for and no range is forgotten, for any peers, channels, keys, *)
(* budget and number of comparisons.                                       *)
(***************************************************************************)
EXTENDS BulkAdmission, BulkDump, FiniteSetTheorems, TLAPS

(***************************************************************************)
(* Admission: the inductive invariants and the rate limits.                *)
(***************************************************************************)
\* The arrival time that GCRA computes with: one that is past counts as now, so
\* discarding it forgets no debt.
Tat(t, time) == IF t = None THEN time ELSE Max(t, time)

\* An arrival time accounts for every admission: each one moved it by an interval.
\* It is at most a burst ahead, of the present and of the last admission.
Accounts(times, tat, time, interval, burst) ==
    /\ \A i \in DOMAIN times :
         /\ times[i] <= time
         /\ times[i] + (Len(times) - i + 1) * interval <= tat
    /\ time <= tat
    /\ tat <= time + burst * interval
    /\ times # <<>> => tat <= Max(time, Last(times) + burst * interval)
    /\ times = <<>> => tat = time
    /\ Paced(times, interval, burst)

RateInv ==
    /\ now \in Nat
    /\ peers \in [Peers -> Nat \cup {None}]
    /\ global_tat \in Nat \cup {None}
    /\ granted \in [Peers -> Seq(Nat)]
    /\ all \in Seq(Nat)
    /\ \A p \in Peers : Accounts(granted[p], Tat(peers[p], now), now, Second, Burst)
    /\ Accounts(all, Tat(global_tat, now), now, GlobalInterval, GlobalBurst)

\* The constants, in the form the arithmetic steps use.
LEMMA Constants ==
    /\ Second \in Nat /\ Second > 0 /\ Burst \in Nat /\ Burst >= 1 /\ MaxTime \in Nat
    /\ GlobalInterval \in Nat /\ GlobalBurst \in Nat
    /\ GlobalRate # 0 => GlobalBurst >= 1
  <1>1. /\ Second \in Nat /\ Second > 0 /\ Burst \in Nat /\ Burst >= 1 /\ MaxTime \in Nat
        /\ GlobalRate \in Nat
    BY AdmissionAssumption
  <1>2. GlobalInterval \in Nat
    BY <1>1 DEF GlobalInterval
  <1>3. GlobalBurst \in Nat /\ (GlobalRate # 0 => GlobalBurst >= 1)
    BY <1>1 DEF GlobalBurst
  <1> QED BY <1>1, <1>2, <1>3, Zenon

\* try_admit_at discards arrival times that are past; Tat does not notice.
LEMMA LiveTat ==
    ASSUME now \in Nat, NEW t \in Nat \cup {None}
    PROVE  /\ Tat(t, now) \in Nat /\ Tat(t, now) >= now
           /\ Live(t) \in Nat \cup {None}
           /\ OrNow(Live(t)) = Tat(t, now)
           /\ Tat(Live(t), now) = Tat(t, now)
  <1>1. None \notin Nat
    BY NoInstant
  <1>2. CASE t = None
    <2>1. Live(t) = None /\ Tat(t, now) = now
      BY <1>2, Zenon DEF Live, Tat
    <2> QED BY <1>2, <2>1 DEF OrNow
  <1>3. CASE t \in Nat /\ t > now
    <2>1. Live(t) = t /\ t # None
      BY <1>1, <1>3, Zenon DEF Live
    <2>2. Tat(t, now) = t
      BY <1>3, <2>1, Zenon DEF Tat, Max
    <2> QED BY <1>3, <2>1, <2>2 DEF OrNow
  <1>4. CASE t \in Nat /\ ~(t > now)
    <2>1. Live(t) = None /\ t # None
      BY <1>1, <1>4, Zenon DEF Live
    <2>2. Tat(t, now) = now /\ Tat(None, now) = now
      BY <1>4, <2>1, Zenon DEF Tat, Max
    <2> QED BY <1>4, <2>1, <2>2 DEF OrNow
  <1> QED BY <1>2, <1>3, <1>4, Zenon

\* What the accounts need of multiplication.
LEMMA Products ==
    ASSUME NEW a \in Nat, NEW b \in Nat
    PROVE  a * b \in Nat /\ b * a = a * b /\ (a + 1) * b = a * b + b
  OBVIOUS

\* What they need of addition: an instant a, x before t, moves with t.
LEMMA Later ==
    ASSUME NEW a \in Nat, NEW x \in Nat, NEW t \in Nat, NEW d \in Nat, a + x <= t
    PROVE  a + (x + d) <= t + d
  OBVIOUS

\* Admitting under the limit keeps the account.
LEMMA Grant ==
    ASSUME NEW time \in Nat, NEW times \in Seq(Nat), NEW t \in Nat, NEW interval \in Nat,
           NEW burst \in Nat, burst >= 1,
           Accounts(times, t, time, interval, burst),
           t <= time + interval * (burst - 1)
    PROVE  Accounts(Append(times, time), t + interval, time, interval, burst)
  <1> DEFINE new == Append(times, time)
             n == Len(times)
  <1>1. /\ n \in Nat /\ new \in Seq(Nat) /\ Len(new) = n + 1 /\ DOMAIN times = 1..n
        /\ DOMAIN new = 1..(n + 1) /\ new # <<>> /\ Last(new) = time
        /\ new[n + 1] = time /\ \A i \in 1..n : new[i] = times[i] /\ times[i] \in Nat
    BY SMTT(30) DEF Last
  <1> HIDE DEF new
  <1>2. t + interval <= time + burst * interval
    OBVIOUS
  <1>3. \A i \in 1..(n + 1) : /\ new[i] <= time /\ new[i] \in Nat
                              /\ new[i] + ((n + 1) - i + 1) * interval <= t + interval
    <2> TAKE i \in 1..(n + 1)
    <2>1. CASE i = n + 1
      <3>1. ((n + 1) - i + 1) * interval = interval
        BY <1>1, <2>1
      <3>2. new[i] = time /\ time <= t
        BY <1>1, <2>1, Zenon DEF Accounts
      <3> QED BY <3>1, <3>2
    <2>2. CASE i \in 1..n
      <3> DEFINE x == (n - i + 1) * interval
      <3>1. n - i + 1 \in Nat /\ (n + 1) - i + 1 = (n - i + 1) + 1
        BY <1>1, <2>2
      <3>2. x \in Nat /\ ((n + 1) - i + 1) * interval = x + interval
        BY <3>1, Products
      <3>3. times[i] <= time /\ times[i] + x <= t
        BY <1>1, <2>2, Zenon DEF Accounts
      <3>4. new[i] = times[i] /\ times[i] \in Nat
        BY <1>1, <2>2, Zenon
      <3> HIDE DEF x
      <3>5. times[i] + (x + interval) <= t + interval
        BY <3>2, <3>3, <3>4, Later, Zenon
      <3> QED BY <3>2, <3>3, <3>4, <3>5, Zenon
    <2> QED BY <1>1, <2>1, <2>2
  <1>4. Paced(new, interval, burst)
    <2> SUFFICES ASSUME NEW i \in 1..(n + 1), NEW j \in 1..(n + 1), i <= j
                 PROVE  (j - i + 1) * interval <= burst * interval + (new[j] - new[i])
      BY <1>1, Zenon DEF Paced
    <2>1. CASE j = n + 1
      <3>1. new[i] + ((n + 1) - i + 1) * interval <= time + burst * interval
        <4>1. ((n + 1) - i + 1) * interval \in Nat /\ burst * interval \in Nat
          BY <1>1
        <4> QED BY <1>2, <1>3, <4>1, SMTT(30)
      <3>2. ((n + 1) - i + 1) * interval \in Nat /\ burst * interval \in Nat /\ new[i] \in Nat
        BY <1>1, <1>3
      <3> QED BY <1>1, <2>1, <3>1, <3>2, SMTT(30)
    <2>2. CASE j \in 1..n
      <3>1. i \in 1..n
        BY <1>1, <2>2
      <3> QED BY <1>1, <2>2, <3>1, Zenon DEF Accounts, Paced
    <2> QED BY <1>1, <2>1, <2>2, SMTT(30)
  <1>5. time <= t + interval
    BY DEF Accounts
  <1>6. t + interval <= Max(time, Last(new) + burst * interval)
    <2>1. burst * interval \in Nat
      OBVIOUS
    <2> QED BY <1>1, <1>2, <2>1 DEF Max
  <1>7. Accounts(new, t + interval, time, interval, burst)
    BY <1>1, <1>2, <1>3, <1>4, <1>5, <1>6, Zenon DEF Accounts
  <1> QED BY <1>7, Zenon DEF new

\* Time passing only shortens debts.
LEMMA Passing ==
    ASSUME NEW time \in Nat, NEW times \in Seq(Nat), NEW t \in Nat \cup {None},
           NEW interval \in Nat, NEW burst \in Nat,
           Accounts(times, Tat(t, time), time, interval, burst)
    PROVE  Accounts(times, Tat(t, time + 1), time + 1, interval, burst)
  <1> DEFINE a == Tat(t, time)
             b == Tat(t, time + 1)
  <1>1. /\ a \in Nat /\ b \in Nat /\ a <= b /\ time + 1 <= b
        /\ b = time + 1 \/ b = a
    <2>1. CASE t = None
      BY <2>1 DEF Tat
    <2>2. CASE t \in Nat
      BY <2>2, NoInstant DEF Tat, Max
    <2> QED BY <2>1, <2>2, Zenon
  <1> HIDE DEF a, b
  <1>2. burst * interval \in Nat /\ Len(times) \in Nat /\ DOMAIN times = 1..Len(times)
    OBVIOUS
  <1>3. \A i \in DOMAIN times : times[i] <= time + 1
                                  /\ times[i] + (Len(times) - i + 1) * interval <= b
    <2> TAKE i \in DOMAIN times
    <2> DEFINE x == (Len(times) - i + 1) * interval
    <2>1. times[i] <= time /\ times[i] + x <= a
      BY Zenon DEF Accounts, a
    <2>2. times[i] \in Nat /\ x \in Nat
      BY <1>2, SMTT(30)
    <2> HIDE DEF x
    <2>3. times[i] <= time + 1 /\ times[i] + x <= b
      BY <1>1, <2>1, <2>2, SMTT(30)
    <2> QED BY <2>3, Zenon DEF x
  <1>4. b <= time + 1 + burst * interval
    BY <1>1, <1>2 DEF Accounts, a
  <1>5. ASSUME times # <<>>
        PROVE  b <= Max(time + 1, Last(times) + burst * interval)
    <2>1. Last(times) \in Nat
      BY <1>2, <1>5 DEF Last
    <2>2. a <= Max(time, Last(times) + burst * interval)
      BY <1>5, Zenon DEF Accounts, a
    <2> QED BY <1>1, <1>2, <2>1, <2>2, SMTT(30) DEF Max
  <1>6. times = <<>> => b = time + 1
    BY <1>1 DEF Accounts, a
  <1>7. Paced(times, interval, burst)
    BY Zenon DEF Accounts
  <1>8. Accounts(times, b, time + 1, interval, burst)
    BY <1>1, <1>3, <1>4, <1>5, <1>6, <1>7, Zenon DEF Accounts
  <1> QED BY <1>8, Zenon DEF b

\* The account moves by an interval when try_admit_at admits.
LEMMA Counted ==
    ASSUME now \in Nat, NEW times \in Seq(Nat), NEW t \in Nat \cup {None},
           NEW interval \in Nat, NEW burst \in Nat, burst >= 1,
           Accounts(times, Tat(t, now), now, interval, burst),
           GcraAllows(OrNow(Live(t)), interval, burst)
    PROVE  /\ NextTat(t, interval) \in Nat
           /\ Accounts(Append(times, now), Tat(NextTat(t, interval), now), now, interval, burst)
  <1>1. /\ Tat(t, now) \in Nat /\ Tat(t, now) >= now /\ OrNow(Live(t)) = Tat(t, now)
    BY LiveTat, Zenon
  <1>2. NextTat(t, interval) = Tat(t, now) + interval
    BY <1>1 DEF NextTat, Max
  <1>3. NextTat(t, interval) \in Nat /\ NextTat(t, interval) # None
    BY <1>1, <1>2, NoInstant
  <1>4. Tat(NextTat(t, interval), now) = Tat(t, now) + interval
    BY <1>1, <1>2, <1>3 DEF Tat, Max
  <1>5. Tat(t, now) <= now + interval * (burst - 1)
    BY <1>1 DEF GcraAllows, Max
  <1>6. Accounts(Append(times, now), Tat(t, now) + interval, now, interval, burst)
    BY <1>1, <1>5, Grant, Zenon
  <1> QED BY <1>3, <1>4, <1>6, Zenon

\* Nothing is admitted before the first attempt.
LEMMA InitRate == AdmissionInit => RateInv
  <1> SUFFICES ASSUME AdmissionInit PROVE RateInv
    OBVIOUS
  <1>1. now \in Nat /\ now = 0 /\ <<>> \in Seq(Nat) /\ Tat(None, 0) = 0
    BY DEF AdmissionInit, Tat
  <1>2. ASSUME NEW interval \in Nat, NEW burst \in Nat
        PROVE  Accounts(<<>>, 0, 0, interval, burst)
    <2>1. burst * interval \in Nat
      OBVIOUS
    <2> QED BY <2>1 DEF Accounts, Paced
  <1> QED BY <1>1, <1>2, Constants, Zenon DEF AdmissionInit, RateInv

\* Time passes.
LEMMA TickRate == RateInv /\ Tick => RateInv'
  <1> SUFFICES ASSUME RateInv, Tick PROVE RateInv'
    OBVIOUS
  <1>1. now \in Nat /\ now' = now + 1 /\ UNCHANGED <<peers, global_tat, granted, all>>
    BY Zenon DEF RateInv, Tick
  <1>2. \A p \in Peers : Accounts(granted[p], Tat(peers[p], now + 1), now + 1, Second, Burst)
    BY Passing, Constants, Zenon DEF RateInv
  <1>3. Accounts(all, Tat(global_tat, now + 1), now + 1, GlobalInterval, GlobalBurst)
    BY Passing, Constants, Zenon DEF RateInv
  <1> QED BY <1>1, <1>2, <1>3 DEF RateInv

\* An attempt is admitted.
LEMMA AdmitRate ==
    ASSUME RateInv, NEW c \in Channels, NEW p \in Peers, NEW f \in Fingerprints, TryAdmit(c, p, f)
    PROVE  RateInv'
  <1> USE DEF RateInv
  <1>1. now \in Nat /\ now' = now /\ GlobalRate # 0
    BY Zenon DEF TryAdmit, Admissible
  <1>2. /\ GcraAllows(OrNow(Live(peers[p])), Second, Burst)
        /\ GcraAllows(OrNow(Live(global_tat)), GlobalInterval, GlobalBurst)
    BY Zenon DEF TryAdmit, Admissible
  <1>3. /\ NextTat(peers[p], Second) \in Nat
        /\ Accounts(Append(granted[p], now), Tat(NextTat(peers[p], Second), now), now, Second, Burst)
    BY <1>1, <1>2, Constants, Counted, Zenon
  <1>4. /\ NextTat(global_tat, GlobalInterval) \in Nat
        /\ Accounts(Append(all, now), Tat(NextTat(global_tat, GlobalInterval), now), now,
                    GlobalInterval, GlobalBurst)
    BY <1>1, <1>2, Constants, Counted, Zenon
  <1>5. \A q \in Peers : /\ Live(peers[q]) \in Nat \cup {None}
                         /\ Tat(Live(peers[q]), now) = Tat(peers[q], now)
    BY <1>1, LiveTat, Zenon
  <1>6. /\ peers' = [q \in Peers |-> IF q = p THEN NextTat(peers[p], Second) ELSE Live(peers[q])]
        /\ global_tat' = NextTat(global_tat, GlobalInterval)
        /\ granted' = [granted EXCEPT ![p] = Append(@, now)]
        /\ all' = Append(all, now)
    BY Zenon DEF TryAdmit
  <1>7. /\ peers' \in [Peers -> Nat \cup {None}] /\ global_tat' \in Nat \cup {None}
        /\ granted' \in [Peers -> Seq(Nat)] /\ all' \in Seq(Nat)
    BY <1>1, <1>3, <1>4, <1>5, <1>6
  <1>8. \A q \in Peers : Accounts(granted'[q], Tat(peers'[q], now), now, Second, Burst)
    BY <1>3, <1>5, <1>6, Zenon
  <1> QED BY <1>1, <1>4, <1>6, <1>7, <1>8, Zenon

\* An attempt is refused; expired accounts are discarded all the same.
LEMMA RefuseRate ==
    ASSUME RateInv, NEW c \in Channels, NEW p \in Peers, NEW f \in Fingerprints, Refuse(c, p, f)
    PROVE  RateInv'
  <1> USE DEF RateInv
  <1>1. now \in Nat /\ UNCHANGED <<now, granted, all>>
    BY Zenon DEF Refuse
  <1>2. CASE UNCHANGED <<peers, global_tat>>
    BY <1>1, <1>2, Zenon
  <1>3. CASE Purge
    <2>1. /\ peers' = [q \in Peers |-> Live(peers[q])]
          /\ global_tat' = Live(global_tat)
      BY <1>3, Zenon DEF Purge
    <2>2. \A q \in Peers : /\ Live(peers[q]) \in Nat \cup {None}
                           /\ Tat(Live(peers[q]), now) = Tat(peers[q], now)
      BY <1>1, LiveTat, Zenon
    <2>3. /\ Live(global_tat) \in Nat \cup {None}
          /\ Tat(Live(global_tat), now) = Tat(global_tat, now)
      BY <1>1, LiveTat, Zenon
    <2> QED BY <1>1, <2>1, <2>2, <2>3, Zenon
  <1> QED BY <1>2, <1>3, Zenon DEF Refuse

\* The accounts are kept in every reachable state.
THEOREM RateInvariance == AdmissionSpec => []RateInv
  <1>1. RateInv /\ [AdmissionNext]_admissionVars => RateInv'
    <2> SUFFICES ASSUME RateInv, [AdmissionNext]_admissionVars PROVE RateInv'
      OBVIOUS
    <2>1. CASE Tick
      BY <2>1, TickRate, Zenon
    <2>2. CASE UNCHANGED admissionVars
      BY <2>2, Zenon DEF RateInv, admissionVars
    <2> QED BY <2>1, <2>2, AdmitRate, RefuseRate, Zenon DEF AdmissionNext
  <1> QED BY <1>1, InitRate, PTL DEF AdmissionSpec

\* No source is admitted more often than its burst and rate allow.
THEOREM PeerPaced == AdmissionSpec => []PeerIsPaced
  <1>1. RateInv => PeerIsPaced
    BY Zenon DEF RateInv, Accounts, PeerIsPaced
  <1> QED BY <1>1, RateInvariance, PTL

\* All sources together are admitted no more often than the global limit allows.
THEOREM AllPaced == AdmissionSpec => []AllArePaced
  <1>1. RateInv => AllArePaced
    BY Zenon DEF RateInv, Accounts, AllArePaced
  <1> QED BY <1>1, RateInvariance, PTL

\* New work of a quiet source is never refused for its rate.
THEOREM QuietAdmitted == AdmissionSpec => []QuietIsAdmitted
  <1>1. RateInv => QuietIsAdmitted
    <2> SUFFICES ASSUME RateInv, NEW c \in Channels, NEW p \in Peers, NEW f \in Fingerprints,
                        GlobalRate # 0, ~Repeated(c, p, f),
                        granted[p] # <<>> => now >= Last(granted[p]) + Second,
                        all # <<>> => now >= Last(all) + GlobalInterval
                 PROVE  Admissible(c, p, f)
      BY Zenon DEF QuietIsAdmitted
    <2>1. ASSUME NEW times \in Seq(Nat), NEW t \in Nat \cup {None}, NEW interval \in Nat,
                 NEW burst \in Nat, burst >= 1,
                 Accounts(times, Tat(t, now), now, interval, burst),
                 times # <<>> => now >= Last(times) + interval
          PROVE  GcraAllows(OrNow(Live(t)), interval, burst)
      <3>1. now \in Nat /\ Tat(t, now) \in Nat /\ OrNow(Live(t)) = Tat(t, now)
        BY LiveTat, Zenon DEF RateInv
      <3>2. burst * interval = interval * (burst - 1) + interval /\ interval * (burst - 1) \in Nat
        <4>1. burst - 1 \in Nat /\ burst = (burst - 1) + 1
          BY <2>1
        <4> QED BY <4>1, Products
      <3>3. times # <<>> => Last(times) \in Nat
        BY DEF Last
      <3>4. Tat(t, now) <= now + interval * (burst - 1)
        <4>1. CASE times = <<>>
          BY <2>1, <3>1, <3>2, <4>1 DEF Accounts
        <4>2. CASE times # <<>>
          <5> DEFINE b == burst * interval
                     m == interval * (burst - 1)
          <5>1. b = m + interval /\ m \in Nat
            BY <3>2, Zenon
          <5>2. Tat(t, now) <= Max(now, Last(times) + b) /\ now >= Last(times) + interval
            BY <2>1, <4>2, Zenon DEF Accounts
          <5> HIDE DEF b, m
          <5>3. Tat(t, now) <= now + m
            BY <3>1, <3>3, <4>2, <5>1, <5>2, SMTT(30) DEF Max
          <5> QED BY <5>3, Zenon DEF m
        <4> QED BY <4>1, <4>2, Zenon
      <3> QED BY <2>1, <3>1, <3>4 DEF GcraAllows, Max
    <2>2. GcraAllows(OrNow(Live(peers[p])), Second, Burst)
      BY <2>1, Constants, Zenon DEF RateInv
    <2>3. GcraAllows(OrNow(Live(global_tat)), GlobalInterval, GlobalBurst)
      BY <2>1, Constants, Zenon DEF RateInv
    <2> QED BY <2>2, <2>3, Zenon DEF Admissible
  <1> QED BY <1>1, RateInvariance, PTL

(***************************************************************************)
(* Repetition.                                                             *)
(***************************************************************************)
\* The delay after the n-th admission of an unchanged comparison.
DelayAfter(n) == Min(Second * 2^(n - 1), RetryMax)

SlowedDown(times) == \A i \in 1..(Len(times) - 1) : times[i + 1] - times[i] >= DelayAfter(i)

\* What is remembered of a comparison is about the last of its admissions.
Remembers(work, times) ==
    work # None => /\ times # <<>>
                   /\ work.retry_delay = DelayAfter(Len(times))
                   /\ work.retry_after = Last(times) + work.retry_delay

RepeatInv ==
    /\ now \in Nat
    /\ streak \in [Channels -> [Peers -> Seq(Nat)]]
    /\ \A c \in Channels, p \in Peers :
         SlowedDown(streak[c][p]) /\ Remembers(recent[c][p], streak[c][p])

\* Powers of two double: the subsets of a set with one more element are twice as many.
LEMMA Doubling ==
    ASSUME NEW n \in Nat
    PROVE  2^n \in Nat /\ 2^(n + 1) = 2 * 2^n
  <1> DEFINE x == n + 1
             S == 1..n
             A == SUBSET S
             B == {T \cup {x} : T \in A}
             f == [T \in A |-> T \cup {x}]
  <1>1. /\ IsFiniteSet(S) /\ Cardinality(S) = n
        /\ IsFiniteSet(1..x) /\ Cardinality(1..x) = x
    BY FS_Interval
  <1>2. 1..x = S \cup {x} /\ x \notin S
    OBVIOUS
  <1> HIDE DEF S, x
  <1>3. /\ IsFiniteSet(A) /\ Cardinality(A) = 2^n
        /\ Cardinality(SUBSET (1..x)) = 2^x
    BY <1>1, FS_SUBSET, Zenon
  <1>4. f \in Bijection(A, B)
    <2>1. f \in [A -> B] /\ \A T \in A : f[T] = T \cup {x}
      BY Zenon
    <2> HIDE DEF f
    <2>2. ASSUME NEW T \in A, NEW U \in A, f[T] = f[U] PROVE T = U
      <3>1. T \cup {x} = U \cup {x}
        BY <2>1, <2>2, Zenon
      <3>2. x \notin T /\ x \notin U
        BY <1>2, Zenon
      <3> QED BY <3>1, <3>2
    <2>3. \A y \in B : \E T \in A : f[T] = y
      BY <2>1, Zenon
    <2> HIDE DEF A, B
    <2>4. f \in Injection(A, B)
      BY <2>1, <2>2, Zenon DEF Injection, IsInjective
    <2> QED BY <2>1, <2>3, <2>4, Zenon DEF Bijection, Surjection
  <1>5. IsFiniteSet(B) /\ Cardinality(B) = Cardinality(A)
    <2> HIDE DEF A, B, f
    <2> QED BY <1>3, <1>4, FS_Bijection, Zenon DEF ExistsBijection
  <1>6. SUBSET (1..x) = A \cup B
    <2>1. ASSUME NEW T \in SUBSET (S \cup {x}), x \in T PROVE T \in B
      <3>1. T = (T \ {x}) \cup {x} /\ T \ {x} \in A
        BY <2>1, Zenon
      <3> QED BY <3>1, Zenon
    <2>2. ASSUME NEW T \in SUBSET (S \cup {x}), x \notin T PROVE T \in A
      BY <2>2, Zenon
    <2>3. A \cup B \subseteq SUBSET (S \cup {x})
      OBVIOUS
    <2> QED BY <1>2, <2>1, <2>2, <2>3, Zenon
  <1>7. A \cap B = {}
    BY <1>2, Zenon
  <1> HIDE DEF A, B
  <1>8. Cardinality(A) \in Nat /\ Cardinality(A \cap B) = 0
    BY <1>3, <1>7, FS_EmptySet, FS_CardinalityType, Zenon
  <1>9. Cardinality(A \cup B) = Cardinality(A) + Cardinality(B) - Cardinality(A \cap B)
    BY <1>3, <1>5, FS_Union, Zenon
  <1>10. Cardinality(A \cup B) = 2 * Cardinality(A)
    BY <1>5, <1>8, <1>9
  <1> QED BY <1>3, <1>6, <1>8, <1>10, Zenon DEF x

\* Doubling the delay, up to the cap, is the delay after one more admission.
LEMMA NextDelay ==
    /\ DelayAfter(1) = Second
    /\ \A n \in Nat \ {0} : /\ DelayAfter(n) \in Nat
                            /\ Min(2 * DelayAfter(n), RetryMax) = DelayAfter(n + 1)
  <1>1. Second \in Nat /\ RetryMax \in Nat /\ Second <= RetryMax
    BY AdmissionAssumption, Zenon
  <1>2. DelayAfter(1) = Second
    <2>1. Second * 2^(1 - 1) = Second
      BY <1>1
    <2> QED BY <1>1, <2>1 DEF DelayAfter, Min
  <1>3. ASSUME NEW n \in Nat \ {0}
        PROVE  DelayAfter(n) \in Nat /\ Min(2 * DelayAfter(n), RetryMax) = DelayAfter(n + 1)
    <2> DEFINE a == 2^(n - 1)
               b == Second * a
    <2>1. a \in Nat /\ 2^n = 2 * a
      <3>1. n - 1 \in Nat /\ (n - 1) + 1 = n
        OBVIOUS
      <3>2. 2^(n - 1) \in Nat /\ 2^((n - 1) + 1) = 2 * 2^(n - 1)
        BY <3>1, Doubling, Zenon
      <3> QED BY <3>1, <3>2, Zenon
    <2>2. b \in Nat
      BY <1>1, <2>1, Products, Zenon
    <2>3. Second * 2^((n + 1) - 1) = 2 * b
      <3>1. (n + 1) - 1 = n
        OBVIOUS
      <3> HIDE DEF a
      <3>2. Second * (2 * a) = 2 * (Second * a)
        BY <1>1, <2>1
      <3> QED BY <2>1, <3>1, <3>2, Zenon
    <2>4. DelayAfter(n) = Min(b, RetryMax) /\ DelayAfter(n + 1) = Min(2 * b, RetryMax)
      BY <2>3, Zenon DEF DelayAfter
    <2> HIDE DEF b
    <2> QED BY <1>1, <2>2, <2>4 DEF Min
  <1> QED BY <1>2, <1>3, Zenon

\* What an admission does to a history of admissions.
LEMMA Appended ==
    ASSUME NEW times \in Seq(Nat), NEW time \in Nat
    PROVE  LET new == Append(times, time) IN
           /\ new \in Seq(Nat) /\ Len(new) = Len(times) + 1 /\ new # <<>> /\ Last(new) = time
           /\ \A i \in 1..Len(times) : new[i] = times[i] /\ times[i] \in Nat
  BY DEF Last

\* An unchanged comparison admitted once its delay is over extends the streak.
LEMMA Repeats ==
    ASSUME NEW times \in Seq(Nat), times # <<>>, NEW time \in Nat, SlowedDown(times),
           Last(times) + DelayAfter(Len(times)) <= time
    PROVE  SlowedDown(Append(times, time))
  <1> DEFINE n == Len(times)
             new == Append(times, time)
  <1>1. /\ n \in Nat \ {0} /\ Len(new) = n + 1 /\ Last(times) = times[n]
        /\ new[n + 1] = time /\ \A i \in 1..n : new[i] = times[i] /\ times[i] \in Nat
    BY DEF Last
  <1> HIDE DEF new, n
  <1>2. DelayAfter(n) \in Nat
    BY <1>1, NextDelay, Zenon
  <1>3. ASSUME NEW i \in 1..n
        PROVE  new[i + 1] - new[i] >= DelayAfter(i)
    <2>1. CASE i = n
      BY <1>1, <1>2, <2>1 DEF n
    <2>2. CASE i \in 1..(n - 1)
      <3>1. i + 1 \in 1..n /\ i \in 1..n
        BY <1>1, <2>2
      <3>2. new[i + 1] = times[i + 1] /\ new[i] = times[i]
        BY <1>1, <3>1, Zenon
      <3>3. times[i + 1] - times[i] >= DelayAfter(i)
        BY <2>2, Zenon DEF SlowedDown, n
      <3> QED BY <3>2, <3>3, Zenon
    <2> QED BY <1>1, <2>1, <2>2
  <1>4. 1..(Len(new) - 1) = 1..n
    BY <1>1
  <1> QED BY <1>3, <1>4, Zenon DEF SlowedDown, new

\* An attempt is admitted: the streak goes on, or starts again.
LEMMA AdmitRepeat ==
    ASSUME RepeatInv, NEW c \in Channels, NEW p \in Peers, NEW f \in Fingerprints, TryAdmit(c, p, f)
    PROVE  RepeatInv'
  <1> DEFINE work == LiveWork(recent[c][p])
             times == streak[c][p]
             again == work # None /\ work.fingerprint = f
             delay == RetryDelay(work, f)
             new == IF again THEN Append(times, now) ELSE <<now>>
             kept == [fingerprint |-> f, retry_after |-> now + delay,
                      retry_delay |-> delay, forget_after |-> now + Retention]
  <1>1. now \in Nat /\ now' = now /\ times \in Seq(Nat) /\ SlowedDown(times)
    BY Zenon DEF RepeatInv, TryAdmit
  <1>2. /\ streak' = [streak EXCEPT ![c][p] = new]
        /\ recent' = [d \in Channels |-> [q \in Peers |->
                        IF d = c /\ q = p THEN kept ELSE LiveWork(recent[d][q])]]
    BY Zenon DEF TryAdmit
  <1>3. \A d \in Channels, q \in Peers : Remembers(LiveWork(recent[d][q]), streak[d][q])
    BY Zenon DEF RepeatInv, Remembers, LiveWork
  <1>4. ~Repeated(c, p, f)
    BY Zenon DEF TryAdmit, Admissible
  <1>5. /\ new \in Seq(Nat) /\ new # <<>> /\ Last(new) = now /\ SlowedDown(new)
        /\ delay = DelayAfter(Len(new))
    <2>1. CASE again
      <3> DEFINE n == Len(times)
      <3>1. /\ times # <<>> /\ work.retry_delay = DelayAfter(n)
            /\ work.retry_after = Last(times) + DelayAfter(n)
        BY <1>3, <2>1, Zenon DEF Remembers
      <3>2. n \in Nat \ {0} /\ Last(times) \in Nat
        BY <1>1, <3>1 DEF Last
      <3>3. DelayAfter(n) \in Nat /\ Min(2 * DelayAfter(n), RetryMax) = DelayAfter(n + 1)
        BY <3>2, NextDelay, Zenon
      <3>4. ~(work.retry_after > now)
        BY <1>4, <2>1, Zenon DEF Repeated
      <3>5. Last(times) + DelayAfter(n) <= now
        BY <1>1, <3>1, <3>2, <3>3, <3>4
      <3>6. SlowedDown(Append(times, now))
        BY <1>1, <3>1, <3>5, Repeats, Zenon
      <3>7. delay = DelayAfter(n + 1)
        BY <2>1, <3>1, <3>3, Zenon DEF RetryDelay
      <3>8. /\ Append(times, now) \in Seq(Nat) /\ Len(Append(times, now)) = n + 1
            /\ Append(times, now) # <<>> /\ Last(Append(times, now)) = now
        BY <1>1, Appended, Zenon
      <3> QED BY <2>1, <3>6, <3>7, <3>8, Zenon
    <2>2. CASE ~again
      <3>1. delay = Second
        BY <2>2, Zenon DEF RetryDelay
      <3>2. <<now>> \in Seq(Nat) /\ Len(<<now>>) = 1 /\ <<now>> # <<>> /\ Last(<<now>>) = now
        BY <1>1 DEF Last
      <3>3. SlowedDown(<<now>>)
        BY <3>2 DEF SlowedDown
      <3> QED BY <2>2, <3>1, <3>2, <3>3, NextDelay, Zenon
    <2> QED BY <2>1, <2>2, Zenon
  <1>6. Remembers(kept, new)
    BY <1>5, Zenon DEF Remembers
  <1> HIDE DEF kept, new
  <1>7. streak' \in [Channels -> [Peers -> Seq(Nat)]]
    BY <1>2, <1>5, Zenon DEF RepeatInv
  <1>8. ASSUME NEW d \in Channels, NEW q \in Peers
        PROVE  SlowedDown(streak'[d][q]) /\ Remembers(recent'[d][q], streak'[d][q])
    <2>1. CASE d = c /\ q = p
      <3>1. streak'[d][q] = new /\ recent'[d][q] = kept
        BY <1>2, <2>1, Zenon DEF RepeatInv
      <3> QED BY <1>5, <1>6, <3>1, Zenon
    <2>2. CASE ~(d = c /\ q = p)
      <3>1. streak'[d][q] = streak[d][q] /\ recent'[d][q] = LiveWork(recent[d][q])
        BY <1>2, <2>2, Zenon DEF RepeatInv
      <3> QED BY <1>3, <3>1, Zenon DEF RepeatInv
    <2> QED BY <2>1, <2>2, Zenon
  <1> QED BY <1>1, <1>7, <1>8, Zenon DEF RepeatInv

\* Nothing else admits: a refusal only forgets, and forgetting starts no streak.
LEMMA RefuseRepeat ==
    ASSUME RepeatInv, NEW c \in Channels, NEW p \in Peers, NEW f \in Fingerprints, Refuse(c, p, f)
    PROVE  RepeatInv'
  <1>1. UNCHANGED <<now, streak>>
    BY Zenon DEF Refuse
  <1>2. CASE UNCHANGED recent
    BY <1>1, <1>2, Zenon DEF RepeatInv
  <1>3. CASE Purge
    <2>1. \A d \in Channels, q \in Peers : recent'[d][q] = LiveWork(recent[d][q])
      BY <1>3, Zenon DEF Purge
    <2>2. \A d \in Channels, q \in Peers : Remembers(LiveWork(recent[d][q]), streak[d][q])
      BY Zenon DEF RepeatInv, Remembers, LiveWork
    <2> QED BY <1>1, <2>1, <2>2, Zenon DEF RepeatInv
  <1> QED BY <1>2, <1>3, Zenon DEF Refuse

\* An unchanged comparison is admitted at growing intervals, for every second, cap and
\* retention: forgotten work and refused attempts never shorten the delay of work that
\* is remembered.
THEOREM RepetitionSlowed == AdmissionSpec => []RepetitionSlowsDown
  <1>1. AdmissionInit => RepeatInv
    <2> SUFFICES ASSUME AdmissionInit PROVE RepeatInv
      OBVIOUS
    <2>1. <<>> \in Seq(Nat) /\ SlowedDown(<<>>)
      BY DEF SlowedDown
    <2> QED BY <2>1, Zenon DEF AdmissionInit, RepeatInv, Remembers
  <1>2. RepeatInv /\ [AdmissionNext]_admissionVars => RepeatInv'
    <2> SUFFICES ASSUME RepeatInv, [AdmissionNext]_admissionVars PROVE RepeatInv'
      OBVIOUS
    <2>1. CASE Tick
      BY <2>1 DEF Tick, RepeatInv
    <2>2. CASE UNCHANGED admissionVars
      BY <2>2, Zenon DEF RepeatInv, admissionVars
    <2> QED BY <2>1, <2>2, AdmitRepeat, RefuseRepeat, Zenon DEF AdmissionNext
  <1>3. RepeatInv => RepetitionSlowsDown
    BY Zenon DEF RepeatInv, SlowedDown, DelayAfter, RepetitionSlowsDown
  <1> QED BY <1>1, <1>2, <1>3, PTL DEF AdmissionSpec

(***************************************************************************)
(* Dumps: the inductive invariant.                                         *)
(***************************************************************************)
DumpTypes ==
    /\ held \subseteq Keys /\ in_flight \subseteq Peers /\ count \in Nat
    /\ stash \in [Work -> SUBSET Keys] /\ owed \in [Work -> SUBSET Keys]
    /\ call \in Calls \cup {None}
    /\ tasks \in [Work -> Tasks \cup {None}]

CallAt(pcs) == IF call # None /\ call.pc \in pcs THEN {call.work} ELSE {}

TasksAt(pcs) == {w \in Work : tasks[w] # None /\ tasks[w].pc \in pcs}

\* The dumps that hold their peer's mark.
Starting == CallAt({"budget", "admit", "drop", "free"})

Busy == TasksAt({"send", "drain", "drop", "free"})

\* The dumps that hold a unit of the budget.
CallUnits == CallAt({"admit", "drop"})

TaskUnits == TasksAt({"send", "drain", "drop"})

\* A mark has one holder, and a dump that runs or is being started has its peer's mark.
Marked ==
    /\ \A w \in Starting \cup Busy : PeerOf(w) \in in_flight
    /\ \A p \in in_flight : \E w \in Starting \cup Busy : PeerOf(w) = p
    /\ \A v, w \in Busy : PeerOf(v) = PeerOf(w) => v = w
    /\ \A v \in Starting, w \in Busy : PeerOf(v) # PeerOf(w)

UnitsCounted == count = Cardinality(CallUnits) + Cardinality(TaskUnits) /\ count <= Budget

DumpInv == DumpTypes /\ Marked /\ UnitsCounted /\ NothingForgotten

(***************************************************************************)
(* What a step does to the holders and to the count.                       *)
(***************************************************************************)
\* The sets of dumps are finite.
LEMMA UnitsFinite ==
    /\ IsFiniteSet(Work)
    /\ IsFiniteSet(TaskUnits) /\ Cardinality(TaskUnits) \in Nat
    /\ \A w \in Work : Cardinality({w}) = 1
    /\ Cardinality({}) = 0
  <1>1. IsFiniteSet(Work)
    BY FS_Product, DumpAssumption, Zenon DEF Work
  <1>2. TaskUnits \subseteq Work
    BY Zenon DEF TaskUnits, TasksAt
  <1>3. IsFiniteSet(TaskUnits) /\ Cardinality(TaskUnits) \in Nat
    BY <1>1, <1>2, FS_Subset, FS_CardinalityType, Zenon
  <1>4. Cardinality({}) = 0 /\ \A w \in Work : Cardinality({w}) = 1
    BY FS_EmptySet, FS_Singleton, Zenon
  <1> QED BY <1>1, <1>3, <1>4, Zenon

\* Where the receive loop is decides what it holds.
LEMMA CallHolds ==
    ASSUME DumpTypes
    PROVE  /\ call = None \/ call.pc \in {"claim", "stash"} => Starting = {} /\ CallUnits = {}
           /\ call # None /\ call.pc = "budget" => Starting = {call.work} /\ CallUnits = {}
           /\ call # None /\ call.pc \in {"admit", "drop"} =>
                Starting = {call.work} /\ CallUnits = {call.work}
           /\ call # None /\ call.pc = "free" => Starting = {call.work} /\ CallUnits = {}
           /\ call # None => call \in Calls /\ call.work \in Work /\ call.ranges \in SUBSET Keys
  BY Zenon DEF DumpTypes, Calls, Starting, CallUnits, CallAt

\* The same in the next state.
LEMMA CallHoldsNext ==
    ASSUME DumpTypes'
    PROVE  /\ call' = None \/ call'.pc \in {"claim", "stash"} => Starting' = {} /\ CallUnits' = {}
           /\ call' # None /\ call'.pc = "budget" => Starting' = {call'.work} /\ CallUnits' = {}
           /\ call' # None /\ call'.pc \in {"admit", "drop"} =>
                Starting' = {call'.work} /\ CallUnits' = {call'.work}
           /\ call' # None /\ call'.pc = "free" => Starting' = {call'.work} /\ CallUnits' = {}
  BY Zenon DEF DumpTypes, Calls, Starting, CallUnits, CallAt

\* A call that goes on keeps its work and its ranges.
LEMMA CallMoves ==
    ASSUME DumpTypes, call # None, NEW pc \in {"budget", "stash", "admit", "drop", "free"},
           call' = [call EXCEPT !.pc = pc]
    PROVE  /\ call' \in Calls /\ call' # None
           /\ call'.pc = pc /\ call'.work = call.work /\ call'.ranges = call.ranges
  <1>1. call \in Calls
    BY Zenon DEF DumpTypes
  <1>2. /\ call' \in Calls /\ call'.pc = pc /\ call'.work = call.work /\ call'.ranges = call.ranges
    BY <1>1, Zenon DEF Calls
  <1> QED BY <1>2, NoCall, Zenon

\* The tasks hold what they held when none of them moves.
LEMMA TasksStay ==
    ASSUME UNCHANGED tasks
    PROVE  Busy' = Busy /\ TaskUnits' = TaskUnits
  BY Zenon DEF Busy, TaskUnits, TasksAt

\* A task that moves.
LEMMA TaskMoves ==
    ASSUME DumpTypes, NEW w \in Work, NEW t \in Tasks \cup {None},
           tasks' = [tasks EXCEPT ![w] = t]
    PROVE  /\ tasks' \in [Work -> Tasks \cup {None}]
           /\ tasks'[w] = t /\ \A v \in Work \ {w} : tasks'[v] = tasks[v]
           /\ t # None => Busy' = Busy \cup {w}
           /\ t # None /\ w \in Busy => Busy' = Busy
           /\ t = None => Busy' = Busy \ {w}
           /\ t # None /\ t.pc # "free" => TaskUnits' = TaskUnits \cup {w}
           /\ t # None /\ t.pc # "free" /\ w \in TaskUnits => TaskUnits' = TaskUnits
           /\ t # None /\ t.pc = "free" => TaskUnits' = TaskUnits \ {w}
           /\ t = None /\ w \notin TaskUnits => TaskUnits' = TaskUnits
  <1>1. /\ tasks' \in [Work -> Tasks \cup {None}]
        /\ tasks'[w] = t /\ \A v \in Work \ {w} : tasks'[v] = tasks[v]
    BY Zenon DEF DumpTypes
  <1>2. \A x \in Tasks : x.pc \in {"send", "drain", "drop", "free"}
    BY Zenon DEF Tasks
  <1>3. Busy' = IF t = None THEN Busy \ {w} ELSE Busy \cup {w}
    BY <1>1, <1>2, Zenon DEF Busy, TasksAt
  <1>4. TaskUnits' = IF t # None /\ t.pc # "free" THEN TaskUnits \cup {w} ELSE TaskUnits \ {w}
    BY <1>1, <1>2, Zenon DEF TaskUnits, TasksAt
  <1>5. (w \in Busy => Busy \cup {w} = Busy) /\ (w \in TaskUnits => TaskUnits \cup {w} = TaskUnits)
    OBVIOUS
  <1>6. w \notin TaskUnits => TaskUnits \ {w} = TaskUnits
    OBVIOUS
  <1> QED BY <1>1, <1>3, <1>4, <1>5, <1>6, Zenon

\* Holders change with their marks.
LEMMA MarkTaken ==
    ASSUME Marked, NEW w, Starting = {}, Starting' = {w}, Busy' = Busy,
           PeerOf(w) \notin in_flight, in_flight' = in_flight \cup {PeerOf(w)}
    PROVE  Marked'
  BY Zenon DEF Marked

\* A mark is given back by the loop.
LEMMA MarkReturned ==
    ASSUME Marked, NEW w, Starting = {w}, Starting' = {}, Busy' = Busy,
           in_flight' = in_flight \ {PeerOf(w)}
    PROVE  Marked'
  BY Zenon DEF Marked

\* A mark passes from the loop to the task it spawns.
LEMMA MarkPassed ==
    ASSUME Marked, NEW w, Starting = {w}, Starting' = {}, Busy' = Busy \cup {w},
           UNCHANGED in_flight
    PROVE  Marked'
  BY Zenon DEF Marked

\* A mark is given back by a task.
LEMMA MarkFreed ==
    ASSUME Marked, NEW w \in Busy, Starting' = Starting, Busy' = Busy \ {w},
           in_flight' = in_flight \ {PeerOf(w)}
    PROVE  Marked'
  BY Zenon DEF Marked

\* When nobody's holding changes, marks and count stay right.
LEMMA HoldingsStay ==
    ASSUME Marked, UnitsCounted, Starting' = Starting, CallUnits' = CallUnits,
           Busy' = Busy, TaskUnits' = TaskUnits, UNCHANGED <<in_flight, count>>
    PROVE  Marked' /\ UnitsCounted'
  <1>1. Marked'
    BY Zenon DEF Marked
  <1>2. UnitsCounted'
    BY Zenon DEF UnitsCounted
  <1> QED BY <1>1, <1>2, Zenon

\* What is promised to the others does not change.
LEMMA PromisesStay ==
    ASSUME NothingForgotten, UNCHANGED <<stash, owed, tasks>>
    PROVE  NothingForgotten'
  BY Zenon DEF NothingForgotten, TaskAt

\* A step about one dump that keeps its promises keeps all.
LEMMA OnePromise ==
    ASSUME NothingForgotten, NEW w \in Work,
           \A v \in Work \ {w} : stash'[v] = stash[v] /\ owed'[v] = owed[v] /\ tasks'[v] = tasks[v],
           owed'[w] \subseteq
             stash'[w] \cup (IF tasks'[w] # None /\ tasks'[w].pc = "send" THEN tasks'[w].ranges ELSE {})
    PROVE  NothingForgotten'
  BY Zenon DEF NothingForgotten, TaskAt

\* What is promised of a dump that is not sending is in its stash.
LEMMA Stashed ==
    ASSUME NothingForgotten, NEW w \in Work, ~TaskAt(w, "send")
    PROVE  owed[w] \subseteq stash[w]
  BY Zenon DEF NothingForgotten

(***************************************************************************)
(* The invariant is kept by every step.                                    *)
(***************************************************************************)
\* Nothing is held at first.
LEMMA InitDump == DumpInit => DumpInv
  <1> SUFFICES ASSUME DumpInit PROVE DumpInv
    OBVIOUS
  <1>1. DumpTypes
    BY Zenon DEF DumpInit, DumpTypes
  <1>2. Starting = {} /\ CallUnits = {}
    BY Zenon DEF DumpInit, Starting, CallUnits, CallAt
  <1>3. Busy = {} /\ TaskUnits = {}
    BY Zenon DEF DumpInit, Busy, TaskUnits, TasksAt
  <1>4. Marked
    BY <1>2, <1>3, Zenon DEF DumpInit, Marked
  <1>5. UnitsCounted
    BY <1>2, <1>3, UnitsFinite, DumpAssumption DEF DumpInit, UnitsCounted
  <1>6. NothingForgotten
    BY Zenon DEF DumpInit, NothingForgotten
  <1> QED BY <1>1, <1>4, <1>5, <1>6, Zenon DEF DumpInv

\* A comparison arrives.
LEMMA CompareStep ==
    ASSUME DumpInv, NEW v \in Work, NEW ranges \in SUBSET Keys, Compare(v, ranges)
    PROVE  DumpInv'
  <1>1. /\ call = None /\ call' = [pc |-> "claim", work |-> v, ranges |-> ranges]
        /\ UNCHANGED <<held, in_flight, count, stash, tasks, owed>>
    BY Zenon DEF Compare
  <1>2. call' \in Calls /\ call'.pc = "claim"
    BY <1>1, Zenon DEF Calls
  <1>3. DumpTypes'
    BY <1>1, <1>2, Zenon DEF DumpInv, DumpTypes
  <1>4. Starting' = Starting /\ CallUnits' = CallUnits
    BY <1>1, <1>2, <1>3, CallHolds, CallHoldsNext, Zenon DEF DumpInv
  <1>5. Marked' /\ UnitsCounted'
    BY <1>1, <1>4, TasksStay, HoldingsStay, Zenon DEF DumpInv
  <1>6. NothingForgotten'
    BY <1>1, PromisesStay, Zenon DEF DumpInv
  <1> QED BY <1>3, <1>5, <1>6, Zenon DEF DumpInv

\* The loop takes the peer's mark, or finds it taken.
LEMMA ClaimPeerStep == ASSUME DumpInv, ClaimPeer PROVE DumpInv'
  <1> DEFINE w == call.work
             p == PeerOf(w)
  <1>1. /\ call # None /\ call.pc = "claim" /\ in_flight' = in_flight \cup {p}
        /\ UNCHANGED <<held, count, stash, tasks, owed>>
    BY Zenon DEF ClaimPeer, At
  <1>2. /\ w \in Work /\ p \in Peers /\ Starting = {} /\ CallUnits = {}
    BY <1>1, CallHolds, Zenon DEF DumpInv, Work, PeerOf
  <1>3. NothingForgotten'
    BY <1>1, PromisesStay, Zenon DEF DumpInv
  <1>4. CASE p \in in_flight
    <2>1. call' = [call EXCEPT !.pc = "stash"] /\ in_flight' = in_flight
      BY <1>1, <1>4, Zenon DEF ClaimPeer
    <2>2. call' \in Calls /\ call' # None /\ call'.pc = "stash"
      BY <1>1, <2>1, CallMoves, Zenon DEF DumpInv
    <2>3. DumpTypes'
      BY <1>1, <2>1, <2>2, Zenon DEF DumpInv, DumpTypes
    <2>4. Starting' = {} /\ CallUnits' = {}
      BY <2>2, <2>3, CallHoldsNext, Zenon
    <2>5. Marked' /\ UnitsCounted'
      BY <1>1, <1>2, <2>1, <2>4, TasksStay, HoldingsStay, Zenon DEF DumpInv
    <2> QED BY <1>3, <2>3, <2>5, Zenon DEF DumpInv
  <1>5. CASE p \notin in_flight
    <2>1. call' = [call EXCEPT !.pc = "budget"]
      BY <1>5, Zenon DEF ClaimPeer
    <2>2. call' \in Calls /\ call' # None /\ call'.pc = "budget" /\ call'.work = w
      BY <1>1, <2>1, CallMoves, Zenon DEF DumpInv
    <2>3. DumpTypes'
      BY <1>1, <1>2, <2>2, Zenon DEF DumpInv, DumpTypes
    <2>4. Starting' = {w} /\ CallUnits' = {}
      BY <2>2, <2>3, CallHoldsNext, Zenon
    <2>5. Busy' = Busy /\ TaskUnits' = TaskUnits
      BY <1>1, TasksStay, Zenon
    <2>6. Marked'
      BY <1>1, <1>2, <1>5, <2>4, <2>5, MarkTaken, Zenon DEF DumpInv
    <2>7. UnitsCounted'
      BY <1>1, <1>2, <2>4, <2>5, Zenon DEF DumpInv, UnitsCounted
    <2> QED BY <1>3, <2>3, <2>6, <2>7, Zenon DEF DumpInv
  <1> QED BY <1>4, <1>5, Zenon

\* The loop takes a unit of the budget, or gives the mark back.
LEMMA ClaimBudgetStep == ASSUME DumpInv, ClaimBudget PROVE DumpInv'
  <1> DEFINE w == call.work
  <1>1. call # None /\ call.pc = "budget" /\ UNCHANGED <<held, stash, tasks, owed>>
    BY Zenon DEF ClaimBudget, At
  <1>2. w \in Work /\ Starting = {w} /\ CallUnits = {}
    BY <1>1, CallHolds, Zenon DEF DumpInv
  <1>3. NothingForgotten' /\ Busy' = Busy /\ TaskUnits' = TaskUnits
    BY <1>1, PromisesStay, TasksStay, Zenon DEF DumpInv
  <1>4. count \in Nat /\ count <= Budget /\ Budget \in Nat
    BY DumpAssumption, Zenon DEF DumpInv, DumpTypes, UnitsCounted
  <1>5. CASE count < Budget
    <2>1. count' = count + 1 /\ call' = [call EXCEPT !.pc = "admit"] /\ in_flight' = in_flight
      BY <1>5, Zenon DEF ClaimBudget
    <2>2. call' \in Calls /\ call' # None /\ call'.pc = "admit" /\ call'.work = w
      BY <1>1, <2>1, CallMoves, Zenon DEF DumpInv
    <2>3. DumpTypes'
      BY <1>1, <1>4, <2>1, <2>2 DEF DumpInv, DumpTypes
    <2>4. Starting' = {w} /\ CallUnits' = {w}
      BY <2>2, <2>3, CallHoldsNext, Zenon
    <2>5. Marked'
      BY <1>2, <1>3, <2>1, <2>4, Zenon DEF DumpInv, Marked
    <2>6. UnitsCounted'
      <3>1. count = 0 + Cardinality(TaskUnits)
        BY <1>2, UnitsFinite, Zenon DEF DumpInv, UnitsCounted
      <3>2. Cardinality(CallUnits') = 1 /\ Cardinality(TaskUnits') = Cardinality(TaskUnits)
        BY <1>2, <1>3, <2>4, UnitsFinite, Zenon
      <3> QED BY <1>4, <1>5, <2>1, <3>1, <3>2, UnitsFinite DEF UnitsCounted
    <2> QED BY <1>3, <2>3, <2>5, <2>6, Zenon DEF DumpInv
  <1>6. CASE ~(count < Budget)
    <2>1. /\ count' = count /\ call' = [call EXCEPT !.pc = "stash"]
          /\ in_flight' = in_flight \ {PeerOf(w)}
      BY <1>6, Zenon DEF ClaimBudget
    <2>2. call' \in Calls /\ call' # None /\ call'.pc = "stash"
      BY <1>1, <2>1, CallMoves, Zenon DEF DumpInv
    <2>3. DumpTypes'
      BY <1>1, <2>1, <2>2, Zenon DEF DumpInv, DumpTypes
    <2>4. Starting' = {} /\ CallUnits' = {}
      BY <2>2, <2>3, CallHoldsNext, Zenon
    <2>5. Marked'
      BY <1>2, <1>3, <2>1, <2>4, MarkReturned, Zenon DEF DumpInv
    <2>6. UnitsCounted'
      BY <1>2, <1>3, <2>1, <2>4, Zenon DEF DumpInv, UnitsCounted
    <2> QED BY <1>3, <2>3, <2>5, <2>6, Zenon DEF DumpInv
  <1> QED BY <1>5, <1>6, Zenon

\* What found no slot is promised and stashed.
LEMMA StashStep == ASSUME DumpInv, Stash PROVE DumpInv'
  <1> DEFINE w == call.work
  <1>1. /\ call # None /\ call.pc = "stash" /\ call' = None
        /\ stash' = [stash EXCEPT ![w] = @ \cup call.ranges]
        /\ owed' = [owed EXCEPT ![w] = @ \cup call.ranges]
        /\ UNCHANGED <<held, in_flight, count, tasks>>
    BY Zenon DEF Stash, At
  <1>2. w \in Work /\ call.ranges \in SUBSET Keys /\ Starting = {} /\ CallUnits = {}
    BY <1>1, CallHolds, Zenon DEF DumpInv
  <1>3. /\ stash'[w] = stash[w] \cup call.ranges /\ owed'[w] = owed[w] \cup call.ranges
        /\ \A v \in Work \ {w} : stash'[v] = stash[v] /\ owed'[v] = owed[v]
    BY <1>1, <1>2, Zenon DEF DumpInv, DumpTypes
  <1>4. DumpTypes'
    BY <1>1, <1>2, Zenon DEF DumpInv, DumpTypes
  <1>5. Starting' = {} /\ CallUnits' = {}
    BY <1>1, <1>4, CallHoldsNext, Zenon
  <1>6. Marked' /\ UnitsCounted'
    BY <1>1, <1>2, <1>5, TasksStay, HoldingsStay, Zenon DEF DumpInv
  <1>7. NothingForgotten'
    <2>1. owed[w] \subseteq stash[w] \cup (IF TaskAt(w, "send") THEN tasks[w].ranges ELSE {})
      BY <1>2, Zenon DEF DumpInv, NothingForgotten
    <2>2. owed'[w] \subseteq
            stash'[w] \cup (IF tasks'[w] # None /\ tasks'[w].pc = "send" THEN tasks'[w].ranges ELSE {})
      BY <1>1, <1>3, <2>1, Zenon DEF TaskAt
    <2> QED BY <1>1, <1>2, <1>3, <2>2, OnePromise, Zenon DEF DumpInv
  <1> QED BY <1>4, <1>6, <1>7, Zenon DEF DumpInv

\* Admission refuses the dump: the guards are dropped, the stash stays.
LEMMA DenyStep == ASSUME DumpInv, Deny PROVE DumpInv'
  <1>1. /\ call # None /\ call.pc = "admit" /\ call' = [call EXCEPT !.pc = "drop"]
        /\ UNCHANGED <<held, in_flight, count, stash, tasks, owed>>
    BY Zenon DEF Deny, At
  <1>2. call' \in Calls /\ call' # None /\ call'.pc = "drop" /\ call'.work = call.work
    BY <1>1, CallMoves, Zenon DEF DumpInv
  <1>3. DumpTypes'
    BY <1>1, <1>2, Zenon DEF DumpInv, DumpTypes
  <1>4. Starting' = Starting /\ CallUnits' = CallUnits
    BY <1>1, <1>2, <1>3, CallHolds, CallHoldsNext, Zenon DEF DumpInv
  <1>5. Marked' /\ UnitsCounted'
    BY <1>1, <1>4, TasksStay, HoldingsStay, Zenon DEF DumpInv
  <1>6. NothingForgotten'
    BY <1>1, PromisesStay, Zenon DEF DumpInv
  <1> QED BY <1>3, <1>5, <1>6, Zenon DEF DumpInv

\* An admitted dump takes the stash along and passes mark and unit to its task.
LEMMA AdmitStep == ASSUME DumpInv, Admit PROVE DumpInv'
  <1> DEFINE w == call.work
             ranges == stash[w] \cup call.ranges
  <1>1. /\ call # None /\ call.pc = "admit" /\ stash' = [stash EXCEPT ![w] = {}]
        /\ UNCHANGED <<held, in_flight, count>>
    BY Zenon DEF Admit, At
  <1>2. /\ w \in Work /\ call.ranges \in SUBSET Keys /\ ranges \in SUBSET Keys
        /\ Starting = {w} /\ CallUnits = {w}
    BY <1>1, CallHolds, Zenon DEF DumpInv, DumpTypes
  <1>3. w \notin Busy
    BY <1>2, Zenon DEF DumpInv, Marked
  <1>4. tasks[w] = None /\ w \notin TaskUnits
    BY <1>2, <1>3, Zenon DEF DumpInv, DumpTypes, Tasks, Busy, TaskUnits, TasksAt
  <1>5. owed[w] \subseteq stash[w]
    BY <1>2, <1>4, Stashed, Zenon DEF DumpInv, TaskAt
  <1>6. /\ stash' \in [Work -> SUBSET Keys] /\ stash'[w] = {}
        /\ \A v \in Work \ {w} : stash'[v] = stash[v]
    BY <1>1, <1>2, Zenon DEF DumpInv, DumpTypes
  <1>7. CASE ranges \cap held = {}
    <2>1. /\ call' = [call EXCEPT !.pc = "drop"] /\ owed' = [owed EXCEPT ![w] = @ \ ranges]
          /\ tasks' = tasks
      BY <1>7, Zenon DEF Admit
    <2>2. call' \in Calls /\ call' # None /\ call'.pc = "drop" /\ call'.work = w
      BY <1>1, <2>1, CallMoves, Zenon DEF DumpInv
    <2>3. /\ owed' \in [Work -> SUBSET Keys] /\ owed'[w] = owed[w] \ ranges
          /\ \A v \in Work \ {w} : owed'[v] = owed[v]
      BY <1>2, <2>1, Zenon DEF DumpInv, DumpTypes
    <2>4. DumpTypes'
      BY <1>1, <1>6, <2>1, <2>2, <2>3, Zenon DEF DumpInv, DumpTypes
    <2>5. Starting' = Starting /\ CallUnits' = CallUnits
      BY <1>2, <2>2, <2>4, CallHoldsNext, Zenon
    <2>6. Marked' /\ UnitsCounted'
      BY <1>1, <2>1, <2>5, TasksStay, HoldingsStay, Zenon DEF DumpInv
    <2>7. NothingForgotten'
      <3>1. owed'[w] = {}
        BY <1>5, <2>3, Zenon
      <3> QED BY <1>2, <1>6, <2>1, <2>3, <3>1, OnePromise, Zenon DEF DumpInv
    <2> QED BY <2>4, <2>6, <2>7, Zenon DEF DumpInv
  <1>8. CASE ranges \cap held # {}
    <2> DEFINE t == [pc |-> "send", ranges |-> ranges]
    <2>1. /\ call' = None /\ tasks' = [tasks EXCEPT ![w] = t]
          /\ owed' = [owed EXCEPT ![w] = @ \cup ranges]
      BY <1>8, Zenon DEF Admit
    <2>2. t \in Tasks /\ t # None /\ t.pc = "send" /\ t.ranges = ranges
      BY <1>2, NoCall DEF Tasks
    <2> HIDE DEF t
    <2>3. /\ tasks' \in [Work -> Tasks \cup {None}] /\ tasks'[w] = t
          /\ \A v \in Work \ {w} : tasks'[v] = tasks[v]
          /\ Busy' = Busy \cup {w} /\ TaskUnits' = TaskUnits \cup {w}
      BY <1>2, <2>1, <2>2, TaskMoves, Zenon DEF DumpInv
    <2>4. /\ owed' \in [Work -> SUBSET Keys] /\ owed'[w] = owed[w] \cup ranges
          /\ \A v \in Work \ {w} : owed'[v] = owed[v]
      BY <1>2, <2>1, Zenon DEF DumpInv, DumpTypes
    <2>5. DumpTypes'
      BY <1>1, <1>6, <2>1, <2>3, <2>4, Zenon DEF DumpInv, DumpTypes
    <2>6. Starting' = {} /\ CallUnits' = {}
      BY <2>1, <2>5, CallHoldsNext, Zenon
    <2>7. Marked'
      BY <1>1, <1>2, <2>3, <2>6, MarkPassed, Zenon DEF DumpInv
    <2>8. UnitsCounted'
      <3>1. Cardinality(TaskUnits') = Cardinality(TaskUnits) + 1
        BY <1>4, <2>3, UnitsFinite, FS_AddElement, Zenon
      <3>2. Cardinality(CallUnits) = 1 /\ Cardinality(CallUnits') = 0
        BY <1>2, <2>6, UnitsFinite, Zenon
      <3> QED BY <1>1, <3>1, <3>2, UnitsFinite DEF DumpInv, UnitsCounted
    <2>9. NothingForgotten'
      <3>1. owed'[w] \subseteq
              stash'[w] \cup (IF tasks'[w] # None /\ tasks'[w].pc = "send" THEN tasks'[w].ranges ELSE {})
        BY <1>5, <2>2, <2>3, <2>4, Zenon
      <3> QED BY <1>2, <1>6, <2>3, <2>4, <3>1, OnePromise, Zenon DEF DumpInv
    <2> QED BY <2>5, <2>7, <2>8, <2>9, Zenon DEF DumpInv
  <1> QED BY <1>7, <1>8, Zenon

\* The loop drops the guards of a refused or an empty dump, the unit first.
LEMMA CallDropStep == ASSUME DumpInv, CallDrop PROVE DumpInv'
  <1> DEFINE w == call.work
  <1>1. /\ call # None /\ call.pc = "drop" /\ call' = [call EXCEPT !.pc = "free"]
        /\ count' = count - 1 /\ UNCHANGED <<held, in_flight, stash, tasks, owed>>
    BY Zenon DEF CallDrop, At
  <1>2. w \in Work /\ Starting = {w} /\ CallUnits = {w}
    BY <1>1, CallHolds, Zenon DEF DumpInv
  <1>3. call' \in Calls /\ call' # None /\ call'.pc = "free" /\ call'.work = w
    BY <1>1, CallMoves, Zenon DEF DumpInv
  <1>4. NothingForgotten' /\ Busy' = Busy /\ TaskUnits' = TaskUnits
    BY <1>1, PromisesStay, TasksStay, Zenon DEF DumpInv
  <1>5. count = 1 + Cardinality(TaskUnits) /\ Cardinality(TaskUnits) \in Nat
    BY <1>2, UnitsFinite, Zenon DEF DumpInv, UnitsCounted
  <1>6. DumpTypes'
    <2>1. count' \in Nat
      BY <1>1, <1>5
    <2> QED BY <1>1, <1>3, <2>1, Zenon DEF DumpInv, DumpTypes
  <1>7. Starting' = {w} /\ CallUnits' = {}
    BY <1>3, <1>6, CallHoldsNext, Zenon
  <1>8. Marked'
    BY <1>1, <1>2, <1>4, <1>7, Zenon DEF DumpInv, Marked
  <1>9. UnitsCounted'
    <2>1. count <= Budget /\ Budget \in Nat
      BY DumpAssumption, Zenon DEF DumpInv, UnitsCounted
    <2>2. Cardinality(CallUnits') = 0 /\ Cardinality(TaskUnits') = Cardinality(TaskUnits)
      BY <1>4, <1>7, UnitsFinite, Zenon
    <2> QED BY <1>1, <1>5, <2>1, <2>2 DEF UnitsCounted
  <1> QED BY <1>4, <1>6, <1>8, <1>9, Zenon DEF DumpInv

\* Then the mark.
LEMMA CallFreeStep == ASSUME DumpInv, CallFree PROVE DumpInv'
  <1> DEFINE w == call.work
  <1>1. /\ call # None /\ call.pc = "free" /\ call' = None
        /\ in_flight' = in_flight \ {PeerOf(w)} /\ UNCHANGED <<held, count, stash, tasks, owed>>
    BY Zenon DEF CallFree, At
  <1>2. w \in Work /\ Starting = {w} /\ CallUnits = {}
    BY <1>1, CallHolds, Zenon DEF DumpInv
  <1>3. NothingForgotten' /\ Busy' = Busy /\ TaskUnits' = TaskUnits
    BY <1>1, PromisesStay, TasksStay, Zenon DEF DumpInv
  <1>4. DumpTypes'
    BY <1>1, Zenon DEF DumpInv, DumpTypes
  <1>5. Starting' = {} /\ CallUnits' = {}
    BY <1>1, <1>4, CallHoldsNext, Zenon
  <1>6. Marked'
    BY <1>1, <1>2, <1>3, <1>5, MarkReturned, Zenon DEF DumpInv
  <1>7. UnitsCounted'
    BY <1>1, <1>2, <1>3, <1>5, Zenon DEF DumpInv, UnitsCounted
  <1> QED BY <1>3, <1>4, <1>6, <1>7, Zenon DEF DumpInv

\* A task has sent its ranges.
LEMMA SendDoneStep == ASSUME DumpInv, NEW w \in Work, SendDone(w) PROVE DumpInv'
  <1> DEFINE t == [tasks[w] EXCEPT !.pc = "drain"]
  <1>1. /\ tasks[w] # None /\ tasks[w].pc = "send" /\ tasks' = [tasks EXCEPT ![w] = t]
        /\ owed' = [owed EXCEPT ![w] = @ \ (tasks[w].ranges \ stash[w])]
        /\ UNCHANGED <<held, in_flight, count, stash, call>>
    BY Zenon DEF SendDone, TaskAt
  <1>2. tasks[w] \in Tasks
    BY <1>1, Zenon DEF DumpInv, DumpTypes
  <1>3. t \in Tasks /\ t # None /\ t.pc = "drain"
    BY <1>2, NoCall, Zenon DEF Tasks
  <1>4. w \in Busy /\ w \in TaskUnits
    BY <1>1, Zenon DEF Busy, TaskUnits, TasksAt
  <1> HIDE DEF t
  <1>5. /\ tasks' \in [Work -> Tasks \cup {None}] /\ tasks'[w] = t
        /\ \A v \in Work \ {w} : tasks'[v] = tasks[v]
        /\ Busy' = Busy /\ TaskUnits' = TaskUnits
    BY <1>1, <1>3, <1>4, TaskMoves, Zenon DEF DumpInv
  <1>6. /\ owed' \in [Work -> SUBSET Keys] /\ owed'[w] = owed[w] \ (tasks[w].ranges \ stash[w])
        /\ \A v \in Work \ {w} : owed'[v] = owed[v]
    BY <1>1, Zenon DEF DumpInv, DumpTypes
  <1>7. DumpTypes'
    BY <1>1, <1>5, <1>6, Zenon DEF DumpInv, DumpTypes
  <1>8. Marked' /\ UnitsCounted'
    <2>1. Starting' = Starting /\ CallUnits' = CallUnits
      BY <1>1, Zenon DEF Starting, CallUnits, CallAt
    <2> QED BY <1>1, <1>5, <2>1, HoldingsStay, Zenon DEF DumpInv
  <1>9. NothingForgotten'
    <2>1. owed[w] \subseteq stash[w] \cup tasks[w].ranges
      BY <1>1, Zenon DEF DumpInv, NothingForgotten, TaskAt
    <2>2. owed'[w] \subseteq stash'[w]
      BY <1>1, <1>6, <2>1, Zenon
    <2> QED BY <1>1, <1>5, <1>6, <2>2, OnePromise, Zenon DEF DumpInv
  <1> QED BY <1>7, <1>8, <1>9, Zenon DEF DumpInv

\* A task takes what was stashed meanwhile, or ends.
LEMMA DrainStep == ASSUME DumpInv, NEW w \in Work, Drain(w) PROVE DumpInv'
  <1>1. /\ tasks[w] # None /\ tasks[w].pc = "drain" /\ stash' = [stash EXCEPT ![w] = {}]
        /\ UNCHANGED <<held, in_flight, count, call>>
    BY Zenon DEF Drain, TaskAt
  <1>2. w \in Busy /\ w \in TaskUnits
    BY <1>1, Zenon DEF Busy, TaskUnits, TasksAt
  <1>3. owed[w] \subseteq stash[w] /\ stash[w] \in SUBSET Keys
    BY <1>1, Stashed, Zenon DEF DumpInv, DumpTypes, TaskAt
  <1>4. /\ stash' \in [Work -> SUBSET Keys] /\ stash'[w] = {}
        /\ \A v \in Work \ {w} : stash'[v] = stash[v]
    BY <1>1, Zenon DEF DumpInv, DumpTypes
  <1>5. ASSUME NEW t \in Tasks, tasks' = [tasks EXCEPT ![w] = t], t.pc # "free",
               owed' \in [Work -> SUBSET Keys], \A v \in Work \ {w} : owed'[v] = owed[v],
               owed'[w] \subseteq (IF t.pc = "send" THEN t.ranges ELSE {})
        PROVE  DumpInv'
    <2>1. t # None
      BY <1>5, NoCall, Zenon
    <2>2. /\ tasks' \in [Work -> Tasks \cup {None}] /\ tasks'[w] = t
          /\ \A v \in Work \ {w} : tasks'[v] = tasks[v]
          /\ Busy' = Busy /\ TaskUnits' = TaskUnits
      BY <1>2, <1>5, <2>1, TaskMoves, Zenon DEF DumpInv
    <2>3. DumpTypes'
      BY <1>1, <1>4, <1>5, <2>2, Zenon DEF DumpInv, DumpTypes
    <2>4. Starting' = Starting /\ CallUnits' = CallUnits
      BY <1>1, Zenon DEF Starting, CallUnits, CallAt
    <2>5. Marked' /\ UnitsCounted'
      BY <1>1, <2>2, <2>4, HoldingsStay, Zenon DEF DumpInv
    <2>6. NothingForgotten'
      <3>1. owed'[w] \subseteq
              stash'[w] \cup (IF tasks'[w] # None /\ tasks'[w].pc = "send" THEN tasks'[w].ranges ELSE {})
        BY <1>5, <2>1, <2>2, Zenon
      <3> QED BY <1>4, <1>5, <2>2, <3>1, OnePromise, Zenon DEF DumpInv
    <2> QED BY <2>3, <2>5, <2>6, Zenon DEF DumpInv
  <1>6. CASE stash[w] \cap held = {}
    <2> DEFINE t == [pc |-> "drop", ranges |-> {}]
    <2>1. tasks' = [tasks EXCEPT ![w] = t] /\ owed' = [owed EXCEPT ![w] = @ \ stash[w]]
      BY <1>6, Zenon DEF Drain
    <2>2. t \in Tasks /\ t.pc = "drop"
      BY Zenon DEF Tasks
    <2>3. /\ owed' \in [Work -> SUBSET Keys] /\ owed'[w] = {}
          /\ \A v \in Work \ {w} : owed'[v] = owed[v]
      BY <1>3, <2>1, Zenon DEF DumpInv, DumpTypes
    <2>4. t.pc # "free" /\ owed'[w] \subseteq (IF t.pc = "send" THEN t.ranges ELSE {})
      BY <2>2, <2>3, Zenon
    <2> HIDE DEF t
    <2> QED BY <1>5, <2>1, <2>2, <2>3, <2>4, Zenon
  <1>7. CASE stash[w] \cap held # {}
    <2> DEFINE t == [pc |-> "send", ranges |-> stash[w]]
    <2>1. tasks' = [tasks EXCEPT ![w] = t] /\ owed' = owed
      BY <1>7, Zenon DEF Drain
    <2>2. t \in Tasks /\ t.pc = "send" /\ t.ranges = stash[w]
      BY <1>3, Zenon DEF Tasks
    <2>3. owed \in [Work -> SUBSET Keys]
      BY Zenon DEF DumpInv, DumpTypes
    <2>4. t.pc # "free" /\ owed'[w] \subseteq (IF t.pc = "send" THEN t.ranges ELSE {})
      BY <1>3, <2>1, <2>2, Zenon
    <2> HIDE DEF t
    <2> QED BY <1>5, <2>1, <2>2, <2>3, <2>4, Zenon
  <1> QED BY <1>6, <1>7, Zenon

\* A task drops its guards, the unit first.
LEMMA TaskDropStep == ASSUME DumpInv, NEW w \in Work, TaskDrop(w) PROVE DumpInv'
  <1> DEFINE t == [tasks[w] EXCEPT !.pc = "free"]
  <1>1. /\ tasks[w] # None /\ tasks[w].pc = "drop" /\ tasks' = [tasks EXCEPT ![w] = t]
        /\ count' = count - 1 /\ UNCHANGED <<held, in_flight, stash, owed, call>>
    BY Zenon DEF TaskDrop, TaskAt
  <1>2. tasks[w] \in Tasks
    BY <1>1, Zenon DEF DumpInv, DumpTypes
  <1>3. t \in Tasks /\ t # None /\ t.pc = "free"
    BY <1>2, NoCall, Zenon DEF Tasks
  <1>4. w \in Busy /\ w \in TaskUnits
    BY <1>1, Zenon DEF Busy, TaskUnits, TasksAt
  <1> HIDE DEF t
  <1>5. /\ tasks' \in [Work -> Tasks \cup {None}] /\ tasks'[w] = t
        /\ \A v \in Work \ {w} : tasks'[v] = tasks[v]
        /\ Busy' = Busy /\ TaskUnits' = TaskUnits \ {w}
    BY <1>1, <1>3, <1>4, TaskMoves, Zenon DEF DumpInv
  <1>6. Starting' = Starting /\ CallUnits' = CallUnits
    BY <1>1, Zenon DEF Starting, CallUnits, CallAt
  <1>7. Cardinality(TaskUnits') = Cardinality(TaskUnits) - 1 /\ Cardinality(TaskUnits) > 0
    <2>1. Cardinality(TaskUnits') = Cardinality(TaskUnits) - 1
      BY <1>4, <1>5, UnitsFinite, FS_RemoveElement, Zenon
    <2>2. Cardinality(TaskUnits') \in Nat
      BY <1>5, UnitsFinite, FS_RemoveElement, FS_CardinalityType, Zenon
    <2> QED BY <2>1, <2>2, UnitsFinite
  <1>8. Cardinality(CallUnits) \in Nat
    <2>1. CallUnits = {} \/ \E v \in Work : CallUnits = {v}
      BY CallHolds, Zenon DEF DumpInv, CallUnits, CallAt
    <2> QED BY <2>1, UnitsFinite
  <1>9. count = Cardinality(CallUnits) + Cardinality(TaskUnits) /\ count <= Budget /\ Budget \in Nat
    BY DumpAssumption, Zenon DEF DumpInv, UnitsCounted
  <1>10. DumpTypes'
    <2>1. count' \in Nat
      BY <1>1, <1>7, <1>8, <1>9, UnitsFinite
    <2> QED BY <1>1, <1>5, <2>1, Zenon DEF DumpInv, DumpTypes
  <1>11. Marked'
    BY <1>1, <1>5, <1>6, Zenon DEF DumpInv, Marked
  <1>12. UnitsCounted'
    BY <1>1, <1>6, <1>7, <1>8, <1>9, UnitsFinite DEF UnitsCounted
  <1>13. NothingForgotten'
    <2>1. owed[w] \subseteq stash[w]
      BY <1>1, Stashed, Zenon DEF DumpInv, TaskAt
    <2> QED BY <1>1, <1>5, <2>1, OnePromise, Zenon DEF DumpInv
  <1> QED BY <1>10, <1>11, <1>12, <1>13, Zenon DEF DumpInv

\* Then the mark: the peer may have its next dump.
LEMMA TaskFreeStep == ASSUME DumpInv, NEW w \in Work, TaskFree(w) PROVE DumpInv'
  <1>1. /\ tasks[w] # None /\ tasks[w].pc = "free" /\ tasks' = [tasks EXCEPT ![w] = None]
        /\ in_flight' = in_flight \ {PeerOf(w)} /\ UNCHANGED <<held, count, stash, owed, call>>
    BY Zenon DEF TaskFree, TaskAt
  <1>2. w \in Busy /\ w \notin TaskUnits
    BY <1>1, Zenon DEF Busy, TaskUnits, TasksAt
  <1>3. /\ tasks' \in [Work -> Tasks \cup {None}] /\ tasks'[w] = None
        /\ \A v \in Work \ {w} : tasks'[v] = tasks[v]
        /\ Busy' = Busy \ {w} /\ TaskUnits' = TaskUnits
    BY <1>1, <1>2, TaskMoves, Zenon DEF DumpInv
  <1>4. Starting' = Starting /\ CallUnits' = CallUnits
    BY <1>1, Zenon DEF Starting, CallUnits, CallAt
  <1>5. DumpTypes'
    BY <1>1, <1>3, Zenon DEF DumpInv, DumpTypes
  <1>6. Marked'
    BY <1>1, <1>2, <1>3, <1>4, MarkFreed, Zenon DEF DumpInv
  <1>7. UnitsCounted'
    BY <1>1, <1>3, <1>4, Zenon DEF DumpInv, UnitsCounted
  <1>8. NothingForgotten'
    <2>1. owed[w] \subseteq stash[w]
      BY <1>1, Stashed, Zenon DEF DumpInv, TaskAt
    <2> QED BY <1>1, <1>3, <2>1, OnePromise, Zenon DEF DumpInv
  <1> QED BY <1>5, <1>6, <1>7, <1>8, Zenon DEF DumpInv

\* The invariant, for any number of peers, channels and comparisons.
THEOREM DumpsInvariant == DumpSpec => []DumpInv
  <1>1. DumpInv /\ [DumpNext]_dumpVars => DumpInv'
    <2> SUFFICES ASSUME DumpInv, [DumpNext]_dumpVars PROVE DumpInv'
      OBVIOUS
    <2>1. ASSUME held' \subseteq Keys, UNCHANGED <<in_flight, count, stash, call, tasks, owed>>
          PROVE  DumpInv'
      <3>1. Starting' = Starting /\ CallUnits' = CallUnits
        BY <2>1, Zenon DEF Starting, CallUnits, CallAt
      <3>2. Marked' /\ UnitsCounted'
        BY <2>1, <3>1, TasksStay, HoldingsStay, Zenon DEF DumpInv
      <3>3. DumpTypes' /\ NothingForgotten'
        BY <2>1, PromisesStay, Zenon DEF DumpInv, DumpTypes
      <3> QED BY <3>2, <3>3, Zenon DEF DumpInv
    <2>2. CASE UNCHANGED dumpVars \/ \E k \in Keys : Write(k)
      <3>1. held' \subseteq Keys
        BY <2>2 DEF DumpInv, DumpTypes, dumpVars, Write
      <3> QED BY <2>1, <2>2, <3>1, Zenon DEF dumpVars, Write
    <2>3. CASE Loop
      BY <2>3, ClaimPeerStep, ClaimBudgetStep, StashStep, DenyStep, AdmitStep, CallDropStep,
         CallFreeStep, Zenon DEF Loop
    <2>4. CASE \E w \in Work : Task(w)
      BY <2>4, SendDoneStep, DrainStep, TaskDropStep, TaskFreeStep, Zenon DEF Task
    <2> QED BY <2>2, <2>3, <2>4, CompareStep, Zenon DEF DumpNext
  <1> QED BY <1>1, InitDump, PTL DEF DumpSpec

\* Guards are neither leaked nor dropped twice, a peer has one dump, the budget holds.
THEOREM DumpSlotsAccounted == DumpSpec => []SlotsAccounted
  <1>1. DumpInv => SlotsAccounted
    <2> SUFFICES ASSUME DumpInv PROVE SlotsAccounted
      OBVIOUS
    <2> DEFINE Marks(p) == {w \in Starting : PeerOf(w) = p}
               Tasked(p) == {w \in Busy : PeerOf(w) = p}
    <2>1. ASSUME NEW p \in Peers
          PROVE  Cardinality(Marks(p)) + Cardinality(Tasked(p)) = (IF p \in in_flight THEN 1 ELSE 0)
      <3>1. Starting \subseteq Work /\ Busy \subseteq Work
        BY CallHolds, Zenon DEF DumpInv, Starting, CallAt, Busy, TasksAt
      <3>2. \A v, w \in Starting : v = w
        BY Zenon DEF Starting, CallAt
      <3>3. CASE p \notin in_flight
        <4>1. \A w \in Starting \cup Busy : PeerOf(w) # p
          BY <3>3, Zenon DEF DumpInv, Marked
        <4>2. Marks(p) = {} /\ Tasked(p) = {}
          BY <4>1, Zenon
        <4> QED BY <3>3, <4>2, UnitsFinite
      <3>4. CASE p \in in_flight
        <4>1. PICK w \in Starting \cup Busy : PeerOf(w) = p
          BY <3>4, Zenon DEF DumpInv, Marked
        <4>2. CASE w \in Starting
          <5>1. \A v \in Busy : PeerOf(v) # p
            BY <4>1, <4>2, Zenon DEF DumpInv, Marked
          <5>2. Marks(p) = {w} /\ Tasked(p) = {}
            BY <3>2, <4>1, <4>2, <5>1, Zenon
          <5> QED BY <3>1, <3>4, <4>2, <5>2, UnitsFinite
        <4>3. CASE w \in Busy
          <5>1. /\ \A v \in Starting : PeerOf(v) # p
                /\ \A v \in Busy : PeerOf(v) = p => v = w
            BY <4>1, <4>3, Zenon DEF DumpInv, Marked
          <5>2. Marks(p) = {} /\ Tasked(p) = {w}
            BY <4>1, <4>3, <5>1, Zenon
          <5> QED BY <3>1, <3>4, <4>3, <5>2, UnitsFinite
        <4> QED BY <4>1, <4>2, <4>3, Zenon
      <3> QED BY <3>3, <3>4, Zenon
    <2>2. count <= Budget /\ count = Cardinality(CallUnits) + Cardinality(TaskUnits)
      BY Zenon DEF DumpInv, UnitsCounted
    <2> QED BY <2>1, <2>2, Zenon
         DEF SlotsAccounted, Starting, Busy, CallUnits, TaskUnits, CallAt, TasksAt
  <1> QED BY <1>1, DumpsInvariant, PTL

\* Ranges that were not refused stay stashed or with a task until they are sent.
THEOREM DumpsForgetNothing == DumpSpec => []NothingForgotten
  <1>1. DumpInv => NothingForgotten
    BY Zenon DEF DumpInv
  <1> QED BY <1>1, DumpsInvariant, PTL
==============================================================================
