------------------------ MODULE CircuitBreakerProofs ------------------------
(* The breaker's invariants for any number of callers and any settings.       *)
EXTENDS CircuitBreaker, TLAPS

\* A closed breaker is short of its threshold.
ShortOfTrip == state = "closed" => failures < ConsecutiveFailures

\* A probe of the present episode exists only while half-open, and none is
\* younger than lastProbeAt says.
ProbesAreStamped ==
    \A c \in Callers :
        op[c].as = "probe" => state = "half-open" /\ op[c].age >= since

BreakerInv ==
    /\ TypeOK /\ ShortOfTrip
    /\ BackoffIsEarned
    /\ ProbesAreStamped /\ ProbesAreSpaced

LEMMA UptoType ==
    ASSUME NEW n \in Nat, NEW cap \in Nat
    PROVE  Upto(n, cap) \in 0..cap /\ Upto(n, cap) <= n
BY DEF Upto

LEMMA BackoffsType ==
    ASSUME NEW t PROVE Backoffs(t) \subseteq 1..OpenMax
BY DEF Backoffs

LEMMA InitInv == Init => BreakerInv
<1> SUFFICES ASSUME Init PROVE BreakerInv
  OBVIOUS
<1>1. TypeOK
  BY SettingsAssumption, TripCapAssumption, BoundsAssumption
     DEF Init, TypeOK, States, Ops, Phases, Idle
<1>2. ShortOfTrip
  BY SettingsAssumption DEF Init, ShortOfTrip
<1>3. BackoffIsEarned
  BY DEF Init, BackoffIsEarned
<1>4. ProbesAreStamped /\ ProbesAreSpaced
  BY DEF Init, ProbesAreStamped, ProbesAreSpaced, Idle
<1> QED BY <1>1, <1>2, <1>3, <1>4 DEF BreakerInv

\* What an opening leaves behind, once the episode's probes are marked as over.
LEMMA OpeningInv ==
    ASSUME BreakerInv, NEW t \in Nat \ {0}, Opens(t),
           failures' \in 0..ConsecutiveFailures,
           t <= probes + 1, UNCHANGED <<enabled, world, probes>>,
           op' \in [Callers -> Ops], \A c \in Callers : op'[c].as # "probe"
    PROVE  BreakerInv'
<1>1. trips' \in 0..TripCap /\ trips' <= probes + 1 /\ state' = "open" /\ since' = since
  BY UptoType, TripCapAssumption DEF Opens, BreakerInv, TypeOK
<1>2. wait' \in 0..OpenMax
  BY BackoffsType, SettingsAssumption DEF Opens
<1>3. TypeOK'
  BY <1>1, <1>2 DEF BreakerInv, TypeOK, States, world
<1>4. ShortOfTrip' /\ BackoffIsEarned'
  BY <1>1 DEF ShortOfTrip, BackoffIsEarned
<1>5. ProbesAreStamped' /\ ProbesAreSpaced'
  BY DEF ProbesAreStamped, ProbesAreSpaced
<1> QED BY <1>3, <1>4, <1>5 DEF BreakerInv

LEMMA EpisodeOverType ==
    ASSUME NEW ops \in [Callers -> Ops]
    PROVE  /\ EpisodeOver(ops) \in [Callers -> Ops]
           /\ \A c \in Callers : EpisodeOver(ops)[c].as # "probe"
<1>1. ASSUME NEW c \in Callers
      PROVE  EpisodeOver(ops)[c] \in Ops /\ EpisodeOver(ops)[c].as # "probe"
  BY SettingsAssumption DEF EpisodeOver, Ops
<1> QED BY <1>1 DEF EpisodeOver

LEMMA SettledType ==
    ASSUME NEW ops \in [Callers -> Ops], NEW c \in Callers
    PROVE  /\ Settled(c, ops) \in [Callers -> Ops]
           /\ Settled(c, ops)[c] = Idle
           /\ \A d \in Callers : d # c => Settled(c, ops)[d] = ops[d]
BY SettingsAssumption DEF Settled, Ops, Idle, Phases

\* A step that changes callers without making any of them a probe, and
\* nothing of the breaker, keeps the invariant.
LEMMA CallersMove ==
    ASSUME BreakerInv, UNCHANGED <<enabled, breaker, probes>>,
           op' \in [Callers -> Ops],
           \A c \in Callers : op'[c].as = "probe" => op'[c].as = op[c].as /\ op'[c].age = op[c].age,
           store' \in {"up", "down"}, health' \in {"up", "down"},
           outages' \in 0..MaxOutages, mishaps' \in 0..MaxMishaps
    PROVE  BreakerInv'
<1>1. TypeOK'
  BY DEF BreakerInv, TypeOK, breaker
<1>2. ShortOfTrip' /\ BackoffIsEarned'
  BY DEF BreakerInv, ShortOfTrip, BackoffIsEarned, breaker
<1>3. ProbesAreStamped'
  BY DEF BreakerInv, ProbesAreStamped, breaker
<1>4. ProbesAreSpaced'
  BY DEF BreakerInv, ProbesAreSpaced
<1> QED BY <1>1, <1>2, <1>3, <1>4 DEF BreakerInv

LEMMA AllowKeeps ==
    ASSUME BreakerInv, NEW c \in Callers, Allow(c) PROVE BreakerInv'
<1> USE SettingsAssumption DEF BreakerInv
<1>1. CASE AllowFree(c)
  <2>1. op' \in [Callers -> Ops] /\ \A d \in Callers : op'[d].as = "probe" => op'[d] = op[d]
    BY <1>1 DEF AllowFree, Admit, TypeOK, Ops, Phases
  <2> QED BY <2>1, <1>1, CallersMove DEF AllowFree, Allow, world, TypeOK
<1>2. CASE Rejected(c)
  <2>1. op' \in [Callers -> Ops] /\ \A d \in Callers : op'[d].as = "probe" => op'[d] = op[d]
    BY <1>2 DEF Rejected, Idle, TypeOK, Ops, Phases
  <2> QED BY <2>1, <1>2, CallersMove DEF Rejected, Allow, world, TypeOK
<1>3. CASE AllowProbe(c)
  <2>1. op' \in [Callers -> Ops]
    BY <1>3 DEF AllowProbe, Admit, TypeOK, Ops, Phases
  <2>2. op'[c].as = "probe" /\ op'[c].age = 0 /\ \A d \in Callers : d # c => op'[d] = op[d]
    BY <1>3 DEF AllowProbe, Admit, TypeOK
  <2>3. probes' \in 0..TripCap /\ (probes' = probes + 1 \/ probes' = TripCap)
    BY <1>3, UptoType, TripCapAssumption DEF AllowProbe, TypeOK, Upto
  <2>4. TypeOK'
    BY <1>3, <2>1, <2>3 DEF AllowProbe, Allow, TypeOK, States, world
  <2>5. ShortOfTrip'
    BY <1>3 DEF AllowProbe, ShortOfTrip
  <2>6. BackoffIsEarned'
    BY <1>3, <2>3, TripCapAssumption DEF AllowProbe, BackoffIsEarned, TypeOK
  <2>7. ASSUME NEW d \in Callers, d # c, op[d].as = "probe" PROVE op[d].age >= HalfOpenInterval
    <3>1. state = "half-open" /\ op[d].age >= since
      BY <2>7 DEF ProbesAreStamped
    <3>2. since >= HalfOpenInterval
      BY <3>1, <1>3 DEF AllowProbe
    <3> QED BY <3>1, <3>2 DEF TypeOK, Ops
  <2>8. ProbesAreStamped'
    <3>1. state' = "half-open" /\ since' = 0
      BY <1>3 DEF AllowProbe
    <3>2. \A d \in Callers : op'[d].age \in Nat
      BY <2>1 DEF Ops
    <3> QED BY <3>1, <3>2 DEF ProbesAreStamped
  <2>9. ProbesAreSpaced'
    <3>1. ASSUME NEW d \in Callers, d # c, op'[d].as = "probe", op'[d].age < HalfOpenInterval PROVE FALSE
      BY <3>1, <2>2, <2>7 DEF TypeOK, Ops
    <3> QED BY <3>1 DEF ProbesAreSpaced
  <2> QED BY <2>4, <2>5, <2>6, <2>8, <2>9
<1> QED BY <1>1, <1>2, <1>3 DEF Allow

LEMMA SuccessKeeps ==
    ASSUME BreakerInv, NEW c \in Callers, RecordSuccess(c) PROVE BreakerInv'
<1> USE SettingsAssumption DEF BreakerInv
<1>1. CASE enabled
  <2>1. op' \in [Callers -> Ops] /\ \A d \in Callers : op'[d].as # "probe"
    <3>1. op' = Settled(c, EpisodeOver(op))
      BY <1>1 DEF RecordSuccess
    <3>2. EpisodeOver(op) \in [Callers -> Ops] /\ \A d \in Callers : EpisodeOver(op)[d].as # "probe"
      BY EpisodeOverType DEF TypeOK
    <3> QED BY <3>1, <3>2, SettledType DEF Idle
  <2>2. failures' = 0 /\ trips' = 0 /\ state' = "closed" /\ probes' = 0
    BY <1>1 DEF RecordSuccess
  <2>3. TypeOK'
    BY <2>1, <2>2, TripCapAssumption DEF RecordSuccess, TypeOK, States, world
  <2>4. ShortOfTrip' /\ BackoffIsEarned'
    BY <2>2 DEF ShortOfTrip, BackoffIsEarned
  <2>5. ProbesAreStamped' /\ ProbesAreSpaced'
    BY <2>1 DEF ProbesAreStamped, ProbesAreSpaced
  <2> QED BY <2>3, <2>4, <2>5
<1>2. CASE ~enabled
  <2>1. op' \in [Callers -> Ops] /\ \A d \in Callers : op'[d].as = "probe" => op'[d] = op[d]
    BY <1>2, SettledType DEF RecordSuccess, TypeOK, Idle
  <2> QED BY <2>1, <1>2, CallersMove DEF RecordSuccess, breaker, world, TypeOK
<1> QED BY <1>1, <1>2

LEMMA FailureKeeps ==
    ASSUME BreakerInv, NEW c \in Callers, RecordFailure(c) PROVE BreakerInv'
<1> USE SettingsAssumption DEF BreakerInv
<1>0. EpisodeOver(op) \in [Callers -> Ops] /\ \A d \in Callers : EpisodeOver(op)[d].as # "probe"
  BY EpisodeOverType DEF TypeOK
<1>2. state' = "open" => op' \in [Callers -> Ops] /\ \A d \in Callers : op'[d].as # "probe"
  <2> SUFFICES ASSUME state' = "open" PROVE op' \in [Callers -> Ops] /\ \A d \in Callers : op'[d].as # "probe"
    OBVIOUS
  <2>1. op' = Settled(c, EpisodeOver(op))
    BY DEF RecordFailure
  <2> QED BY <1>0, <2>1, SettledType DEF Idle
<1>1. op' \in [Callers -> Ops] /\ \A d \in Callers : op'[d].as = "probe" => op'[d] = op[d]
  <2>1. CASE state' = "open"
    BY <1>2, <2>1
  <2>2. CASE state' # "open"
    <3>1. op' = Settled(c, op)
      BY <2>2 DEF RecordFailure
    <3> QED BY <3>1, SettledType DEF TypeOK, Idle
  <2> QED BY <2>1, <2>2
<1>3. CASE UNCHANGED breaker
  BY <1>1, <1>3, CallersMove DEF RecordFailure, world, TypeOK
<1>4. CASE enabled /\ state = "half-open" /\ Opens(trips + 1) /\ UNCHANGED failures
  <2>1. trips + 1 \in Nat \ {0} /\ trips + 1 <= probes + 1 /\ state' = "open"
    BY <1>4 DEF TypeOK, BackoffIsEarned, Opens
  <2> QED BY <2>1, <1>1, <1>2, <1>4, OpeningInv DEF RecordFailure, TypeOK
<1>5. CASE enabled /\ state = "closed" /\ failures' = failures + 1 /\ failures + 1 >= ConsecutiveFailures /\ Opens(1)
  <2>1. failures' \in 0..ConsecutiveFailures /\ 1 <= probes + 1 /\ state' = "open"
    BY <1>5 DEF TypeOK, ShortOfTrip, Opens
  <2> QED BY <2>1, <1>1, <1>2, <1>5, OpeningInv DEF RecordFailure, TypeOK
<1>6. CASE /\ enabled /\ state = "closed" /\ failures' = failures + 1
           /\ ~(failures + 1 >= ConsecutiveFailures) /\ UNCHANGED <<state, trips, wait, since>>
  <2>1. failures' \in 0..ConsecutiveFailures /\ failures' < ConsecutiveFailures
    BY <1>6 DEF TypeOK
  <2>2. TypeOK'
    BY <1>1, <1>6, <2>1 DEF RecordFailure, TypeOK, world
  <2>3. ShortOfTrip' /\ BackoffIsEarned'
    BY <1>6, <2>1 DEF RecordFailure, ShortOfTrip, BackoffIsEarned
  <2>4. ProbesAreStamped'
    BY <1>1, <1>6 DEF ProbesAreStamped
  <2>5. ProbesAreSpaced'
    BY <1>1 DEF ProbesAreSpaced
  <2> QED BY <2>2, <2>3, <2>4, <2>5
<1> QED BY <1>3, <1>4, <1>5, <1>6 DEF RecordFailure, Fails

LEMMA TickKeeps ==
    ASSUME BreakerInv, Tick PROVE BreakerInv'
<1> USE SettingsAssumption DEF BreakerInv
<1>1. since' \in 0..HalfOpenInterval /\ (since' = since + 1 \/ since' = HalfOpenInterval) /\ since' <= since + 1
  BY DEF Tick, TypeOK, Upto
<1>2. ASSUME NEW c \in Callers
      PROVE  /\ op'[c] \in Ops /\ op'[c].as = op[c].as
             /\ op[c].as = "probe" =>
                  op'[c].age = IF op[c].age + 1 > HalfOpenInterval THEN HalfOpenInterval ELSE op[c].age + 1
  BY DEF Tick, TypeOK, Ops, Upto
<1>3. op' \in [Callers -> Ops]
  BY <1>2 DEF Tick
<1>4. wait' \in 0..OpenMax
  BY DEF Tick, TypeOK
<1>5. TypeOK'
  BY <1>1, <1>3, <1>4 DEF Tick, TypeOK, world
<1>6. ShortOfTrip' /\ BackoffIsEarned'
  BY DEF Tick, ShortOfTrip, BackoffIsEarned
<1>7. ASSUME NEW c \in Callers, op'[c].as = "probe"
      PROVE  state' = "half-open" /\ op'[c].age >= since' /\ (op'[c].age < HalfOpenInterval => op[c].age < HalfOpenInterval)
  <2>1. op[c].as = "probe" /\ state = "half-open" /\ op[c].age >= since
    BY <1>2, <1>7 DEF ProbesAreStamped
  <2>2. op[c].age \in 0..HalfOpenInterval /\ since \in 0..HalfOpenInterval
    BY DEF TypeOK, Ops
  <2>3. op'[c].age = IF op[c].age + 1 > HalfOpenInterval THEN HalfOpenInterval ELSE op[c].age + 1
    BY <1>2, <2>1
  <2>4. since' = IF since + 1 > HalfOpenInterval THEN HalfOpenInterval ELSE since + 1
    BY DEF Tick, Upto
  <2>5. state' = state
    BY DEF Tick
  <2> QED BY <2>1, <2>2, <2>3, <2>4, <2>5
<1>8. ProbesAreStamped'
  BY <1>7 DEF ProbesAreStamped
<1>9. ProbesAreSpaced'
  BY <1>2, <1>7 DEF ProbesAreSpaced
<1> QED BY <1>5, <1>6, <1>8, <1>9

LEMMA NextInv == BreakerInv /\ [Next]_vars => BreakerInv'
<1> SUFFICES ASSUME BreakerInv, [Next]_vars PROVE BreakerInv'
  OBVIOUS
<1> USE SettingsAssumption DEF BreakerInv
<1>1. ASSUME NEW c \in Callers, Look(c) \/ Answer(c) \/ Mishap(c) PROVE BreakerInv'
  <2>1. op' \in [Callers -> Ops]
    BY <1>1 DEF Look, Answer, Mishap, Idle, TypeOK, Ops, Phases
  <2>2. \A d \in Callers : op'[d].as = "probe" => op'[d].as = op[d].as /\ op'[d].age = op[d].age
    BY <1>1 DEF Look, Answer, Mishap, Idle, TypeOK, Ops
  <2>3. /\ UNCHANGED <<enabled, breaker, probes>> /\ store' = store /\ health' = health
        /\ outages' = outages /\ mishaps' \in 0..MaxMishaps
    BY <1>1, BoundsAssumption DEF Look, Answer, Mishap, TypeOK, world
  <2> QED BY <2>1, <2>2, <2>3, CallersMove DEF TypeOK
<1>2. ASSUME NEW c \in Callers, Allow(c) PROVE BreakerInv'
  BY <1>2, AllowKeeps
<1>3. ASSUME NEW c \in Callers, RecordSuccess(c) PROVE BreakerInv'
  BY <1>3, SuccessKeeps
<1>4. ASSUME NEW c \in Callers, RecordFailure(c) PROVE BreakerInv'
  BY <1>4, FailureKeeps
<1>5. CASE Trip
  <2>1. EpisodeOver(op) \in [Callers -> Ops] /\ \A d \in Callers : EpisodeOver(op)[d].as # "probe"
    BY EpisodeOverType DEF TypeOK
  <2>2. CASE state = "half-open"
    <3>1. trips + 1 \in Nat \ {0} /\ trips + 1 <= probes + 1 /\ Opens(trips + 1)
      BY <1>5, <2>2 DEF Trip, TypeOK, BackoffIsEarned
    <3> QED BY <1>5, <2>1, <3>1, OpeningInv DEF Trip, TypeOK
  <2>3. CASE state # "half-open"
    <3>1. 1 <= probes + 1 /\ Opens(1)
      BY <1>5, <2>3 DEF Trip, TypeOK
    <3> QED BY <1>5, <2>1, <3>1, OpeningInv DEF Trip, TypeOK
  <2> QED BY <2>2, <2>3
<1>6. CASE StoreFails \/ StoreRecovers \/ HealthCheck
  <2>1. /\ UNCHANGED <<enabled, breaker, probes>> /\ op' = op /\ mishaps' = mishaps
        /\ store' \in {"up", "down"} /\ health' \in {"up", "down"} /\ outages' \in 0..MaxOutages
    BY <1>6, BoundsAssumption DEF StoreFails, StoreRecovers, HealthCheck, TypeOK
  <2> QED BY <2>1, CallersMove DEF TypeOK
<1>7. CASE Tick
  BY <1>7, TickKeeps
<1>8. CASE UNCHANGED vars
  BY <1>8, CallersMove DEF vars, world, TypeOK
<1> QED BY <1>1, <1>2, <1>3, <1>4, <1>5, <1>6, <1>7, <1>8 DEF Next, CallerNext

\* In every reachable state the breaker's fields are in range: the wait never
\* exceeds OpenMax and a closed breaker is short of its threshold.
THEOREM BreakerTypeCorrect == Spec => []TypeOK
<1>1. BreakerInv => TypeOK
  BY DEF BreakerInv
<1> QED BY <1>1, InitInv, NextInv, PTL DEF Spec

\* For any number of callers and any settings, the backoff doubles at most once
\* for each probe let through (RecordFailure's "stragglers don't extend the
\* episode").
THEOREM BackoffEarned == Spec => []BackoffIsEarned
<1>1. BreakerInv => BackoffIsEarned
  BY DEF BreakerInv
<1> QED BY <1>1, InitInv, NextInv, PTL DEF Spec

\* For any number of callers and any settings, one half-open episode lets its
\* probes through HalfOpenInterval apart.
THEOREM ProbesSpaced == Spec => []ProbesAreSpaced
<1>1. BreakerInv => ProbesAreSpaced
  BY DEF BreakerInv
<1> QED BY <1>1, InitInv, NextInv, PTL DEF Spec
=============================================================================
