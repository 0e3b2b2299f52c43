--------------------------- MODULE CircuitBreaker ---------------------------
(* The in-process circuit breaker of internal/resilience/breaker.go, shared   *)
(* by every caller of one store scope.  Its mutex makes each method one step; *)
(* what is concurrent is everything between the methods: a caller asks        *)
(* whether a probe is due, asks Allow, performs its operation and records the *)
(* result, and other callers, the store and the clock move in between.        *)
(* Time is kept as what the code compares: the wait left until the deadline   *)
(* and the time since the last probe, in ticks.                               *)
(* Nothing else of the repository imports the package: the callers below are  *)
(* the ones its comments describe.                                            *)
EXTENDS Integers, FiniteSets

CONSTANTS
    Callers,              \* the goroutines that share the breaker
    ConsecutiveFailures,  \* failures that trip a closed breaker
    OpenBase,             \* first cap of the open-state backoff
    OpenMax,              \* largest cap of it
    HalfOpenInterval,     \* spacing of probes while half-open
    TripCap,              \* bound: trips past this one no longer change the cap
    MaxMishaps,           \* bound: operations that end without a recorded result
    MaxOutages            \* bound: times the store goes down

\* withDefaults leaves every setting positive and OpenMax at least OpenBase.
ASSUME SettingsAssumption ==
    /\ ConsecutiveFailures \in Nat \ {0}
    /\ OpenBase \in Nat \ {0}
    /\ OpenMax \in Nat /\ OpenMax >= OpenBase
    /\ HalfOpenInterval \in Nat \ {0}

\* The saturation of trips at TripCap is invisible to backoffCapLocked.
ASSUME TripCapAssumption ==
    TripCap \in Nat \ {0} /\ OpenBase * 2^(TripCap - 1) >= OpenMax

ASSUME BoundsAssumption == MaxMishaps \in Nat /\ MaxOutages \in Nat

VARIABLES
    enabled,   \* Settings.Enabled
    state, failures, trips,
    wait,      \* deadline - now, while open
    since,     \* now - lastProbeAt, up to HalfOpenInterval, while half-open
    op,        \* what each caller is doing
    store,     \* is the backing store reachable?
    health,    \* the last verdict of the store-health probe
    outages, mishaps,
    probes     \* history: probe admissions since the breaker was last closed

breaker == <<state, failures, trips, wait, since>>
world == <<store, health, outages, mishaps>>
vars == <<enabled, breaker, op, world, probes>>

States == {"closed", "open", "half-open"}

\* A caller is idle, about to call Allow, in flight, or about to record.
Phases == {"idle", "asking", "inflight", "succeeded", "failed"}
\* How it was admitted: a "probe" of the present half-open episode, a probe
\* whose episode is "over", or "free" through a closed breaker; and, for a
\* probe of this episode, how long ago, up to HalfOpenInterval.
Ops == [phase : Phases, as : {"free", "probe", "over"}, age : 0..HalfOpenInterval]
Idle == [phase |-> "idle", as |-> "free", age |-> 0]

Upto(n, cap) == IF n > cap THEN cap ELSE n

Init ==
    /\ enabled \in BOOLEAN
    /\ state = "closed" /\ failures = 0 /\ trips = 0 /\ wait = 0 /\ since = 0
    /\ op = [c \in Callers |-> Idle]
    /\ store = "up" /\ health = "up" /\ outages = 0 /\ mishaps = 0
    /\ probes = 0

----------------------------------------------------------------------------
(* The breaker's methods.                                                    *)

Available == enabled => state = "closed"

ProbeDue ==
    /\ enabled
    /\ \/ state = "open" /\ wait = 0
       \/ state = "half-open" /\ since >= HalfOpenInterval

\* The caller c goes ahead with its operation.
Admit(c, how) ==
    op' = [op EXCEPT ![c] = [phase |-> "inflight", as |-> how, age |-> 0]]

AllowFree(c) ==
    /\ Available
    /\ Admit(c, "free")
    /\ UNCHANGED <<breaker, probes>>

\* Mutant: the probe admitted at the deadline forgets to stamp lastProbeAt.
AllowProbeUnstamped(c) ==
    /\ ~Available
    /\ \/ state = "open" /\ wait = 0
       \/ state = "half-open" /\ since >= HalfOpenInterval
    /\ state' = "half-open"
    /\ since' = IF state = "open" THEN HalfOpenInterval ELSE 0
    /\ probes' = Upto(probes + 1, TripCap)
    /\ Admit(c, "probe")
    /\ UNCHANGED <<failures, trips, wait>>

\* Both ways to become a probe stamp lastProbeAt.
AllowProbe(c) ==
    /\ ~Available
    /\ \/ state = "open" /\ wait = 0
       \/ state = "half-open" /\ since >= HalfOpenInterval
    /\ state' = "half-open"
    /\ since' = 0
    /\ probes' = Upto(probes + 1, TripCap)
    /\ Admit(c, "probe")
    /\ UNCHANGED <<failures, trips, wait>>

Rejected(c) ==
    /\ ~Available
    /\ \/ state = "open" /\ wait > 0
       \/ state = "half-open" /\ since < HalfOpenInterval
    /\ op' = [op EXCEPT ![c] = Idle]
    /\ UNCHANGED <<breaker, probes>>

\* Mutant: the doubling is not capped.
BackoffsUncapped(t) == 1..(OpenBase * 2^(t - 1))

\* The waits full jitter may draw for the trip count t: (0, cap], where the
\* cap is OpenBase doubled t - 1 times and never more than OpenMax.
Backoffs(t) == {b \in 1..OpenMax : b <= OpenBase * 2^(t - 1)}

\* openLocked, with t trips.  Probes of the episode that ends are not the next
\* one's.
Opens(t) ==
    /\ trips' = Upto(t, TripCap)
    /\ state' = "open"
    /\ wait' \in Backoffs(Upto(t, TripCap))
    /\ UNCHANGED since

Settled(c, ops) == [ops EXCEPT ![c] = Idle]
EpisodeOver(ops) ==
    [c \in Callers |-> IF ops[c].as = "probe"
                      THEN [phase |-> ops[c].phase, as |-> "over", age |-> 0]
                      ELSE ops[c]]

RecordSuccess(c) ==
    /\ op[c].phase = "succeeded"
    /\ IF enabled
       THEN /\ failures' = 0 /\ trips' = 0 /\ state' = "closed"
            /\ probes' = 0
            /\ op' = Settled(c, EpisodeOver(op))
       ELSE /\ op' = Settled(c, op)
            /\ UNCHANGED <<failures, trips, state, probes>>
    /\ UNCHANGED <<enabled, wait, since, world>>

\* Mutant: a straggler's failure counts as another trip while the breaker is open.
FailsWhileOpen ==
    \/ /\ ~enabled
       /\ UNCHANGED breaker
    \/ /\ enabled /\ state # "closed"
       /\ Opens(trips + 1)
       /\ UNCHANGED failures
    \/ /\ enabled /\ state = "closed"
       /\ failures' = failures + 1
       /\ IF failures + 1 >= ConsecutiveFailures
          THEN Opens(1)
          ELSE UNCHANGED <<state, trips, wait, since>>

\* What a failure does to the breaker: nothing while it is open (a straggler
\* does not extend the episode) or disabled.
Fails ==
    \/ /\ ~enabled \/ state = "open"
       /\ UNCHANGED breaker
    \/ /\ enabled /\ state = "half-open"
       /\ Opens(trips + 1)
       /\ UNCHANGED failures
    \/ /\ enabled /\ state = "closed"
       /\ failures' = failures + 1
       /\ IF failures + 1 >= ConsecutiveFailures
          THEN Opens(1)
          ELSE UNCHANGED <<state, trips, wait, since>>

RecordFailure(c) ==
    /\ op[c].phase = "failed"
    /\ Fails
    /\ op' = Settled(c, IF state' = "open" THEN EpisodeOver(op) ELSE op)
    /\ UNCHANGED <<enabled, world, probes>>

\* An out-of-band health signal forces the breaker open.
Trip ==
    /\ health = "down"
    /\ enabled /\ state # "open"
    /\ Opens(IF state = "half-open" THEN trips + 1 ELSE 1)
    /\ op' = EpisodeOver(op)
    /\ UNCHANGED <<enabled, failures, world, probes>>

----------------------------------------------------------------------------
(* Callers, the store, its health probe and the clock.                       *)

\* A periodic loop looks before it runs its cycle: it skips one while the
\* breaker is not closed and no probe is due.
Look(c) ==
    /\ op[c].phase = "idle"
    /\ Available \/ ProbeDue
    /\ op' = [op EXCEPT ![c].phase = "asking"]
    /\ UNCHANGED <<enabled, breaker, world, probes>>

Allow(c) ==
    /\ op[c].phase = "asking"
    /\ AllowFree(c) \/ AllowProbe(c) \/ Rejected(c)
    /\ UNCHANGED <<enabled, world>>

\* The store answers, or the transport to it fails; the result is recorded
\* later.
Answer(c) ==
    /\ op[c].phase = "inflight"
    /\ op' = [op EXCEPT ![c].phase = IF store = "up" THEN "succeeded" ELSE "failed"]
    /\ UNCHANGED <<enabled, breaker, world, probes>>

\* The caller dies, or gets an application-level error, which is not recorded:
\* a probe that ends so resolves nothing.
Mishap(c) ==
    /\ op[c].phase \in {"inflight", "succeeded", "failed"}
    /\ mishaps < MaxMishaps
    /\ mishaps' = mishaps + 1
    /\ op' = [op EXCEPT ![c] = Idle]
    /\ UNCHANGED <<enabled, breaker, store, health, outages, probes>>

StoreFails ==
    /\ store = "up" /\ outages < MaxOutages
    /\ store' = "down" /\ outages' = outages + 1
    /\ UNCHANGED <<enabled, breaker, op, health, mishaps, probes>>

StoreRecovers ==
    /\ store = "down"
    /\ store' = "up"
    /\ UNCHANGED <<enabled, breaker, op, health, outages, mishaps, probes>>

\* The health probe reports some time after it looked.
HealthCheck ==
    /\ health # store
    /\ health' = store
    /\ UNCHANGED <<enabled, breaker, op, store, outages, mishaps, probes>>

Tick ==
    /\ wait' = IF wait > 0 THEN wait - 1 ELSE 0
    /\ since' = Upto(since + 1, HalfOpenInterval)
    /\ op' = [c \in Callers |->
                [op[c] EXCEPT !.age = IF op[c].as = "probe"
                                      THEN Upto(@ + 1, HalfOpenInterval) ELSE 0]]
    /\ UNCHANGED <<enabled, state, failures, trips, world, probes>>

CallerNext(c) ==
    Look(c) \/ Allow(c) \/ Answer(c) \/ RecordSuccess(c) \/ RecordFailure(c)

Next ==
    \/ \E c \in Callers : CallerNext(c) \/ Mishap(c)
    \/ Trip \/ StoreFails \/ StoreRecovers \/ HealthCheck \/ Tick

Spec == Init /\ [][Next]_vars

----------------------------------------------------------------------------
(* Properties.                                                               *)

\* The counts stay within the settings, and the wait drawn never passes OpenMax
\* however often the breaker trips (backoffCapLocked).
TypeOK ==
    /\ enabled \in BOOLEAN
    /\ state \in States
    /\ failures \in 0..ConsecutiveFailures
    /\ trips \in 0..TripCap
    /\ wait \in 0..OpenMax
    /\ since \in 0..HalfOpenInterval
    /\ op \in [Callers -> Ops]
    /\ store \in {"up", "down"} /\ health \in {"up", "down"}
    /\ outages \in 0..MaxOutages /\ mishaps \in 0..MaxMishaps
    /\ probes \in 0..TripCap

\* The backoff is doubled once for each probe that was let through and no
\* more often, however many stragglers of the same outage report their failure
\* late (breaker.go: RecordFailure is "a no-op while already open (stragglers
\* don't extend the episode)"), and a breaker that closed starts over.
BackoffIsEarned ==
    /\ trips <= probes + 1
    /\ state = "half-open" => trips <= probes
    /\ state = "closed" => trips = 0

\* Within one half-open episode probes are HalfOpenInterval apart: of the
\* episode's probes in flight at most one is younger, even when callers lost
\* the race between ProbeDue and Allow or an earlier probe never answered.
ProbesAreSpaced ==
    \A c, d \in Callers :
        /\ op[c].as = "probe" /\ op[c].age < HalfOpenInterval
        /\ op[d].as = "probe" /\ op[d].age < HalfOpenInterval
        => c = d
=============================================================================
