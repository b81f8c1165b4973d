------------------------------ MODULE PollTuning ------------------------------
(***************************************************************************)
(* The durations one poll is planned, gated and judged with: LivenessPolicy *)
(* (liveness.rs), PollTuning and the metrics a configuration plans          *)
(* (config.rs), as functions of a record.                                   *)
(***************************************************************************)
EXTENDS Telemetry

CONSTANTS
    MaxTuningDuration, \* the ceiling of every configured duration
    BackoffCeiling,    \* five minutes
    DurationMax        \* the widest span, where arithmetic saturates

ASSUME TuningAssumption ==
    /\ MaxTuningDuration \in Nat \ {0}
    /\ BackoffCeiling \in Nat \ {0}
    /\ DurationMax \in Nat
    /\ DurationMax >= 6 * MaxTuningDuration
    /\ MaxTuningDuration >= BackoffCeiling

Saturated(d) == IF d > DurationMax THEN DurationMax ELSE d

-----------------------------------------------------------------------------
\* LivenessPolicy: [beat, staleAfter, downAfter], the last two in beats.
LivenessValid(l) ==
    /\ l.beat > 0
    /\ l.staleAfter >= 1 /\ l.downAfter >= 1
    /\ l.staleAfter < l.downAfter

StaleThreshold(l) == Saturated(l.beat * l.staleAfter)
DownThreshold(l) == Saturated(l.beat * l.downAfter)

\* Both bounds are inclusive; a heartbeat from the future is Alive.
Liveness(l, lastHeartbeat, asOf) ==
    IF lastHeartbeat = None THEN "Unknown"
    ELSE IF asOf - lastHeartbeat <= StaleThreshold(l) THEN "Alive"
    ELSE IF asOf - lastHeartbeat <= DownThreshold(l) THEN "Stale"
    ELSE "Down"

-----------------------------------------------------------------------------
\* PollTuning: [liveness, pollInterval, metricStep, chartWindow,
\* maxStaleness, lag, forgetAfter, maxHosts].
HostWindow(t) ==
    Saturated(Saturated(DownThreshold(t.liveness) + 2 * t.liveness.beat) + t.lag)
DetailWindow(t) == Saturated(t.chartWindow + t.lag)
EvidenceHorizon(t) == Saturated(t.maxStaleness + t.lag)
OverviewWindow(t) == Saturated(EvidenceHorizon(t) + 2 * t.metricStep)
StalenessTolerance(t) == Saturated(2 * t.pollInterval + t.metricStep)
FreshnessBudget(t) == DownThreshold(t.liveness)

\* The poll interval doubled once per consecutive failure, five times at most.
BackoffAfter(t, failures) ==
    LET doubled == << 1, 2, 4, 8, 16, 32 >>
        factor == doubled[1 + (IF failures < 5 THEN failures ELSE 5)]
        wait == Saturated(t.pollInterval * factor)
    IN IF wait < BackoffCeiling THEN wait ELSE BackoffCeiling

WithinCeiling(t) ==
    \A d \in {t.liveness.beat, StaleThreshold(t.liveness),
              DownThreshold(t.liveness), t.pollInterval, t.metricStep,
              t.chartWindow, t.maxStaleness, t.lag, t.forgetAfter} :
        d <= MaxTuningDuration

LivenessUsable(l) ==
    /\ l.beat > 0
    /\ StaleThreshold(l) < DownThreshold(l)
    /\ StaleThreshold(l) >= Saturated(3 * l.beat)

Interlocked(t) ==
    /\ t.pollInterval > 0
    /\ t.metricStep >= Second
    /\ t.maxStaleness >= Saturated(3 * t.metricStep)
    /\ t.maxStaleness <= DownThreshold(t.liveness)
    /\ t.chartWindow >= Saturated(t.maxStaleness + t.metricStep)
    /\ t.lag >= 0
    /\ t.forgetAfter >= DownThreshold(t.liveness)
    /\ StalenessTolerance(t) <= FreshnessBudget(t)
    /\ t.maxHosts >= 1

TuningValid(t) == WithinCeiling(t) /\ LivenessUsable(t.liveness) /\ Interlocked(t)

\* PollTuning::from_liveness, the preset, with its three policy constants.
FromLiveness(l, hour, minute) ==
    [liveness |-> l, pollInterval |-> l.beat, metricStep |-> l.beat,
     chartWindow |-> hour, maxStaleness |-> DownThreshold(l),
     lag |-> 3 * minute, forgetAfter |-> 24 * hour, maxHosts |-> 256]

-----------------------------------------------------------------------------
\* FleetConfig: [tuning, rules, overview, detail, focus]; rules is a set of
\* records with distinct ids.
EnabledRules(config) == {r \in config.rules : r.enabled}
PlannedMetrics(config) ==
    config.overview \cup {r.metric : r \in EnabledRules(config)}

\* FleetConfig::audit, over every rule, disabled ones too.
Audit(config) ==
    {<<"SpikeCanFire", r.id>> :
        r \in {x \in config.rules : x.dwell < EvidenceHorizon(config.tuning)}}
    \cup {<<"CounterThresholdIsRate", r.id>> :
        r \in {x \in config.rules :
                 x.metric \in {"NetworkIo", "AgentCollectionFailures"}}}
    \cup {<<"SelectorMatchesNothing", r.id>> :
        r \in {x \in config.rules : x.selector = SelectAnyOf({})}}
=============================================================================
