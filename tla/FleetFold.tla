------------------------------ MODULE FleetFold ------------------------------
(***************************************************************************)
(* The client's memory of a fleet between polls: FleetState and its fold   *)
(* (fold.rs), the freshness of what it shows (view.rs), over a backend that *)
(* answers, is late, or fails.  FleetState::apply is Apply, its seven steps *)
(* in the code's order; the maps keyed by host and then by metric or rule   *)
(* are functions of pairs.                                                  *)
(***************************************************************************)
EXTENDS PollObservation, SettingsRecords, SeriesMath

CONSTANTS
    Hosts,           \* host ids, integers in the order of the ids
    Records,         \* the configurations an app may hand over
    FirstRecord,     \* the one at launch
    Weathers,        \* what agents did before a poll: [up, high, lag]
    Outages,         \* what fails in a poll: [roster, metrics, detail]
    Delays,          \* how late a poll comes after the instant advised
    MaxPolls,        \* bound: polls in a behaviour
    MaxDisturbances  \* bound: late polls, failures, edits, restarts and losses

ASSUME FoldAssumption ==
    /\ Hosts \subseteq Int /\ IsFiniteSet(Hosts)
    /\ FirstRecord \in Records /\ ConfigFromRecord(FirstRecord).ok
    /\ \A record \in Records :
          /\ record.tuning \in TuningFields
          /\ IsFiniteSet(record.overview) /\ IsFiniteSet(record.detail)
          /\ record.rulesJson # None => IsFiniteSet(record.rulesJson.rules)
    /\ Weathers \subseteq [up : SUBSET Hosts, high : SUBSET Hosts, lag : Nat]
    /\ Outages \subseteq [roster : BOOLEAN, metrics : SUBSET MetricKinds,
                         detail : BOOLEAN, kind : FailureKinds \cup {"none"}]
    /\ Delays \subseteq Nat /\ MaxPolls \in Nat /\ MaxDisturbances \in Nat

VARIABLES
    fleet,      \* FleetState, in the session
    cache,      \* the fleet as last saved
    config,     \* FleetConfig in force
    clock,
    agents,     \* newest export of each host the backend can answer with
    obs,        \* the PollObservation folded last
    news,       \* the transitions of the last fold
    history,    \* read by the properties only: the configuration of the last
                \* fold, per rule the earliest instant of what it was judged on
                \* since watching it last started over, and the pairs whose
                \* last notification said firing
    savedHistory, \* history, as of the cache
    polls, disturbances    \* counted for the bounds

vars == << fleet, cache, config, clock, agents, obs, news, history,
           savedHistory, polls, disturbances >>

-----------------------------------------------------------------------------
\* FleetState::new.
NewFleet ==
    [asOf |-> None, advised |-> None, lastClean |-> None, lastRoster |-> None,
     failures |-> 0, lastFailure |-> None, polled |-> FALSE,
     hosts |-> << >>, series |-> << >>, evals |-> << >>]

\* StoredEvaluation::fresh, and reset, which keeps the fingerprint.
FreshEvaluation(fingerprint) ==
    [fingerprint |-> fingerprint, state |-> NoData, frozen |-> None,
     value |-> None, label |-> None]

\* A bug of IsBlindGap.
GapSinceLastPoll(f, now, t) == f.asOf # None /\ now > f.asOf + t.maxStaleness

\* Step 1.  More than a staleness bound late for the poll the fold itself
\* advised: the interval was not watched.
IsBlindGap(f, now, t) == f.advised # None /\ now > f.advised + t.maxStaleness

\* A bug of ResetAfterBlindGap.
NoBlindGap(f, now, t) == f

ResetAfterBlindGap(f, now, t) ==
    IF IsBlindGap(f, now, t)
    THEN [f EXCEPT !.evals = [p \in DOMAIN @ |-> FreshEvaluation(@[p].fingerprint)]]
    ELSE f

\* HostRecord::merge: a heartbeat only moves forward, and an operating system
\* that is known is not forgotten.
Merge(record, host) ==
    [record EXCEPT
        !.beat = IF @ = None THEN host.beat
                 ELSE IF host.beat # None /\ host.beat > @ THEN host.beat ELSE @,
        !.os = IF host.os # "Other" THEN host.os ELSE @]

\* Steps 2 and 3, on a roster that was listed only: seed or merge the listed
\* hosts, judge every retained one as of the instant the backend can answer
\* for, forget the ones not seen for long and then the oldest sightings
\* beyond the cap.
Sighted(f, listed, now) ==
    [h \in DOMAIN f.hosts \cup DOMAIN listed |->
        IF h \notin DOMAIN listed THEN [f.hosts[h] EXCEPT !.listed = FALSE]
        ELSE LET record == IF h \in DOMAIN f.hosts
                           THEN Merge(f.hosts[h], listed[h])
                           ELSE [beat |-> listed[h].beat, os |-> listed[h].os,
                                 liveness |-> "Unknown", livenessAt |-> now,
                                 seenAt |-> now, listed |-> TRUE]
             IN [record EXCEPT !.seenAt = now, !.listed = TRUE]]

Judged(hosts, now, t) ==
    [h \in DOMAIN hosts |->
        [hosts[h] EXCEPT !.liveness = Liveness(t.liveness, hosts[h].beat, now - t.lag),
                         !.livenessAt = now]]

\* A bug of SparedBefore.
EvictsNewest(hosts, h, g) ==
    \/ hosts[h].seenAt < hosts[g].seenAt
    \/ hosts[h].seenAt = hosts[g].seenAt /\ h > g

\* Sighted later, or as late with a greater id: the order eviction spares by.
SparedBefore(hosts, h, g) ==
    \/ hosts[h].seenAt > hosts[g].seenAt
    \/ hosts[h].seenAt = hosts[g].seenAt /\ h > g

Retained(hosts, now, t) ==
    LET seen == {h \in DOMAIN hosts : now - hosts[h].seenAt <= t.forgetAfter}
    IN {h \in seen :
          Cardinality({g \in seen : SparedBefore(hosts, g, h)}) < t.maxHosts}

\* A bug of KeepHosts.
KeepsOrphanedEvaluations(f, kept) ==
    [f EXCEPT !.hosts = Restrict(@, kept),
              !.series = Restrict(@, {p \in DOMAIN @ : p[1] \in kept})]

KeepHosts(f, kept) ==
    LET ofKept(g) == {p \in DOMAIN g : p[1] \in kept}
    IN [f EXCEPT !.hosts = Restrict(@, kept),
                 !.series = Restrict(@, ofKept(@)),
                 !.evals = Restrict(@, ofKept(@))]

ApplyRoster(f, o, t) ==
    IF o.roster.kind # "Listed" THEN f
    ELSE LET judged == Judged(Sighted(f, o.roster.hosts, o.at), o.at, t)
         IN KeepHosts([f EXCEPT !.hosts = judged], Retained(judged, o.at, t))

-----------------------------------------------------------------------------
\* Step 4.  Exactly the pairs worth judging, each evaluation of the rule as
\* it is now.
Judgeable(rule, h) == rule.enabled /\ Matches(rule.selector, h) /\ ValidRule(rule)
RuleOf(cfg, id) == CHOOSE r \in cfg.rules : r.id = id

ReconcileEvaluations(f, cfg) ==
    LET wanted == {p \in (DOMAIN f.hosts) \X {r.id : r \in cfg.rules} :
                      Judgeable(RuleOf(cfg, p[2]), p[1])}
    IN [f EXCEPT !.evals =
          [p \in wanted |->
             LET print == Fingerprint(RuleOf(cfg, p[2]))
             IN IF p \in DOMAIN @ /\ @[p].fingerprint = print
                THEN @[p] ELSE FreshEvaluation(print)]]

\* Step 5.  Replaced whole when an answer came, whatever it held; kept as it
\* was, and said to be unavailable, when none did.
PlannedMetricsFor(cfg, h) ==
    PlannedMetrics(cfg) \cup IF cfg.focus = h THEN cfg.detail ELSE {}

StoreMetric(f, o, h, metric) ==
    LET raw == SeriesFor(o, h, metric)
        unfetched == [series |-> << >>, availability |-> "Unavailable",
                      fetchedAt |-> None, resets |-> {}]
    IN CASE Coverage(o, h, metric) = "Fresh" ->
              [series |-> [i \in DOMAIN raw |-> Normalize(raw[i])],
               availability |-> "Present", fetchedAt |-> o.at,
               resets |-> {<<raw[i].attributes, CounterResets(raw[i])>> :
                             i \in {j \in DOMAIN raw : CounterResets(raw[j]) # {}}}]
         [] Coverage(o, h, metric) = "Empty" ->
              [series |-> << >>,
               availability |-> IF ExpectedOn(metric, f.hosts[h].os)
                                THEN "NotReported" ELSE "Unsupported",
               fetchedAt |-> o.at, resets |-> {}]
         [] OTHER -> IF <<h, metric>> \in DOMAIN f.series
                     THEN [f.series[h, metric] EXCEPT !.availability = "Unavailable"]
                     ELSE unfetched

StoreSeries(f, cfg, o) ==
    [f EXCEPT !.series =
       [p \in UNION {{h} \X PlannedMetricsFor(cfg, h) : h \in DOMAIN f.hosts} |->
          StoreMetric(f, o, p[1], p[2])]]

\* Step 6.  The newest reduced sample inside the horizon is what the alert is
\* judged on, shown with and labelled after.  Every attribute set is normalised
\* before they are reduced.
NormalizedFor(o, rule, h) ==
    LET raw == SeriesFor(o, h, rule.metric)
    IN [i \in DOMAIN raw |-> Normalize(raw[i])]

Candidate(o, rule, h) ==
    LET normal == NormalizedFor(o, rule, h)
    IN IF normal = << >> THEN << >> ELSE Reduce(normal, ReductionFor(rule.comparator))

JudgedPoint(points, now, horizon) ==
    LET point == LatestAt(points, now)
    IN IF IsEvidence(point, now, horizon) THEN point ELSE None

ShownValue(points, now, horizon) ==
    LET judged == JudgedPoint(points, now, horizon)
    IN IF judged = None THEN None ELSE judged.value

\* series_label: the mount, of what an attribute map may hold here.
AttributesLess(a, b) == a # b /\ a.mountpoint < b.mountpoint
MountOrder(all) ==
    LET held == {s.attributes : s \in ToSet(all)}
    IN {p \in held \X held : AttributesLess(p[1], p[2])}
SeriesLabel(series) ==
    IF series.attributes = << >> THEN None ELSE series.attributes.mountpoint

DominantLabel(o, rule, h, judged) ==
    IF judged = None THEN None
    ELSE LET all == NormalizedFor(o, rule, h)
         IN SeriesLabel(DominantAt(all, judged.at, ReductionFor(rule.comparator),
                                   MountOrder(all)))

\* observe with its gate, and what is shown with another one.
Judging(stored, o, rule, h, gate, shown) ==
    LET points == Candidate(o, rule, h)
    IN [stored EXCEPT
          !.frozen = None,
          !.state = Observe(@, rule, h, points, o.at, gate),
          !.value = ShownValue(points, o.at, shown),
          !.label = DominantLabel(o, rule, h, JudgedPoint(points, o.at, shown))]

Freezing(stored, o) == [stored EXCEPT !.frozen = IF @ = None THEN o.at ELSE @]

\* A bug of ObserveAlert: the window of the query is the gate.
GatedByTheWindow(stored, o, rule, h, t) ==
    IF Coverage(o, h, rule.metric) = "Unavailable" THEN Freezing(stored, o)
    ELSE Judging(stored, o, rule, h, OverviewWindow(t), OverviewWindow(t))

\* Without an answer nothing is judged: the evaluation freezes as it is.
ObserveAlert(stored, o, rule, h, t) ==
    IF Coverage(o, h, rule.metric) = "Unavailable" THEN Freezing(stored, o)
    ELSE Judging(stored, o, rule, h, EvidenceHorizon(t), EvidenceHorizon(t))

ObserveAlerts(f, cfg, o) ==
    [f EXCEPT !.evals =
       [p \in DOMAIN @ |-> ObserveAlert(@[p], o, RuleOf(cfg, p[2]), p[1], cfg.tuning)]]

-----------------------------------------------------------------------------
\* When to come back: at once until a poll was folded this session, never on
\* a refused key, later and later while the roster fails.
Advice(f, t) ==
    IF ~f.polled THEN [kind |-> "Poll", after |-> 0]
    ELSE IF f.lastFailure # None /\ f.lastFailure.kind = "Unauthorized"
         THEN [kind |-> "Stop", after |-> 0]
    ELSE IF f.asOf # f.lastRoster
         THEN [kind |-> "Retry", after |-> BackoffAfter(t, f.failures)]
    ELSE [kind |-> "Poll", after |-> t.pollInterval]

PhaseOf(evals, p) == IF p \in DOMAIN evals THEN evals[p].state.phase ELSE "NoData"

\* transitions_since: against the phases before the blind gap was applied.
TransitionsSince(before, evals) ==
    {n \in {[pair |-> p, from |-> PhaseOf(before, p), to |-> evals[p].state.phase] :
              p \in DOMAIN evals} : n.from # n.to}

\* A bug of Apply.
TransitionsAfterTheReset(f, cfg, o) ==
    LET t == cfg.tuning
        reset == ResetAfterBlindGap(f, o.at, t)
        rostered == ApplyRoster(reset, o, t)
        stored == StoreSeries(ReconcileEvaluations(rostered, cfg), cfg, o)
        booked == RecordBookkeeping(ObserveAlerts(stored, cfg, o), o)
    IN [fleet |-> [booked EXCEPT !.advised = o.at + Advice(booked, t).after],
        transitions |-> TransitionsSince(reset.evals, booked.evals)]

\* FleetState::apply.
Apply(f, cfg, o) ==
    LET t == cfg.tuning
        reset == ResetAfterBlindGap(f, o.at, t)
        rostered == ApplyRoster(reset, o, t)
        stored == StoreSeries(ReconcileEvaluations(rostered, cfg), cfg, o)
        booked == RecordBookkeeping(ObserveAlerts(stored, cfg, o), o)
    IN [fleet |-> [booked EXCEPT !.advised = o.at + Advice(booked, t).after],
        transitions |-> TransitionsSince(f.evals, booked.evals)]

\* FleetState::forget_host.
ForgetHost(f, h) == KeepHosts(f, DOMAIN f.hosts \ {h})

\* A bug of Restore.
PolledSurvivesRestart(readable, json) == IF readable THEN json ELSE NewFleet

\* FleetState::restore; a cache that does not read, or that is of another
\* schema, is a fleet anew.  polled is never written.
Restore(readable, json) ==
    IF readable THEN [json EXCEPT !.polled = FALSE] ELSE NewFleet

\* freshness_at: what the banner may claim of the picture at an instant.
FreshnessAt(f, t, now) ==
    IF /\ f.lastRoster = None /\ f.lastClean = None
       /\ f.failures = 0 /\ f.lastFailure = None THEN "Unattempted"
    ELSE IF f.lastRoster = None THEN "Unusable"
    ELSE IF ~f.polled THEN "Idle"
    ELSE IF now - f.lastRoster > FreshnessBudget(t) THEN "Unusable"
    ELSE IF /\ f.failures = 0 /\ f.lastClean # None
            /\ now - f.lastClean <= StalenessTolerance(t) THEN "Fresh"
    ELSE "Degraded"

-----------------------------------------------------------------------------
\* The backend, as the plan reads it: a host is listed, and answers a query
\* of its metrics, while its newest export is in the window asked for.
Within(exports, h, now, window) ==
    exports[h] # None /\ now - exports[h].at <= window

\* Disk metrics come once per mount, the second one with half the load.
AttributeSets(metric) ==
    IF metric \in {"FilesystemUsage", "FilesystemUtilization"}
    THEN {[mountpoint |-> 1], [mountpoint |-> 2]} ELSE {<< >>}

SampleOf(export, attributes) ==
    IF attributes = [mountpoint |-> 2] THEN [export EXCEPT !.value = @ \div 2] ELSE export

Answer(exports, spec, now) ==
    LET has == {h \in Hosts : Matches(spec.selector, h)
                              /\ Within(exports, h, now, spec.window)}
        series(h) == {[host |-> h, kind |-> spec.metric, attributes |-> a,
                       points |-> << SampleOf(exports[h], a) >>] :
                         a \in AttributeSets(spec.metric)}
    IN SetToSeq(UNION {series(h) : h \in has})

Observation(exports, cfg, now, outage) ==
    LET plan == PlanQueries(cfg)
        fails(spec) == IF spec.selector = SelectAll THEN spec.metric \in outage.metrics
                                                    ELSE outage.detail
        outcome(spec) ==
            [spec |-> spec, result |-> IF fails(spec) THEN Failed(outage.kind)
                                       ELSE Returned(Answer(exports, spec, now))]
        listed == {h \in Hosts : Within(exports, h, now, HostWindow(cfg.tuning))}
    IN [at |-> now,
        roster |-> IF outage.roster THEN RosterFailed(outage.kind)
                   ELSE Listed([h \in listed |->
                                  [beat |-> exports[h].at, os |-> "Linux"]]),
        series |-> [i \in DOMAIN plan |-> outcome(plan[i])]]

\* Agents that are up export with a lag; one that is down stays as it was.
Exports(weather, now) ==
    [h \in Hosts |->
        IF h \in weather.up
        THEN [at |-> now - weather.lag, value |-> IF h \in weather.high THEN 3 ELSE 1]
        ELSE agents[h]]

Disturb(n) ==
    /\ disturbances + n <= MaxDisturbances
    /\ disturbances' = disturbances + n

-----------------------------------------------------------------------------
FirstConfig == ConfigFromRecord(FirstRecord).value
NoHistory ==
    [judgedBy |-> FirstConfig, told |-> {}, watchedFrom |-> << >>]
NoObservation == [at |-> 0, roster |-> NotAttempted, series |-> << >>]

Init ==
    /\ fleet = NewFleet
    /\ cache = NewFleet
    /\ config = FirstConfig
    /\ clock = 0
    /\ agents = [h \in Hosts |-> None]
    /\ obs = NoObservation
    /\ news = {}
    /\ history = NoHistory /\ savedHistory = NoHistory
    /\ polls = 0 /\ disturbances = 0

Remembered(update, now) ==
    LET fired == {n.pair : n \in {m \in update.transitions : IsFire(m.from, m.to)}}
        ended == {n.pair : n \in {m \in update.transitions : m.to # "Firing"}}
        watched == history.watchedFrom
        reach == now - EvidenceHorizon(config.tuning)
        startsOver(r) ==
            \/ IsBlindGap(fleet, now, config.tuning)
            \/ r \notin DOMAIN watched
            \/ Fingerprint(RuleOf(config, r)) # Fingerprint(RuleOf(history.judgedBy, r))
    IN [judgedBy |-> config,
        told |-> ((history.told \cup fired) \ ended) \cap DOMAIN update.fleet.evals,
        watchedFrom |-> [r \in {rule.id : rule \in config.rules} |->
                           IF startsOver(r) \/ reach < watched[r]
                           THEN reach ELSE watched[r]]]

\* One poll: agents exported, the plan was asked, what came back is folded and
\* the fleet is saved; disturbed when it comes late, when something fails or
\* when the save is lost.
Poll(late, weather, outage, saved) ==
    LET now == (IF fleet.advised = None \/ fleet.advised < clock + 1
                THEN clock + 1 ELSE fleet.advised) + late
    IN /\ polls < MaxPolls /\ polls' = polls + 1
       /\ Disturb((IF late = 0 THEN 0 ELSE 1) + (IF outage.kind = "none" THEN 0 ELSE 1)
                  + (IF saved THEN 0 ELSE 1))
       /\ clock' = now
       /\ agents' = Exports(weather, now)
       /\ obs' = Observation(agents', config, now, outage)
       /\ \E update \in {Apply(fleet, config, obs')} :
             /\ fleet' = update.fleet
             /\ news' = update.transitions
             /\ history' = Remembered(update, now)
       /\ IF saved THEN cache' = fleet' /\ savedHistory' = history'
                   ELSE UNCHANGED << cache, savedHistory >>
       /\ UNCHANGED config

\* A relaunch: the session restores the cache, or starts anew on one it
\* cannot read.
Restart(readable) ==
    /\ fleet # NewFleet
    /\ Disturb(1)
    /\ fleet' = Restore(readable, cache)
    /\ history' = IF readable THEN savedHistory ELSE NoHistory
    /\ news' = {}
    /\ obs' = NoObservation
    /\ UNCHANGED << cache, config, clock, agents, savedHistory, polls >>

\* Settings change what is planned and judged; the fleet waits for the poll.
\* What core refuses changes nothing.
SetConfig(record) ==
    \E crossed \in {ConfigFromRecord(record)} :
       /\ crossed.ok /\ crossed.value # config
       /\ Disturb(1)
       /\ config' = crossed.value
       /\ UNCHANGED << fleet, cache, clock, agents, obs, news, history, savedHistory, polls >>

Forget(h) ==
    /\ h \in DOMAIN fleet.hosts
    /\ Disturb(1)
    /\ fleet' = ForgetHost(fleet, h)
    /\ history' = [history EXCEPT !.told = {p \in @ : p[1] # h}]
    /\ news' = {n \in news : n.pair[1] # h}
    /\ UNCHANGED << cache, config, clock, agents, obs, savedHistory, polls >>

Next ==
    \/ \E late \in Delays, weather \in Weathers, outage \in Outages, saved \in BOOLEAN :
          Poll(late, weather, outage, saved)
    \/ \E readable \in BOOLEAN : Restart(readable)
    \/ \E record \in Records : SetConfig(record)
    \/ \E h \in Hosts : Forget(h)

Spec == Init /\ [][Next]_vars

-----------------------------------------------------------------------------
\* The configuration in force passed core's interlocks, whatever an app handed
\* over (FleetConfig::try_from before the write of set_config).
ConfigIsUsable ==
    /\ TuningValid(config.tuning)
    /\ config.environment \notin UnusableNames
    /\ \A r \in config.rules : CoreAccepts(r)

\* Every value the fold can hold has its shape (FleetState, fold.rs:188).
Instants == Nat \cup {None}
TypeOK ==
    /\ fleet.asOf \in Instants /\ fleet.advised \in Instants
    /\ fleet.lastClean \in Instants /\ fleet.lastRoster \in Instants
    /\ fleet.failures \in Nat /\ fleet.polled \in BOOLEAN
    /\ DOMAIN fleet.hosts \subseteq Hosts
    /\ \A p \in DOMAIN fleet.series : p[1] \in DOMAIN fleet.hosts
    /\ \A p \in DOMAIN fleet.evals : p[1] \in DOMAIN fleet.hosts
    /\ \A p \in DOMAIN fleet.evals : fleet.evals[p].state.phase \in Phases
    /\ ConfigIsUsable

Breaching(p) == fleet.evals[p].state.since # None
Since(p) == fleet.evals[p].state.since
Frozen(p) == fleet.evals[p].frozen # None

\* A breach is dated from a sample the fold was watching for: never further
\* back than the evidence horizons of the polls since the last blind gap and
\* the last edit of its rule, so neither a suspended app nor a changed rule fires on a dwell
\* nobody observed (reset_after_blind_gap, the fingerprint).
DwellIsWatched ==
    \A p \in DOMAIN fleet.evals :
        Breaching(p) => Since(p) >= history.watchedFrom[p[2]]

\* A firing pair was told to the user, and one told to be firing still fires:
\* the transitions between folds, restarts included, add up to the state they
\* report (transitions_since, with before taken ahead of the blind gap).
NotificationsAddUp ==
    history.told = {p \in DOMAIN fleet.evals : fleet.evals[p].state.phase = "Firing"}

\* A notification is about what this poll saw: firing on a sample inside the
\* horizon that breaches and has for the dwell, resolved on one that does not.
NewsIsObserved ==
    \A n \in news :
        LET rule == RuleOf(history.judgedBy, n.pair[2])
            value == ShownValue(Candidate(obs, rule, n.pair[1]), obs.at,
                                EvidenceHorizon(history.judgedBy.tuning))
        IN /\ IsFire(n.from, n.to) =>
                 /\ value # None /\ Breaches(rule, value)
                 /\ obs.at - Since(n.pair) >= rule.dwell
           /\ IsResolve(n.from, n.to) => value # None /\ ~Breaches(rule, value)

\* An alert that breaches shows the value it breaches with, and one without
\* evidence shows none (latest_value and observe gate alike).
ShownValueIsJudged ==
    \A p \in DOMAIN fleet.evals :
        LET e == fleet.evals[p]
        IN ~Frozen(p) /\ p[2] \in {r.id : r \in history.judgedBy.rules} =>
             CASE e.state.phase = "NoData" -> e.value = None
               [] e.state.phase = "Ok" -> e.value # None
               [] OTHER -> e.value # None
                           /\ Breaches(RuleOf(history.judgedBy, p[2]), e.value)

\* An agent that died takes its alerts with it: no pair of a host that is Down
\* still breaches on evidence of this poll, because evidence expires no later
\* than liveness (max_staleness against down_threshold, both with the lag).
DownHostsDoNotAlert ==
    \A p \in DOMAIN fleet.evals :
        /\ fleet.hosts[p[1]].liveness = "Down"
        /\ fleet.hosts[p[1]].livenessAt = fleet.asOf
        /\ ~Frozen(p)
        => ~Breaching(p)

\* What a pair is and says of itself has evidence of this poll behind it: its
\* news, the value it shows, and that it breaches at all (observe_alerts).
VerdictsHaveEvidence == NewsIsObserved /\ ShownValueIsJudged /\ DownHostsDoNotAlert

\* Fresh is earned: while the banner may say it, every host was judged, every
\* metric fetched and no alert frozen at the poll it names, and that poll was
\* of this session (freshness_at against the fold's bookkeeping).
FreshMeansCurrent ==
    \A now \in clock .. clock + FreshnessBudget(config.tuning) + 1 :
        FreshnessAt(fleet, config.tuning, now) = "Fresh" =>
            /\ obs.at = fleet.asOf /\ fleet.asOf = fleet.lastClean
            /\ \A h \in DOMAIN fleet.hosts : fleet.hosts[h].livenessAt = fleet.asOf
            /\ \A p \in DOMAIN fleet.series : fleet.series[p].fetchedAt = fleet.asOf
            /\ \A p \in DOMAIN fleet.evals : ~Frozen(p)

-----------------------------------------------------------------------------
Folded == fleet'.asOf # fleet.asOf /\ fleet'.polled
OnTime == ~IsBlindGap(fleet, fleet'.asOf, config.tuning)
SameRule(p) == fleet'.evals[p].fingerprint = fleet.evals[p].fingerprint

\* What could not be seen is not judged: with the roster failed no host comes,
\* goes or changes its verdict, and a pair no request answered keeps its phase
\* and its dwell (apply_roster's gate, observe_alerts' freeze).
OutageChangesNoVerdict ==
    [][Folded /\ OnTime =>
        /\ obs'.roster.kind = "Failed" =>
              /\ DOMAIN fleet'.hosts = DOMAIN fleet.hosts
              /\ \A h \in DOMAIN fleet.hosts : fleet'.hosts[h] = fleet.hosts[h]
        /\ \A p \in (DOMAIN fleet.evals) \cap DOMAIN fleet'.evals :
              fleet'.evals[p].frozen # None /\ SameRule(p) =>
                 fleet'.evals[p].state = fleet.evals[p].state]_vars

\* A wait the fold asked for is no blind gap: at the instant it advised, after
\* a back-off or a stop as well, a breach that goes on keeps its start.
AdvisedWaitKeepsDwell ==
    [][Folded /\ fleet.advised # None /\ fleet'.asOf <= fleet.advised =>
        \A p \in (DOMAIN fleet.evals) \cap DOMAIN fleet'.evals :
           /\ SameRule(p) /\ fleet.evals[p].state.since # None
           /\ fleet'.evals[p].state.since # None
           => fleet'.evals[p].state.since = fleet.evals[p].state.since]_vars

\* A host leaves only by the user's hand, because nobody listed it for longer
\* than forget_host_after, or because the fleet is full of hosts seen at least
\* as lately: a roster that lists it never loses it to one that does not.
ForgottenForAReason ==
    [][Folded /\ fleet # NewFleet =>
        \A h \in DOMAIN fleet.hosts \ DOMAIN fleet'.hosts :
           /\ obs'.roster.kind = "Listed"
           /\ \/ /\ h \notin DOMAIN obs'.roster.hosts
                 /\ obs'.at - fleet.hosts[h].seenAt > config.tuning.forgetAfter
              \/ /\ Cardinality(DOMAIN fleet'.hosts) = config.tuning.maxHosts
                 /\ h \in DOMAIN obs'.roster.hosts =>
                       \A g \in DOMAIN fleet'.hosts : fleet'.hosts[g].listed]_vars

\* Nothing is concluded from what was not seen: no verdict moves on a failed
\* request, and no host is let go of but for what a roster said (apply).
UnseenIsNotJudged == OutageChangesNoVerdict /\ ForgottenForAReason
=============================================================================
