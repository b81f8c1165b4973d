---------------------------- MODULE PollObservation ----------------------------
(***************************************************************************)
(* One poll: what it plans to ask (plan.rs), what came back (observation.rs *)
(* and the failures of error.rs), and how the answers cover a host and a    *)
(* metric.  An outcome is [spec, result]; a result is Failed(kind) or       *)
(* Returned(series), a series [host, kind, attributes, points].             *)
(***************************************************************************)
EXTENDS PollTuning, SequencesExt

\* One query: metric, selector and window; every range ends at the poll's
\* instant and every step is the tuning's.
Spec1(metric, selector, window) ==
    [metric |-> metric, selector |-> selector, window |-> window]

ByKind(specs) ==
    Ranked(specs, LAMBDA a, b : KindRank(a.metric) < KindRank(b.metric))

\* A bug of PlanQueries: the detail queries first.
PlanDetailFirst(config) ==
    LET wide == {Spec1(m, SelectAll, OverviewWindow(config.tuning)) :
                   m \in PlannedMetrics(config)}
        deep == {Spec1(m, SelectHost(config.focus), DetailWindow(config.tuning)) :
                   m \in config.detail}
    IN (IF config.focus = None THEN << >> ELSE ByKind(deep)) \o ByKind(wide)

\* plan_poll: the fleet-wide queries in metric order, then the detail queries
\* of the focused host, last so that they win.
PlanQueries(config) ==
    LET wide == {Spec1(m, SelectAll, OverviewWindow(config.tuning)) :
                   m \in PlannedMetrics(config)}
        deep == {Spec1(m, SelectHost(config.focus), DetailWindow(config.tuning)) :
                   m \in config.detail}
    IN ByKind(wide) \o IF config.focus = None THEN << >> ELSE ByKind(deep)

\* The plan, or None when a window is no time range.
PlanPoll(config, now, earliest) ==
    LET t == config.tuning
        windows == {HostWindow(t), OverviewWindow(t)}
                   \cup IF config.focus = None THEN {} ELSE {DetailWindow(t)}
    IN IF \E w \in windows : RangeEndingAt(now, w, earliest) = None
       THEN None
       ELSE [now |-> now, hostRange |-> RangeEndingAt(now, HostWindow(t), earliest),
             queries |-> PlanQueries(config)]

-----------------------------------------------------------------------------
FailureKinds == {"Unauthorized", "Unreachable", "Backend", "Malformed"}
FailureRank == [Unauthorized |-> 3, Unreachable |-> 2, Backend |-> 1, Malformed |-> 0]
PollFailure == [kind : FailureKinds, source : MetricKinds \cup {"Roster"}]

\* PollFailureKind::from_core: three errors keep their kind, every other
\* error of the core domain is Malformed.
FailureKind(coreError) ==
    IF coreError \in FailureKinds \ {"Malformed"} THEN coreError ELSE "Malformed"

\* What only the user can repair, and what may pass by itself; a malformed
\* answer is neither.
IsActionable(kind) == kind = "Unauthorized"
IsTransient(kind) == kind \in {"Unreachable", "Backend"}

Failed(kind) == [ok |-> FALSE, failure |-> kind]
Returned(series) == [ok |-> TRUE, series |-> series]

\* RosterOutcome: NotAttempted, Failed(kind) or Listed(hosts).
NotAttempted == [kind |-> "NotAttempted"]
RosterFailed(failure) == [kind |-> "Failed", failure |-> failure]
Listed(hosts) == [kind |-> "Listed", hosts |-> hosts]

-----------------------------------------------------------------------------
\* An observation is [at, roster, series]: the instant, the roster outcome and
\* the outcomes in plan order.
Covers(spec, h, metric) == spec.metric = metric /\ Matches(spec.selector, h)

\* The requests of the plan that cover the pair and were answered.
AnswersAbout(obs, h, metric) ==
    {i \in DOMAIN obs.series :
        Covers(obs.series[i].spec, h, metric) /\ obs.series[i].result.ok}

IsOf(series, h, metric) == series.host = h /\ series.kind = metric

\* The series of the pair, by where they came in: plan order, then answer order.
Matching(obs, h, metric) ==
    {p \in UNION {{i} \X DOMAIN obs.series[i].result.series : i \in AnswersAbout(obs, h, metric)} :
        IsOf(obs.series[p[1]].result.series[p[2]], h, metric)}

\* Fresh over Empty over Unavailable: an answer that arrived beats one that
\* did not.
Coverage(obs, h, metric) ==
    IF Matching(obs, h, metric) # {} THEN "Fresh"
    ELSE IF AnswersAbout(obs, h, metric) # {} THEN "Empty"
    ELSE "Unavailable"

CameBefore(p, q) == p[1] < q[1] \/ (p[1] = q[1] /\ p[2] < q[2])

\* Of an attribute set the last series stays, in the place of the first.
SeriesFor(obs, h, metric) ==
    LET matching == Matching(obs, h, metric)
        at(p) == obs.series[p[1]].result.series[p[2]]
        same(p) == {q \in matching : at(q).attributes = at(p).attributes}
        first == {p \in matching : \A q \in same(p) : ~CameBefore(q, p)}
        lastOf(p) == CHOOSE q \in same(p) : \A r \in same(p) : ~CameBefore(q, r)
        order == Ranked(first, CameBefore)
    IN [n \in DOMAIN order |-> at(lastOf(order[n]))]

\* failures: [kind, source] of the roster and of every query that failed.  No
\* reader of them depends on their order.
Failures(obs) ==
    {[kind |-> obs.roster.failure, source |-> "Roster"] :
        outcome \in {x \in {obs.roster} : x.kind = "Failed"}}
    \cup {[kind |-> outcome.result.failure, source |-> outcome.spec.metric] :
            outcome \in {x \in ToSet(obs.series) : ~x.result.ok}}

IsClean(obs) ==
    /\ obs.roster.kind = "Listed"
    /\ \A i \in DOMAIN obs.series : obs.series[i].result.ok

\* Worse by severity, then the roster, then the metric order.
SourceOrder(f) == IF f.source = "Roster" THEN 0 ELSE KindRank(f.source)
AsBad(f, g) ==
    \/ FailureRank[f.kind] > FailureRank[g.kind]
    \/ FailureRank[f.kind] = FailureRank[g.kind] /\ SourceOrder(f) <= SourceOrder(g)

\* worst_failure, of no failure None.
WorstFailure(failures) ==
    IF failures = {} THEN None
    ELSE CHOOSE f \in failures : \A g \in failures : AsBad(f, g)

\* FleetState::record_bookkeeping: what a fleet, or its freshness alone, keeps
\* of the poll itself.
RecordBookkeeping(f, o) ==
    [f EXCEPT !.asOf = o.at,
              !.lastRoster = IF o.roster.kind = "Listed" THEN o.at ELSE @,
              !.lastClean = IF IsClean(o) THEN o.at ELSE @,
              !.failures = IF Failures(o) = {} THEN 0 ELSE @ + 1,
              !.lastFailure = WorstFailure(Failures(o)),
              !.polled = TRUE]
=============================================================================
