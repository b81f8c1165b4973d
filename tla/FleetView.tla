------------------------------ MODULE FleetView ------------------------------
(***************************************************************************)
(* What the apps draw of a fleet: FleetState::view (fold.rs) and the       *)
(* decisions of view.rs, over the fold's state.  Wording, units and ids     *)
(* that only format what a row already holds are left out; rule ids are     *)
(* integers in the order of their strings.                                  *)
(***************************************************************************)
EXTENDS FleetFold

\* Severity, in its order: what nobody could judge is not healthy.
SeverityRank == [Ok |-> 0, Unknown |-> 1, Warning |-> 2, Critical |-> 3]

SeverityOfLiveness ==
    [Alive |-> "Ok", Stale |-> "Warning", Down |-> "Critical", Unknown |-> "Unknown"]

SeverityOfPhase ==
    [Ok |-> "Ok", Pending |-> "Warning", Firing |-> "Critical", NoData |-> "Unknown"]

\* The worse of all, by Ord::max; of none it is Ok.
Worst(severities) ==
    IF severities = {} THEN "Ok"
    ELSE CHOOSE s \in severities : \A r \in severities : SeverityRank[r] <= SeverityRank[s]

-----------------------------------------------------------------------------
\* MetricView: one row per stored series, and one for a metric without any.
SeriesId(h, kind, attributes) == << h, kind, attributes >>

MetricRow(stored, h, kind, attributes, points) ==
    [id |-> SeriesId(h, kind, attributes), kind |-> kind,
     latest |-> IF points = << >> THEN None ELSE points[Len(points)],
     availability |-> stored.availability, isRate |-> IsRate(kind),
     fetchedAt |-> stored.fetchedAt,
     resets |-> UNION {r[2] : r \in {x \in stored.resets : x[1] = attributes}}]

RowsOf(stored, h, kind) ==
    IF stored.series = << >> THEN << MetricRow(stored, h, kind, << >>, << >>) >>
    ELSE [i \in DOMAIN stored.series |->
            MetricRow(stored, h, kind, stored.series[i].attributes,
                      stored.series[i].points)]

\* In the order of the kinds; within one, in the order of the attributes.
MetricViews(f, h) ==
    LET kinds == SetToSortSeq({p[2] : p \in {q \in DOMAIN f.series : q[1] = h}},
                              LAMBDA a, b : KindRank(a) < KindRank(b))
        sorted(kind) == SortSeq(RowsOf(f.series[h, kind], h, kind),
                                LAMBDA a, b : AttributesLess(a.id[3], b.id[3]))
    IN FoldLeft(LAMBDA rows, kind : rows \o sorted(kind), << >>, kinds)

\* collection_health: from the newest delta of the agent's failure counter, as
\* long as it was fetched.
CollectionHealth(f, h) ==
    LET key == << h, "AgentCollectionFailures" >>
        reduced == Reduce(f.series[key].series, "Max")
    IN IF \/ key \notin DOMAIN f.series
          \/ f.series[key].availability # "Present"
          \/ reduced \in {None, << >>}
       THEN "Unknown"
       ELSE IF reduced[Len(reduced)].value > 0 THEN "Failing" ELSE "Healthy"

\* capacities: a usage row with the utilization of the same mount, in percent
\* here; no total is derived from a ratio that cannot be one.
UtilizationOf ==
    [MemoryUsage |-> "MemoryUtilization", FilesystemUsage |-> "FilesystemUtilization"]

MountOf(row) ==
    IF "mountpoint" \in DOMAIN row.id[3] THEN row.id[3].mountpoint ELSE None

Capacities(rows) ==
    LET usages == SelectSeq(rows, LAMBDA r : r.kind \in DOMAIN UtilizationOf
                                             /\ r.latest # None)
        siblings(u) == SelectSeq(rows, LAMBDA r : r.kind = UtilizationOf[u.kind]
                                                  /\ MountOf(r) = MountOf(u))
        ratio(u) == IF siblings(u) = << >> \/ siblings(u)[1].latest = None
                    THEN None ELSE siblings(u)[1].latest.value
        total(u) == IF ratio(u) = None \/ ratio(u) \notin 1 .. 100
                    THEN None ELSE (u.latest.value * 100) \div ratio(u)
    IN [i \in DOMAIN usages |->
          [id |-> usages[i].id, used |-> usages[i].latest.value,
           utilization |-> ratio(usages[i]), total |-> total(usages[i]),
           at |-> usages[i].latest.at]]

-----------------------------------------------------------------------------
\* What a row shows of an evaluation.
PhaseShown(held) == held.state.phase

\* A rule that cannot be judged is shown, as one without data.
AlertRow(f, rule, h) ==
    LET pair == << h, rule.id >>
        held == IF pair \in DOMAIN f.evals THEN f.evals[pair]
                ELSE FreshEvaluation(Fingerprint(rule))
        since == held.state.since
    IN [pair |-> pair, phase |-> PhaseShown(held),
        severity |-> SeverityOfPhase[PhaseShown(held)],
        breachingSince |-> since,
        firesAt |-> IF since = None THEN None ELSE since + rule.dwell,
        value |-> held.value, label |-> held.label, frozen |-> held.frozen,
        invalid |-> ~ValidRule(rule)]

AlertRows(f, cfg, h) ==
    {AlertRow(f, r, h) : r \in {x \in cfg.rules : x.enabled /\ Matches(x.selector, h)}}

HostRow(f, cfg, h) ==
    LET rows == AlertRows(f, cfg, h)
        metrics == MetricViews(f, h)
        phased(phase) == Cardinality({r \in rows : r.phase = phase})
    IN [id |-> h, liveness |-> f.hosts[h].liveness, livenessAt |-> f.hosts[h].livenessAt,
        severity |-> Worst({SeverityOfLiveness[f.hosts[h].liveness]}
                           \cup {r.severity : r \in rows}),
        collection |-> CollectionHealth(f, h),
        metrics |-> metrics, capacities |-> Capacities(metrics),
        firing |-> phased("Firing"), pending |-> phased("Pending"),
        inRoster |-> f.hosts[h].listed]

\* Firing first; an unjudged rule is worth looking at, so before a fine one.
AlertBefore(a, b) ==
    \/ SortRank[a.phase] < SortRank[b.phase]
    \/ /\ SortRank[a.phase] = SortRank[b.phase]
       /\ a.pair[1] < b.pair[1] \/ (a.pair[1] = b.pair[1] /\ a.pair[2] < b.pair[2])

\* FleetCounts.
CountsOf(hosts) ==
    LET alive(l) == Cardinality({i \in DOMAIN hosts : hosts[i].liveness = l})
    IN [hosts |-> Len(hosts), alive |-> alive("Alive"), stale |-> alive("Stale"),
        down |-> alive("Down"), unknown |-> alive("Unknown"),
        firing |-> FoldLeft(LAMBDA n, h : n + h.firing, 0, hosts),
        pending |-> FoldLeft(LAMBDA n, h : n + h.pending, 0, hosts)]

\* FleetState::view.
View(f, cfg) ==
    LET ids == SetToSortSeq(DOMAIN f.hosts, <)
        hosts == [i \in DOMAIN ids |-> HostRow(f, cfg, ids[i])]
    IN [asOf |-> f.asOf, hosts |-> hosts,
        severity |-> Worst({hosts[i].severity : i \in DOMAIN hosts}),
        alerts |-> SetToSortSeq(UNION {AlertRows(f, cfg, h) : h \in DOMAIN f.hosts},
                                AlertBefore),
        counts |-> CountsOf(hosts), warnings |-> Audit(cfg)]

\* FleetView::firing and degraded_hosts.
FiringOf(view) == SelectSeq(view.alerts, LAMBDA a : a.phase = "Firing")
DegradedHosts(view) ==
    {i \in DOMAIN view.hosts :
        SeverityRank[view.hosts[i].severity] >= SeverityRank["Warning"]}

-----------------------------------------------------------------------------
\* A list keyed by the ids of its rows never meets one twice, also when the
\* focused host's metric came back from two windows and a mount came or went
\* (series_for's replacement, store_series, series_id).
RowsAreDistinct ==
    \A h \in DOMAIN fleet.hosts :
        \A rows \in {MetricViews(fleet, h)} :
            \A m, n \in DOMAIN rows : rows[m].id = rows[n].id => m = n

\* The screen and the bell agree: what the view lists as firing is what the
\* user was last told is firing, rules switched off or changed since included
\* only until the next fold, and every host with one asks for attention.
ScreenAgreesWithTheBell ==
    history.judgedBy = config =>
        \A view \in {View(fleet, config)} :
        LET firing == {FiringOf(view)[i].pair : i \in DOMAIN FiringOf(view)}
        IN /\ firing = history.told
           /\ view.counts.firing = Cardinality(firing)
           /\ \A i \in DOMAIN view.hosts :
                 (\E p \in firing : p[1] = view.hosts[i].id) => i \in DegradedHosts(view)

\* The instant a row names is the instant it turns: a pending alert still has
\* its fire time ahead of the picture and a firing one behind it, and the
\* mount it names is one this poll returned with the value shown.
AlertRowsAreExact ==
    history.judgedBy = config =>
        \A row \in UNION {AlertRows(fleet, config, h) : h \in DOMAIN fleet.hosts} :
            LET series == SeriesFor(obs, row.pair[1], RuleOf(config, row.pair[2]).metric)
            IN row.frozen = None /\ obs.at = fleet.asOf =>
                 /\ row.phase = "Pending" => row.firesAt > fleet.asOf
                 /\ row.phase = "Firing" => row.firesAt <= fleet.asOf
                 /\ row.label # None =>
                      \E s \in ToSet(series) :
                         /\ SeriesLabel(s) = row.label
                         /\ s.points[Len(s.points)].value = row.value

\* The settings an app reads back, hands over again and is given are the ones in
\* force, each rule the editor lists is the rule (TryFrom, both ways), and what
\* is judged is what the editor would let the user write (validate_alert_rule).
SettingsReadBack ==
    /\ ConfigFromRecord(ConfigRecord(config)) = Accepted(config)
    /\ \E listed \in {AlertRulesFromJson(ConfigRecord(config).rulesJson)} :
          AlertRulesToJson(listed.value) = Accepted(EncodeRules(config.rules))
    /\ \A p \in DOMAIN fleet.evals :
          ValidateRule(RuleRecord(RuleOf(history.judgedBy, p[2]))).ok
=============================================================================
