---------------------------- MODULE ScreenRecords ----------------------------
(***************************************************************************)
(* What crosses to an app after a poll: the records of view_records.rs and *)
(* fold_records.rs, with the predicates of core they carry.  Instants cross *)
(* as milliseconds and durations as whole seconds.                          *)
(***************************************************************************)
EXTENDS FleetView

\* PollFailureRecord: a failure is of the poll that is remembered, and core
\* says what can be done about it.
PollFailureRecord(failure, at) ==
    IF failure = None THEN None
    ELSE [kind |-> failure.kind, source |-> failure.source, at |-> Millis(at),
          isActionable |-> IsActionable(failure.kind),
          isTransient |-> IsTransient(failure.kind)]

\* FreshnessInputsRecord.
FreshnessInputsRecord(f, t) ==
    [asOf |-> OptionalMillis(f.asOf), lastClean |-> OptionalMillis(f.lastClean),
     lastRoster |-> OptionalMillis(f.lastRoster), failures |-> f.failures,
     lastFailure |-> PollFailureRecord(f.lastFailure, f.asOf), polled |-> f.polled,
     tolerance |-> ToSeconds(StalenessTolerance(t)),
     budget |-> ToSeconds(FreshnessBudget(t))]

\* FreshnessRecord, with Freshness::last_success: the last clean poll, or the
\* last roster where no poll was ever clean; a failure where there is a banner.
LastSuccess(f) == IF f.lastClean = None THEN f.lastRoster ELSE f.lastClean

FreshnessRecord(f, t, now) ==
    LET kind == FreshnessAt(f, t, now)
        faulty == kind \in {"Degraded", "Unusable"}
    IN [kind |-> kind, lastSuccess |-> OptionalMillis(LastSuccess(f)),
        failures |-> IF faulty THEN f.failures ELSE 0,
        failure |-> IF faulty THEN PollFailureRecord(f.lastFailure, f.asOf) ELSE None]

\* Freshness::severity: a picture nobody tried to get is not a healthy one.
SeverityOfFreshness ==
    [Fresh |-> "Ok", Unattempted |-> "Unknown", Idle |-> "Unknown",
     Degraded |-> "Warning", Unusable |-> "Critical"]

-----------------------------------------------------------------------------
\* MetricPointRecord and MetricViewRecord.
PointRecord(point) ==
    IF point = None THEN None ELSE [at |-> Millis(point.at), value |-> point.value]

MetricViewRecord(row, t) ==
    [id |-> row.id, kind |-> row.kind, unit |-> UnitOf(row.kind), label |-> MountOf(row),
     latest |-> PointRecord(row.latest), availability |-> row.availability,
     isRate |-> row.isRate, expectedStep |-> ToSeconds(t.metricStep),
     resets |-> {Millis(at) : at \in row.resets},
     fetchedAt |-> OptionalMillis(row.fetchedAt)]

\* CapacityEntryRecord, with CapacityView::free_bytes.
FreeOf(capacity) ==
    IF capacity.total = None THEN None
    ELSE IF capacity.total < capacity.used THEN 0 ELSE capacity.total - capacity.used

CapacityRecord(capacity) ==
    [id |-> capacity.id, used |-> capacity.used, total |-> capacity.total,
     free |-> FreeOf(capacity), utilization |-> capacity.utilization,
     at |-> Millis(capacity.at)]

\* HostViewRecord.
HostViewRecord(f, t, row) ==
    [row EXCEPT !.livenessAt = Millis(@),
                !.metrics = [i \in DOMAIN @ |-> MetricViewRecord(@[i], t)],
                !.capacities = [i \in DOMAIN @ |-> CapacityRecord(@[i])]]
    @@ [os |-> f.hosts[row.id].os, lastHeartbeat |-> OptionalMillis(f.hosts[row.id].beat)]

\* AlertViewRecord and AlertEvidenceRecord: held since an instant, or fresh.
EvidenceRecord(frozen) ==
    IF frozen = None THEN [kind |-> "Fresh"]
    ELSE [kind |-> "Frozen", since |-> Millis(frozen)]

AlertViewRecord(row, rule) ==
    [host |-> row.pair[1], rule |-> rule.id, metric |-> rule.metric,
     comparator |-> rule.comparator, threshold |-> rule.threshold,
     phase |-> row.phase, severity |-> row.severity,
     breachingSince |-> OptionalMillis(row.breachingSince),
     firesAt |-> OptionalMillis(row.firesAt), value |-> row.value,
     label |-> row.label, evidence |-> EvidenceRecord(row.frozen),
     isRate |-> IsRate(rule.metric), invalid |-> row.invalid]

\* FleetViewRecord, in core's orders; the counts and the warnings cross as they
\* are.
FleetViewRecord(f, cfg) ==
    LET view == View(f, cfg)
    IN [asOf |-> OptionalMillis(view.asOf),
        freshness |-> FreshnessInputsRecord(f, cfg.tuning),
        severity |-> view.severity,
        hosts |-> [i \in DOMAIN view.hosts |->
                     HostViewRecord(f, cfg.tuning, view.hosts[i])],
        alerts |-> [i \in DOMAIN view.alerts |->
                      AlertViewRecord(view.alerts[i], RuleOf(cfg, view.alerts[i].pair[2]))],
        counts |-> view.counts, warnings |-> view.warnings]

-----------------------------------------------------------------------------
\* AlertTransitionRecord: dated from the breach, and with the edges that notify
\* as core draws them.
AlertTransitionRecord(f, n) ==
    [host |-> n.pair[1], rule |-> n.pair[2], from |-> n.from, to |-> n.to,
     breachingSince |-> OptionalMillis(f.evals[n.pair].state.since),
     at |-> Millis(f.asOf),
     isFire |-> IsFire(n.from, n.to), isResolve |-> IsResolve(n.from, n.to)]

\* transitions_to_records: by host and rule, so that what a scheduler is given
\* keeps its order between polls.
TransitionRecords(f, transitions) ==
    LET before(a, b) == a.pair[1] < b.pair[1]
                        \/ (a.pair[1] = b.pair[1] /\ a.pair[2] < b.pair[2])
        ordered == SetToSortSeq(transitions, before)
    IN [i \in DOMAIN ordered |-> AlertTransitionRecord(f, ordered[i])]

\* PollAdviceRecord: to stop is not to wait for long.
PollAdviceRecord(f, t) ==
    LET advice == Advice(f, t)
    IN CASE advice.kind = "Stop" -> [kind |-> "Stop", reason |-> f.lastFailure.kind]
         [] advice.kind = "Retry" -> [kind |-> "Retry", after |-> ToSeconds(advice.after),
                                      failures |-> f.failures]
         [] OTHER -> [kind |-> "Poll", after |-> ToSeconds(advice.after)]

\* PollResult::folded; a poll that was skipped reports no transition.
PollResult(f, cfg, transitions) ==
    [view |-> FleetViewRecord(f, cfg), transitions |-> TransitionRecords(f, transitions),
     advice |-> PollAdviceRecord(f, cfg.tuning), skipped |-> FALSE]

-----------------------------------------------------------------------------
\* A loop that stopped says why, at whatever instant the banner is drawn: it
\* stops exactly when the banner of a session that polled carries a failure the
\* user can repair, and such a banner is never a healthy one (advice against
\* freshness_at).
StopIsExplained ==
    \A now \in clock .. clock + FreshnessBudget(config.tuning) + 1 :
        \E banner \in {FreshnessRecord(fleet, config.tuning, now)} :
            LET repairable == banner.failure # None /\ banner.failure.isActionable
            IN /\ PollAdviceRecord(fleet, config.tuning).kind = "Stop"
                    <=> fleet.polled /\ repairable
               /\ repairable => SeverityRank[SeverityOfFreshness[banner.kind]]
                                  >= SeverityRank["Warning"]

\* The wait an app is told in whole seconds ends at the very instant the blind
\* gap of the next fold is counted from: neither early, nor after a truncated
\* wait that makes a busy loop (advice, advised_next_poll).
WaitCrossesWhole(result) ==
    fleet.polled /\ history.judgedBy = config /\ result.advice.kind # "Stop" =>
        /\ result.advice.after >= 1
        /\ Millis(fleet.advised) = result.view.asOf + 1000 * result.advice.after

\* The date of the banner is not later than what it dates: no host is judged
\* and, once a poll was clean, no value fetched before it, outages of single
\* metrics, focus changes and restarts included.
BannerDatesNothingLater(result) ==
    \A i \in DOMAIN result.view.hosts :
        LET host == result.view.hosts[i]
        IN /\ host.livenessAt >= Millis(LastSuccess(fleet))
           /\ fleet.lastClean # None =>
                \A m \in DOMAIN host.metrics :
                    host.metrics[m].latest # None =>
                        host.metrics[m].fetchedAt >= Millis(LastSuccess(fleet))

\* What a notification opens on is what it said: each crossing has one row, in
\* the phase it crossed to and breaching since the same instant.
NoticesOpenOnTheirRows(result) ==
    history.judgedBy = config =>
        \A n \in DOMAIN result.transitions :
            LET notice == result.transitions[n]
                rows == {a \in DOMAIN result.view.alerts :
                            /\ result.view.alerts[a].host = notice.host
                            /\ result.view.alerts[a].rule = notice.rule}
            IN /\ Cardinality(rows) = 1
               /\ \A a \in rows :
                    /\ result.view.alerts[a].phase = notice.to
                    /\ result.view.alerts[a].breachingSince = notice.breachingSince

\* A capacity belongs to a row of bytes, and where usage and ratio are both of
\* this poll and of one export it is the disk the agent divided by: 100 units,
\* or none when the ratio rounds to nothing.  A frozen side may be of another
\* poll than the other.
CapacitiesAreExact(result) ==
    \A i \in DOMAIN result.view.hosts :
        LET host == result.view.hosts[i]
            isRow(c, m) == host.metrics[m].id = c.id
            current(c) == \A m \in DOMAIN host.metrics :
                host.metrics[m].label = c.id[3].mountpoint =>
                    host.metrics[m].availability = "Present"
        IN \A k \in DOMAIN host.capacities :
             \E c \in {host.capacities[k]} :
                /\ \E m \in DOMAIN host.metrics :
                      isRow(c, m) /\ host.metrics[m].unit = "Bytes"
                /\ current(c) => c.total \in {None, 100}
                /\ c.total = 100 => c.free = 100 - c.used

\* The records say what the fold knows: the reason of a stop, the wait, the age
\* of the picture, the row behind a notification and the size of a disk.
RecordsAreTrue ==
    /\ StopIsExplained
    /\ \A result \in {PollResult(fleet, config, news)} :
          /\ WaitCrossesWhole(result) /\ BannerDatesNothingLater(result)
          /\ NoticesOpenOnTheirRows(result) /\ CapacitiesAreExact(result)

\* The screen tells the truth about the fold: what fires, when, on which mount,
\* row by row and once each, whether the picture is of now, under which
\* settings (view, config), and as it crosses to the app (RecordsAreTrue).
ScreenIsTrue ==
    /\ ScreenAgreesWithTheBell /\ AlertRowsAreExact /\ RowsAreDistinct
    /\ FreshMeansCurrent /\ SettingsReadBack /\ RecordsAreTrue
=============================================================================
