------------------------------- MODULE Gather -------------------------------
(***************************************************************************)
(* One poll, or one test of the connection, on its way to the backend      *)
(* (gather.rs over the SigNoz adapter).  The requests of a plan are all    *)
(* sent at once and answered in any order, each from what the backend      *)
(* holds by then, while agents go on exporting.                             *)
(***************************************************************************)
EXTENDS PollObservation, SignozQuery, SeriesMath, AlertRules

CONSTANTS
    FleetConfig,   \* the configuration polled with
    Earliest,      \* the earliest instant there is
    Namings,       \* pairs of the spelling asked in and the one stored
    Histories,     \* what the backend may hold at first, sets of samples
    Batches,       \* what agents export meanwhile, sets of samples
    Faults,        \* replies that are no answer
    Mean(_),       \* the backend's average of the samples of a bucket
    MaxClock, MaxCalls    \* bounds: instants, and polls and probes

Samples == UNION (Histories \cup Batches)
Tuning == FleetConfig.tuning
Beat == Tuning.liveness.beat
FiveMinutes == 300 * Second

\* A sample is [kind, labels, at, value], from an agent that attaches what its
\* metric is grouped by: the version to a heartbeat, the dimensions to a host's
\* metric.  A counter counts up from zero.  No label is written like one of the
\* attributes asked for: an instance of underscores could not tell them apart.
IsSample(s) ==
    /\ s.kind \in MetricKinds /\ s.at \in Int
    /\ s.value = Gap \/ s.value \in IF InstrumentKind(s.kind) = "Counter" THEN Nat ELSE Int
    /\ \A a \in DOMAIN s.labels :
          /\ s.labels[a] # None
          /\ \A name \in QueriedAttributes : a.words = name.words => a = name
    /\ HostName \in DOMAIN s.labels =>
          /\ s.labels[HostName] \in Int
          /\ ToSet(ExtraDimensions(s.kind)) \subseteq DOMAIN s.labels
          /\ s.kind = "AgentHeartbeat" => ServiceVersion \in DOMAIN s.labels

\* The configuration is one of whole seconds, as a record's is, whose windows
\* are time ranges.
ASSUME ConfigAssumption ==
    /\ TuningValid(Tuning) /\ Beat \in Int /\ Beat >= Second
    /\ Tuning.liveness.downAfter \in Nat /\ Tuning.lag \in Nat /\ Tuning.metricStep \in Int
    /\ \A w \in {HostWindow(Tuning), OverviewWindow(Tuning), DetailWindow(Tuning)} :
          w \in Int /\ \A at \in 0 .. MaxClock : RangeEndingAt(at, w, Earliest) # None
    /\ IsFiniteSet(FleetConfig.rules) /\ PlannedMetrics(FleetConfig) \subseteq MetricKinds
    /\ FleetConfig.detail \subseteq MetricKinds

ASSUME BackendAssumption ==
    /\ Namings \subseteq NamingKinds \X NamingKinds
    /\ \A batch \in Histories \cup Batches : IsFiniteSet(batch)
    /\ \A s \in Samples : IsSample(s)
    /\ \A f \in Faults : ~Post(f).ok
    /\ \A measured \in SUBSET {s \in Samples : s.value # Gap} :
          IsFiniteSet(measured) /\ measured # {} => Mean(measured) \in Int
    /\ Gap \notin Int /\ None \notin FailureKinds /\ None # {FleetConfig.focus}
    /\ MaxClock \in Nat /\ MaxCalls \in Nat

VARIABLES
    client,   \* SignozConfig: the naming; the heartbeat interval is the policy's
    backend,  \* [naming, samples] of the instance
    clock,
    call,     \* the poll or probe in flight, or None
    obs,      \* the observation the last call returned, if it was a poll
    probe,    \* what the last call returned, if it was a probe
    started,  \* history: what the backend held when the last call began
    calls     \* counted for the bound

vars == << client, backend, clock, call, obs, probe, started, calls >>

-----------------------------------------------------------------------------
\* The instance: a sample is [kind, labels, at, value], counters are stored as
\* cumulative sums; a query answers with one series per value of the keys it
\* groups by, one bucket per step, stamped at its start and partial when the
\* window cuts it.
BucketOf(at, step) == (at \div step) * step

Aggregate(samples, aggregation) ==
    LET finite == {s \in samples : s.value # Gap}
        values == {s.value : s \in finite}
    IN IF finite = {} THEN Gap
       ELSE IF aggregation = "max" THEN CHOOSE v \in values : \A w \in values : w <= v
       ELSE Mean(finite)

Keyed(stored, sample, keys) ==
    LET has == {a \in DOMAIN sample.labels : Spelled(stored.naming, a) \in keys}
    IN [k \in {Spelled(stored.naming, a) : a \in has} |->
          sample.labels[CHOOSE a \in has : Spelled(stored.naming, a) = k]]

Matched(stored, request) ==
    {s \in stored.samples :
        /\ Spelled(stored.naming, OtelName(s.kind)) = request.metric
        /\ request.temporality = IF InstrumentKind(s.kind) = "Counter"
                                 THEN "Cumulative" ELSE "Unspecified"
        /\ InRange(request, s.at)
        /\ request.filter = None
           \/ (HostName \in DOMAIN s.labels /\ s.labels[HostName] \in request.filter)}

BucketsOf(samples, request) ==
    LET starts == {BucketOf(s.at, request.step) : s \in samples}
        valueAt(b) == Aggregate({s \in samples : BucketOf(s.at, request.step) = b},
                                request.aggregation)
        order == Ascending(starts)
    IN [n \in DOMAIN order |->
          [at |-> order[n], value |-> valueAt(order[n]),
           partial |-> order[n] < request.start
                       \/ order[n] + request.step > request.end]]

\* The order of the series is the backend's own.
Answer(stored, request, backwards) ==
    LET keys == ToSet(request.groupBy)
        matched == Matched(stored, request)
        groups == {Keyed(stored, s, keys) : s \in matched}
        seriesOf(g) == [labels |-> g,
                        values |-> BucketsOf({s \in matched : Keyed(stored, s, keys) = g},
                                             request)]
        series == SetToSeq({seriesOf(g) : g \in groups})
    IN [transport |-> "ok", status |-> 200, parses |-> TRUE, says |-> "success",
        null |-> groups = {}, results |-> IF backwards THEN Reverse(series) ELSE series]

-----------------------------------------------------------------------------
\* What execute_plan makes of the answers, in the order of the plan whatever
\* the order they came in; request 0 is the roster.
SeriesResult(answer) ==
    IF answer.ok THEN Returned(answer.value) ELSE Failed(FailureKind(answer.failure))

RosterOutcome(answer) ==
    IF answer.ok THEN Listed(answer.value) ELSE RosterFailed(FailureKind(answer.failure))

Gathered(plan, answers) ==
    [at |-> plan.now,
     roster |-> RosterOutcome(answers[0]),
     series |-> [i \in DOMAIN plan.queries |->
                   [spec |-> plan.queries[i], result |-> SeriesResult(answers[i])]]]

\* probe_window, which clamps where a plan would refuse, and a bug of it: the
\* window of the charts.
ProbeWindowOfCharts(now) == RangeEndingAt(now, DetailWindow(Tuning), Earliest)

ProbeWindow(now) ==
    RangeEndingAt(now, IF HostWindow(Tuning) < Second THEN Second
                       ELSE HostWindow(Tuning), Earliest)

SampleHostLimit == 5

\* probe_backend: the handshake first, then the roll call of a poll.
Probed(now, checked, listed) ==
    IF ~checked.ok
    THEN [at |-> now, connected |-> FALSE, failure |-> FailureKind(checked.failure),
          seen |-> 0, sample |-> << >>]
    ELSE IF ~listed.ok
    THEN [at |-> now, connected |-> TRUE, failure |-> FailureKind(listed.failure),
          seen |-> 0, sample |-> << >>]
    ELSE LET ids == Ascending(DOMAIN listed.value)
         IN [at |-> now, connected |-> TRUE, failure |-> None, seen |-> Len(ids),
             sample |-> IF Len(ids) <= SampleHostLimit THEN ids
                        ELSE SubSeq(ids, 1, SampleHostLimit)]

\* BackendProbe::is_usable.
IsUsable(p) == p.connected /\ p.seen > 0

\* BackendProbe::message, by what it says.
ProbeMessage(p) ==
    IF p.failure # None THEN IF p.connected THEN "ListingFailed" ELSE "Refused"
    ELSE IF p.seen = 0 THEN "NoHosts" ELSE "HostsSeen"

\* BackendProbeRecord and ProbeFailureRecord: every failed request of a probe
\* is told as the roster's, and the window is the one that was asked.
ProbeRecord(p) ==
    LET window == ProbeWindow(p.at)
    IN [connected |-> p.connected, usable |-> IsUsable(p), message |-> ProbeMessage(p),
        failure |-> IF p.failure = None THEN None
                    ELSE [kind |-> p.failure, request |-> "Roster", at |-> Millis(p.at),
                          actionable |-> IsActionable(p.failure)],
        seen |-> p.seen, sample |-> p.sample,
        windowStart |-> Millis(window.start), windowEnd |-> Millis(window.end)]

\* The requests on the wire, and what becomes of a reply to each.
RequestOf(c, i) ==
    CASE c.op = "Poll" /\ i = 0 ->
             RosterRequest(client.naming, c.plan.hostRange, Beat)
      [] c.op = "Poll" /\ i > 0 ->
             LET spec == c.plan.queries[i]
             IN BuildRequest(client.naming, spec.metric, spec.selector,
                             RangeEndingAt(c.plan.now, spec.window, Earliest),
                             Tuning.metricStep)
      [] c.op = "Check" ->
             BuildRequest(client.naming, "AgentHeartbeat", SelectAll,
                          RangeEndingAt(c.at, FiveMinutes, Earliest), FiveMinutes)
      [] OTHER -> RosterRequest(client.naming, ProbeWindow(c.at), Beat)

Decoded(c, i, reply) ==
    CASE c.op = "Poll" /\ i > 0 ->
             QuerySeries(client.naming, c.plan.queries[i].metric, reply)
      [] c.op = "Check" -> CheckConnection(reply)
      [] OTHER -> ListHosts(client.naming, reply)

-----------------------------------------------------------------------------
Init ==
    /\ \E pair \in Namings, samples \in Histories :
          /\ client = [naming |-> pair[1]]
          /\ backend = [naming |-> pair[2], samples |-> samples]
    /\ clock = 0
    /\ call = None /\ obs = None /\ probe = None
    /\ started = {}
    /\ calls = 0

Begin(c) ==
    /\ call = None
    /\ calls < MaxCalls /\ calls' = calls + 1
    /\ call' = c
    /\ started' = backend.samples
    /\ obs' = None /\ probe' = None
    /\ UNCHANGED << client, backend, clock >>

\* poll_once plans, and sends everything.
StartPoll ==
    LET plan == PlanPoll(FleetConfig, clock, Earliest)
    IN Begin([op |-> "Poll", at |-> clock, plan |-> plan,
              answers |-> [i \in 0 .. Len(plan.queries) |-> None]])

StartProbe ==
    Begin([op |-> "Check", at |-> clock, answers |-> [i \in {0} |-> None]])

Outstanding(i) == call # None /\ i \in DOMAIN call.answers /\ call.answers[i] = None

Take(i, reply) ==
    /\ call' = [call EXCEPT !.answers[i] = Decoded(call, i, reply)]
    /\ UNCHANGED << client, backend, clock, obs, probe, started, calls >>

\* The backend answers a request from what it holds now, or not as asked.
Reply(i) ==
    /\ Outstanding(i)
    /\ \/ \E backwards \in BOOLEAN :
             Take(i, Answer(backend, RequestOf(call, i), backwards))
       \/ \E fault \in Faults : Take(i, fault)

\* A bug of Timeout: reqwest's default, which is none.
NeverTimesOut(i) == FALSE /\ UNCHANGED vars

\* The client gives a request up after its timeout.
Timeout(i) ==
    /\ Outstanding(i)
    /\ Take(i, [transport |-> "timeout"])

\* join: everything was answered, and the observation is folded.
FinishPoll ==
    /\ call # None /\ call.op = "Poll"
    /\ \A i \in DOMAIN call.answers : call.answers[i] # None
    /\ obs' = Gathered(call.plan, call.answers)
    /\ call' = None
    /\ UNCHANGED << client, backend, clock, probe, started, calls >>

\* The handshake passed: the roll call goes out.
ProbeRoster ==
    /\ call # None /\ call.op = "Check"
    /\ call.answers[0] # None /\ call.answers[0].ok
    /\ call' = [op |-> "List", at |-> call.at, answers |-> [i \in {0} |-> None]]
    /\ UNCHANGED << client, backend, clock, obs, probe, started, calls >>

FinishProbe ==
    /\ call # None /\ call.op \in {"Check", "List"} /\ call.answers[0] # None
    /\ call.op = "Check" => ~call.answers[0].ok
    /\ probe' = IF call.op = "Check" THEN Probed(call.at, call.answers[0], None)
                ELSE Probed(call.at, Success(TRUE), call.answers[0])
    /\ call' = None
    /\ UNCHANGED << client, backend, clock, obs, started, calls >>

\* Agents export, now or late: a sample may be older than the poll in flight.
Export(batch) ==
    /\ ~(batch \subseteq backend.samples)
    /\ backend' = [backend EXCEPT !.samples = @ \cup batch]
    /\ UNCHANGED << client, clock, call, obs, probe, started, calls >>

Tick ==
    /\ clock < MaxClock
    /\ clock' = clock + 1
    /\ UNCHANGED << client, backend, call, obs, probe, started, calls >>

Requests == 0 .. Len(PlanQueries(FleetConfig))

Next ==
    \/ StartPoll \/ StartProbe \/ FinishPoll \/ ProbeRoster \/ FinishProbe \/ Tick
    \/ \E i \in Requests : Reply(i) \/ Timeout(i)
    \/ \E batch \in Batches : Export(batch)

Spec ==
    /\ Init /\ [][Next]_vars
    /\ WF_vars(FinishPoll) /\ WF_vars(ProbeRoster) /\ WF_vars(FinishProbe)
    /\ \A i \in Requests : WF_vars(Timeout(i))

-----------------------------------------------------------------------------
\* The samples of a metric that a complete bucket of a window holds.
Shown(samples, kind, range, step) ==
    {s \in samples :
        /\ s.kind = kind /\ HostName \in DOMAIN s.labels /\ s.value # Gap
        /\ range.start <= BucketOf(s.at, step)
        /\ BucketOf(s.at, step) + step <= range.end}

Understood == client.naming = backend.naming
RosterRange(at) == RangeEndingAt(at, HostWindow(Tuning), Earliest)
BeatsIn(samples, at) == Shown(samples, "AgentHeartbeat", RosterRange(at), Beat)
Beating(samples, at) == {s.labels[HostName] : s \in BeatsIn(samples, at)}

\* An answered roll call is complete: whoever beat in its window when the poll
\* began is on it, with a heartbeat no older; so an empty roster is an empty
\* fleet, and no reply that was not understood reads as one (temporality_for,
\* QueryRangeEnvelope::is_success).
RosterIsComplete ==
    obs # None /\ obs.roster.kind = "Listed" /\ Understood =>
        \A s \in BeatsIn(started, obs.at) :
            s.labels[HostName] \in DOMAIN obs.roster.hosts
            /\ obs.roster.hosts[s.labels[HostName]].beat >= BucketOf(s.at, Beat)

\* A heartbeat on the roster was sent: by that host, inside the window, less
\* than a heartbeat interval after the instant listed, and by the version the
\* host is listed with, upgraded in the window or not.
HeartbeatsAreReal ==
    obs # None /\ obs.roster.kind = "Listed" =>
        \A h \in DOMAIN obs.roster.hosts :
            LET host == obs.roster.hosts[h]
            IN host.beat # None =>
                 /\ InRange(RosterRange(obs.at), host.beat)
                 /\ \E s \in backend.samples :
                       /\ s.kind = "AgentHeartbeat" /\ HostName \in DOMAIN s.labels
                       /\ s.labels[HostName] = h
                       /\ host.beat <= s.at /\ s.at < host.beat + Beat
                       /\ host.version = s.labels[ServiceVersion]

\* The attribute sets of a host's metric, as its agent attached them.
AttributesOf(samples, h, kind) ==
    {[a \in ToSet(ExtraDimensions(kind)) |-> s.labels[a]] :
        s \in {x \in samples : HostName \in DOMAIN x.labels
                               /\ x.labels[HostName] = h /\ x.kind = kind}}

Answered(i) == obs.series[i].result.ok

\* What an agent exports apart arrives apart, under the names the rest of the
\* client looks up, whichever way the instance spells them (group_by,
\* to_dotted).
SeriesStayApart ==
    obs # None /\ Understood =>
        \A i \in DOMAIN obs.series :
            LET spec == obs.series[i].spec
                range == RangeEndingAt(obs.at, spec.window, Earliest)
                shown(h) == AttributesOf(Shown(started, spec.metric, range,
                                               Tuning.metricStep), h, spec.metric)
                came(h) == {s.attributes : s \in {x \in ToSet(obs.series[i].result.series) :
                                                    x.host = h}}
            IN Answered(i) =>
                 \A s \in Shown(started, spec.metric, range, Tuning.metricStep) :
                    LET h == s.labels[HostName]
                    IN Matches(spec.selector, h) =>
                         /\ shown(h) \subseteq came(h)
                         /\ came(h) \subseteq AttributesOf(backend.samples, h, spec.metric)

\* The charts of the focused host come from its own, longer window whenever
\* that was answered, whichever of the two requests was slower (plan order,
\* join_all, series_for).
DetailWins ==
    obs # None =>
        \A i \in DOMAIN obs.series :
            LET spec == obs.series[i].spec
            IN spec.selector # SelectAll /\ Answered(i) =>
                 \A s \in ToSet(obs.series[i].result.series) :
                    s \in ToSet(SeriesFor(obs, FleetConfig.focus, spec.metric))

\* No traffic is invented: a rate between two samples is never negative, and
\* never above what the counter read, whatever restarts lie between them
\* (differenced).
RatesAreReal ==
    obs # None =>
        \A i \in DOMAIN obs.series : Answered(i) =>
            \A s \in ToSet(obs.series[i].result.series) :
                IsRate(s.kind) =>
                    LET normal == Normalize(s).points
                        highest == {p.value : p \in ToSet(s.points)}
                    IN \A p \in ToSet(normal) :
                          0 <= p.value /\ \E v \in highest : p.value <= v * Second

\* What an alert is judged on: at the newest instant any of a host's series
\* has, the reduced value is over the threshold exactly when some series there
\* is, and the series the alert names holds that value, in whatever order the
\* series came (reduce, dominant_at).
Thresholds == {p.value : p \in UNION {ToSet(s.points) :
                 s \in UNION {ToSet(obs.series[i].result.series) :
                                i \in {j \in DOMAIN obs.series : Answered(j)}}}}

ReductionJudgesAll ==
    obs # None =>
        \A i \in DOMAIN obs.series, comparator \in {">", "<="} :
            LET spec == obs.series[i].spec
                all == SeriesFor(obs, FleetConfig.focus, spec.metric)
                ranks == SetToSeq({s.attributes : s \in ToSet(all)})
                below == {<< ranks[p[1]], ranks[p[2]] >> :
                            p \in {q \in (DOMAIN ranks) \X (DOMAIN ranks) : q[1] < q[2]}}
                reduction == ReductionFor(comparator)
                reduced == IF all = << >> THEN << >> ELSE Reduce(all, reduction)
                newest == reduced[Len(reduced)]
                named == DominantAt(all, newest.at, reduction, below)
            IN reduced # << >> =>
                 /\ \A threshold \in Thresholds :
                      Evaluate(comparator, newest.value, threshold) <=>
                        \E s \in ToSet(all) : \E p \in ToSet(s.points) :
                           p.at = newest.at /\ Evaluate(comparator, p.value, threshold)
                 /\ \E p \in ToSet(named.points) :
                       p.at = newest.at /\ p.value = newest.value
                 /\ named = DominantAt(Reverse(all), newest.at, reduction, below)

\* The values alerts are judged on and charts are drawn from are the agent's:
\* of the request that asked most of it, as rates and over all of its series
\* (series_for, normalized, reduce).
ValuesAreTheAgents == DetailWins /\ RatesAreReal /\ ReductionJudgesAll

\* A test that says connected and no hosts means what an empty fleet would
\* mean: a poll at that instant would have listed nobody either, over the very
\* window the sentence names.  One that says hosts were seen is usable, and saw
\* only hosts a poll would list (probe_window is the roster's window).
ProbeMeansThePoll ==
    probe # None =>
        \E told \in {ProbeRecord(probe)}, range \in {RosterRange(probe.at)} :
            /\ told.message = "NoHosts" /\ Understood
                  => Beating(started, probe.at) = {}
            /\ told.windowStart = Millis(range.start) /\ told.windowEnd = Millis(range.end)
            /\ told.usable <=> told.message = "HostsSeen"
            /\ told.usable => Understood
            /\ \A n \in DOMAIN told.sample :
                  \E s \in backend.samples :
                      /\ s.kind = "AgentHeartbeat" /\ InRange(range, s.at)
                      /\ HostName \in DOMAIN s.labels
                      /\ s.labels[HostName] = told.sample[n]

\* A roll call is the fleet, everyone who beat and nobody who did not, and a
\* connection test means what a poll would say (fetch_roster, probe).
RosterIsTrue == RosterIsComplete /\ HeartbeatsAreReal /\ ProbeMeansThePoll

\* A poll ends, and a test does, though the backend never answers: every
\* request has a timeout, and a failed one is an answer too.
EveryCallEnds == call # None ~> call = None
=============================================================================
