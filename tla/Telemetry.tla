------------------------------ MODULE Telemetry ------------------------------
(***************************************************************************)
(* The vocabulary of the core domain (pessimal_core): the metrics, hosts,  *)
(* selectors and time ranges every other component speaks in.  Instants    *)
(* and durations are integers of one unit.                                 *)
(***************************************************************************)
EXTENDS Integers, Sequences, FiniteSets

CONSTANTS
    None,      \* Option::None, equal to no instant and no name
    Second     \* one second in the unit of the instants and durations

ASSUME TelemetryAssumption == None \notin Int /\ Second \in Nat \ {0}

\* MetricKind, in declaration order: the order worst_failure, the planned
\* metrics and the metric rows of a view are sorted by.
MetricKindOrder ==
    << "CpuUtilization", "MemoryUtilization", "MemoryUsage",
       "FilesystemUtilization", "FilesystemUsage", "NetworkIo",
       "LoadAverage1m", "LoadAverage5m", "LoadAverage15m", "SystemUptime",
       "Temperature", "AgentHeartbeat", "AgentCollectionFailures" >>

MetricKinds == {MetricKindOrder[i] : i \in DOMAIN MetricKindOrder}
KindRank(k) == CHOOSE i \in DOMAIN MetricKindOrder : MetricKindOrder[i] = k

LoadAverages == {"LoadAverage1m", "LoadAverage5m", "LoadAverage15m"}
Counters == {"NetworkIo", "AgentHeartbeat", "AgentCollectionFailures"}

\* MetricKind::unit; a load average is a number of its own, not a ratio.
UnitOf(k) ==
    CASE k \in {"CpuUtilization", "MemoryUtilization", "FilesystemUtilization"} -> "Ratio"
      [] k \in {"MemoryUsage", "FilesystemUsage", "NetworkIo"} -> "Bytes"
      [] k \in LoadAverages -> "Load"
      [] k = "SystemUptime" -> "Seconds"
      [] k = "Temperature" -> "Celsius"
      [] OTHER -> "Count"

InstrumentKind(k) == IF k \in Counters THEN "Counter" ELSE "Gauge"

\* Liveness owns a silent host, so nobody writes a rule on the heartbeat.
Alertable(k) == k # "AgentHeartbeat"

\* Windows has no load average.
ExpectedOn(k, os) == ~(k \in LoadAverages /\ os = "Windows")

-----------------------------------------------------------------------------
\* OsFamily::from_otel_value: a system nobody knows is still a host to show.
FromOtelValue(value) ==
    CASE value = "linux" -> "Linux"
      [] value \in {"darwin", "macos"} -> "Darwin"
      [] value = "windows" -> "Windows"
      [] OTHER -> "Other"

\* HostSelector: All, Host(id) or AnyOf(ids).
SelectAll == [kind |-> "All"]
SelectHost(h) == [kind |-> "Host", host |-> h]
SelectAnyOf(hs) == [kind |-> "AnyOf", hosts |-> hs]

Matches(selector, h) ==
    \/ selector.kind = "All"
    \/ selector.kind = "Host" /\ selector.host = h
    \/ selector.kind = "AnyOf" /\ h \in selector.hosts

-----------------------------------------------------------------------------
\* TimeRange: half open, start before end.  ending_at refuses a window that
\* is not positive or that reaches back past the first representable instant.
RangeEndingAt(now, window, earliest) ==
    IF window <= 0 \/ now - window < earliest
    THEN None
    ELSE [start |-> now - window, end |-> now]

InRange(range, at) == range.start <= at /\ at < range.end

\* Instants cross to an app as whole milliseconds, and never as a sentinel.
Millis(at) == (at * 1000) \div Second
OptionalMillis(at) == IF at = None THEN None ELSE Millis(at)

\* MetricSeries: [host, kind, attributes, points], the points a sequence of
\* [at, value] in order of their instants (MetricSeries::new sorts them).
LatestAt(points, at) ==
    LET seen == {i \in DOMAIN points : points[i].at <= at}
    IN IF seen = {} THEN None
       ELSE points[CHOOSE i \in seen : \A j \in seen : j <= i]

\* The members of a finite set, each after those before it.  Sorting is ranking
\* here: SortSeq's definition is none the provers know.
Ranked(S, before(_, _)) ==
    [n \in 1 .. Cardinality(S) |->
        CHOOSE x \in S : Cardinality({y \in S : before(y, x)}) = n - 1]

Ascending(S) == Ranked(S, <)
=============================================================================
