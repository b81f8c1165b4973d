---------------------------- MODULE SignozQuery ----------------------------
(***************************************************************************)
(* The SigNoz adapter (pessimal_query_signoz): how a metric and a selector *)
(* become a query_range request, and how the reply becomes hosts or series. *)
(*                                                                         *)
(* A name is [words, dots]: its words, and after which of them stands a    *)
(* dot, an underscore being after the others.  A label map is a function   *)
(* from names to values.                                                   *)
(***************************************************************************)
EXTENDS Telemetry, SequencesExt

CONSTANT Gap    \* a sample that is no finite number: NaN, Inf, null

Named(words, dots) == [words |-> words, dots |-> dots]
Dotted(words) == Named(words, 1 .. Len(words) - 1)

HostName == Dotted(<<"host", "name">>)
OsType == Dotted(<<"os", "type">>)
ServiceVersion == Dotted(<<"service", "version">>)

\* MetricKind::otel_name.
OtelName(kind) ==
    CASE kind = "CpuUtilization"        -> Dotted(<<"system", "cpu", "utilization">>)
      [] kind = "MemoryUtilization"     -> Dotted(<<"system", "memory", "utilization">>)
      [] kind = "MemoryUsage"           -> Dotted(<<"system", "memory", "usage">>)
      [] kind = "FilesystemUtilization" -> Dotted(<<"system", "filesystem", "utilization">>)
      [] kind = "FilesystemUsage"       -> Dotted(<<"system", "filesystem", "usage">>)
      [] kind = "NetworkIo"             -> Dotted(<<"system", "network", "io">>)
      [] kind = "LoadAverage1m"  -> Named(<<"system", "cpu", "load", "average", "1m">>, {1, 2, 4})
      [] kind = "LoadAverage5m"  -> Named(<<"system", "cpu", "load", "average", "5m">>, {1, 2, 4})
      [] kind = "LoadAverage15m" -> Named(<<"system", "cpu", "load", "average", "15m">>, {1, 2, 4})
      [] kind = "SystemUptime"          -> Dotted(<<"system", "uptime">>)
      [] kind = "Temperature"           -> Dotted(<<"hw", "temperature">>)
      [] kind = "AgentHeartbeat"        -> Dotted(<<"pessimal", "agent", "heartbeat">>)
      [] kind = "AgentCollectionFailures" ->
             Named(<<"pessimal", "agent", "collection", "failures">>, {1, 2})

\* A bug of ExtraDimensions: the interfaces are one.
ExtraDimensionsOfTheHost(kind) ==
    CASE kind \in {"FilesystemUsage", "FilesystemUtilization"} ->
             << Dotted(<<"system", "filesystem", "mountpoint">>) >>
      [] kind = "NetworkIo" -> << Dotted(<<"network", "io", "direction">>) >>
      [] OTHER -> << >>

\* extra_dimensions: what tells two series of a host's metric apart.
ExtraDimensions(kind) ==
    CASE kind \in {"FilesystemUsage", "FilesystemUtilization"} ->
             << Dotted(<<"system", "filesystem", "mountpoint">>) >>
      [] kind = "NetworkIo" -> << Dotted(<<"network", "io", "direction">>),
                                  Dotted(<<"network", "interface", "name">>) >>
      [] kind = "MemoryUsage" -> << Dotted(<<"system", "memory", "state">>) >>
      [] kind = "Temperature" -> << Dotted(<<"hw", "id">>), Dotted(<<"hw", "name">>) >>
      [] OTHER -> << >>

QueriedAttributes ==
    {HostName, OsType, ServiceVersion}
    \cup UNION {ToSet(ExtraDimensions(k)) : k \in MetricKinds}

NamingKinds == {"Dotted", "Underscored"}

\* MetricNaming::apply: before v0.88 every dot is an underscore as well.
Spelled(naming, name) ==
    IF naming = "Dotted" THEN name ELSE [name EXCEPT !.dots = {}]

\* A bug of ToDotted: the key is left as it came.
AsReturned(naming, returned) == returned

\* to_dotted looks a key up among those a query names; another one is left.
ToDotted(naming, returned) ==
    LET readings == {a \in QueriedAttributes : Spelled(naming, a) = returned}
    IN IF naming = "Dotted" \/ readings = {} THEN returned
       ELSE CHOOSE a \in readings : TRUE

GroupBy(naming, kind) ==
    LET keys == << HostName >> \o ExtraDimensions(kind)
    IN [i \in DOMAIN keys |-> Spelled(naming, keys[i])]

\* A cumulative sum asked for as Unspecified answers with nothing, silently.
TemporalityFor(kind) ==
    IF InstrumentKind(kind) = "Counter" THEN "Cumulative" ELSE "Unspecified"

AggregationFor(kind) == IF InstrumentKind(kind) = "Counter" THEN "max" ELSE "avg"

-----------------------------------------------------------------------------
\* Requests: [start, end, step, metric, temporality, aggregation, filter,
\* groupBy]; filter is the set of host names let through, None for no filter.
FilterFor(selector) ==
    CASE selector.kind = "All" -> None
      [] selector.kind = "Host" -> {selector.host}
      [] OTHER -> selector.hosts

AtLeastASecond(step) == IF step < Second THEN Second ELSE step

\* build_request, and the body list_hosts builds likewise.
Request(naming, kind, filter, range, step, groupBy) ==
    [start |-> range.start, end |-> range.end, step |-> AtLeastASecond(step),
     metric |-> Spelled(naming, OtelName(kind)),
     temporality |-> TemporalityFor(kind), aggregation |-> AggregationFor(kind),
     filter |-> filter, groupBy |-> groupBy]

BuildRequest(naming, kind, selector, range, step) ==
    Request(naming, kind, FilterFor(selector), range, step, GroupBy(naming, kind))

\* The heartbeat is the roll call: one bucket per beat, with what fills in the
\* host record.
RosterRequest(naming, range, beat) ==
    Request(naming, "AgentHeartbeat", None, range, beat,
            << Spelled(naming, HostName), Spelled(naming, OsType),
               Spelled(naming, ServiceVersion) >>)

-----------------------------------------------------------------------------
\* Replies: [transport, status, parses, says, null, results], results a sequence
\* of [labels, values] unless it is an explicit null, a value [at, value, partial].
Failure(kind) == [ok |-> FALSE, failure |-> kind]
Success(value) == [ok |-> TRUE, value |-> value]

\* post: which replies are an answer, and which failure the others are.  A
\* body without its envelope is no answer, and neither is one that says so;
\* null results are an empty answer.
Post(reply) ==
    IF reply.transport \in {"timeout", "connect"} THEN Failure("Unreachable")
    ELSE IF reply.transport # "ok" THEN Failure("Backend")
    ELSE IF reply.status \in {401, 403} THEN Failure("Unauthorized")
    ELSE IF reply.status \notin 200 .. 299 THEN Failure("Backend")
    ELSE IF ~reply.parses THEN Failure("Backend")
    ELSE IF reply.says \notin {"", "success"} THEN Failure("Backend")
    ELSE Success(IF reply.null THEN << >> ELSE reply.results)

\* dotted_labels: the labels that are scalars, under their dotted names.
DottedLabels(naming, series) ==
    LET scalar == {k \in DOMAIN series.labels : series.labels[k] # None}
    IN [name \in {ToDotted(naming, k) : k \in scalar} |->
          series.labels[CHOOSE k \in scalar : ToDotted(naming, k) = name]]

\* A bucket that covers its step and holds a finite number.
Usable(value) == ~value.partial /\ value.value # Gap

\* The series that name their host; the others are dropped.
OfAHost(naming, results) ==
    {i \in DOMAIN results : HostName \in DOMAIN DottedLabels(naming, results[i])}

\* to_metric_series, of a series that names its host.
ToMetricSeries(naming, kind, series) ==
    LET labels == DottedLabels(naming, series)
        usable == {i \in DOMAIN series.values : Usable(series.values[i])}
        order == Ranked(usable, LAMBDA i, j : series.values[i].at < series.values[j].at)
    IN [host |-> labels[HostName], kind |-> kind,
        attributes |-> [a \in DOMAIN labels \ {HostName} |-> labels[a]],
        points |-> [n \in DOMAIN order |-> [at |-> series.values[order[n]].at,
                                            value |-> series.values[order[n]].value]]]

\* query_series, of a selector that selects somebody.
QuerySeries(naming, kind, reply) ==
    LET posted == Post(reply)
        order == Ascending(OfAHost(naming, posted.value))
    IN IF ~posted.ok THEN posted
       ELSE Success([n \in DOMAIN order |->
                       ToMetricSeries(naming, kind, posted.value[order[n]])])

\* One series of the roll call as a host; its beat is the newest usable bucket.
HostOf(labels, series) ==
    LET beats == {series.values[i].at : i \in {j \in DOMAIN series.values :
                                                 Usable(series.values[j])}}
        known(a) == IF a \in DOMAIN labels THEN labels[a] ELSE None
    IN [id |-> labels[HostName], os |-> FromOtelValue(known(OsType)),
        version |-> known(ServiceVersion),
        beat |-> IF beats = {} THEN None
                 ELSE CHOOSE b \in beats : \A c \in beats : c <= b]

NewerBeat(old, new) == new.beat # None /\ (old.beat = None \/ old.beat < new.beat)

\* list_hosts, the vector without duplicates as a function of the ids.  Of a
\* host seen twice, under two versions, the newer heartbeat stays, and the first
\* of two alike.
ListHosts(naming, reply) ==
    LET posted == Post(reply)
        host(i) == HostOf(DottedLabels(naming, posted.value[i]), posted.value[i])
        named == OfAHost(naming, posted.value)
        stays(i, j) == IF i <= j THEN ~NewerBeat(host(i), host(j))
                       ELSE NewerBeat(host(j), host(i))
        seen(id) == {i \in named : host(i).id = id}
        kept(id) == CHOOSE i \in seen(id) : \A j \in seen(id) : stays(i, j)
    IN IF ~posted.ok THEN posted
       ELSE Success([id \in {host(i).id : i \in named} |-> host(kept(id))])

\* check_connection: any answer is a pass, an empty one too.
CheckConnection(reply) == IF Post(reply).ok THEN Success(TRUE) ELSE Post(reply)
=============================================================================
