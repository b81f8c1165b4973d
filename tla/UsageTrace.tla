----------------------------- MODULE UsageTrace -----------------------------
(***************************************************************************)
(* What Pessimal reports on itself, and to whom: the pure half of usage    *)
(* reporting (pessimal_usage, destination.rs).  Consent, the destination a *)
(* build carries, the narrowed versions, the spans and the resource they   *)
(* travel with.                                                            *)
(*                                                                         *)
(* A version is the sequence of its dot-separated components, a number of  *)
(* at most six digits or anything else; an endpoint is [scheme, authority,  *)
(* path], the authority split after the name it begins with and at its dots *)
(* and colons, a colon a piece of its own, the path at its slashes, ""     *)
(* after a trailing one, and a signal path one segment.                    *)
(***************************************************************************)
EXTENDS PollObservation

CONSTANT Word     \* a component of a version that is not such a number

ASSUME UsageTraceAssumption == Word \notin Int

\* The text of a version as the host has it, and the base URL of a build.
Version == Seq(Int \cup {Word})
Endpoint == [scheme : STRING, authority : Seq(STRING), path : Seq(STRING)]

-----------------------------------------------------------------------------
\* env_is_truthy and env_says_off, of a value in lower case or None.
IsTruthy(value) == value # None /\ value \notin {"", "0", "false", "no", "off"}
SaysOff(value) == value \in {"0", "false", "no", "off", "disabled"}

Denials == {"NoDestination", "OptedOut", "DoNotTrack", "ContinuousIntegration"}

\* Consent::resolve: any one denial decides, the first is the reason shown.
Resolve(optedOut, hasDestination, env) ==
    IF ~hasDestination THEN "NoDestination"
    ELSE IF optedOut \/ SaysOff(env.PESSIMAL_USAGE_REPORTING) THEN "OptedOut"
    ELSE IF IsTruthy(env.DO_NOT_TRACK) THEN "DoNotTrack"
    ELSE IF IsTruthy(env.CI) THEN "ContinuousIntegration"
    ELSE "Granted"

-----------------------------------------------------------------------------
Loopback == {"localhost", "127.0.0.1", "[::1]"}
SignalPaths == {"v1/traces", "v1/metrics", "v1/logs"}

\* The path without the slashes it ends in.
WithoutSlashes(path) ==
    LET last == {n \in DOMAIN path : path[n] # ""}
    IN IF last = {} THEN << >> ELSE SubSeq(path, 1, Max(last))

\* strip_signal_path, and the slashes in front of what it removed.
StripSignalPath(path) ==
    LET trimmed == WithoutSlashes(path)
    IN IF trimmed # << >> /\ Last(trimmed) \in SignalPaths
       THEN WithoutSlashes(Front(trimmed))
       ELSE trimmed

\* is_loopback_authority: it begins with a loopback name, and that ends at a
\* colon, a slash or the end.  What follows the colon is not looked at.
IsLoopback(authority) ==
    /\ authority # << >> /\ Head(authority) \in Loopback
    /\ Len(authority) > 1 => authority[2] = ":"

\* is_acceptable_endpoint, once signal path and slashes are gone.
IsAcceptable(endpoint) ==
    \/ endpoint.scheme = "https"
       /\ (endpoint.authority # << >> \/ StripSignalPath(endpoint.path) # << >>)
    \/ endpoint.scheme = "http" /\ IsLoopback(endpoint.authority)

\* Destination::from_bundle: None when a part is blank, as in every build but
\* a release, or when the endpoint is not acceptable.
FromBundle(endpoint, key) ==
    IF endpoint = None \/ key = None \/ ~IsAcceptable(endpoint) THEN None
    ELSE [endpoint |-> [endpoint EXCEPT !.path = StripSignalPath(@)], key |-> key]

TracesUrl(destination) ==
    [destination.endpoint EXCEPT !.path = Append(@, "v1/traces")]

-----------------------------------------------------------------------------

\* Version::parse: dotted numbers, cut after keep components, or None.
ParseVersion(raw, keep) ==
    IF \E i \in DOMAIN raw : raw[i] = Word THEN None
    ELSE SubSeq(raw, 1, Min({keep, Len(raw)}))

AppVersion(raw) == ParseVersion(raw, 3)
OsVersion(raw) == ParseVersion(raw, 2)

\* UsageResource::new and attributes: None is left off the wire.
Resource(platform, deviceClass, instance, version, build, osVersion) ==
    [ServiceName |-> "pessimal-client", ServiceInstanceId |-> instance,
     Platform |-> platform, DeviceClass |-> deviceClass,
     ServiceVersion |-> AppVersion(version), AppBuild |-> build,
     OsVersion |-> OsVersion(osVersion)]

-----------------------------------------------------------------------------
\* Outcome::is_error.
IsError(outcome) == outcome \notin {"Ok", "Cancelled"}

\* What a poll is said to have come to: a cancelled one is never reported.
Outcomes == {"Ok", "Partial", "Unauthorized", "Unreachable", "BackendError", "DecodeError"}
BackendKinds == {"Signoz", "Clickstack", "Honeycomb", "Otlp"}

\* backend_kind_from_name, of a name in lower case: one of four whatever the
\* adapter calls itself.
BackendKind(name) ==
    CASE name = "signoz" -> "Signoz"
      [] name \in {"clickstack", "hyperdx"} -> "Clickstack"
      [] name = "honeycomb" -> "Honeycomb"
      [] OTHER -> "Otlp"

OutcomeOfKind(kind) ==
    CASE kind = "Malformed" -> "DecodeError"
      [] kind = "Backend" -> "BackendError"
      [] OTHER -> kind

\* poll_outcome: how a poll ended, read off the freshness it left.
PollOutcome(f) ==
    IF f.failures = 0 THEN "Ok"
    ELSE IF f.asOf # None /\ f.lastRoster = f.asOf THEN "Partial"
    ELSE IF f.lastFailure = None THEN "BackendError"
    ELSE OutcomeOfKind(f.lastFailure.kind)

\* UsageSpan::ClientPoll, the one span an app records; the counts of hosts, of
\* rules and of firing alerts it carries are left out.
ClientPoll(outcome, backend) ==
    [name |-> "pessimal.client.poll", kind |-> "Internal",
     Outcome |-> outcome, BackendKind |-> backend]

Span == [parent : {None},
         payload : [name : {"pessimal.client.poll"}, kind : {"Internal"},
                    Outcome : Outcomes, BackendKind : BackendKinds]]
Trace == [poll : Nat, spans : {<< span >> : span \in Span}]

\* poll_trace: the poll stands for the id of the trace and of its root span.
PollTrace(poll, freshness, backendName) ==
    [poll |-> poll,
     spans |-> << [parent |-> None,
                   payload |-> ClientPoll(PollOutcome(freshness), BackendKind(backendName))] >>]

\* encode_span: a status as an error rate counts it, without a message.
EncodeSpan(trace, span) ==
    [traceId |-> trace.poll, parentSpanId |-> span.parent,
     name |-> span.payload.name, kind |-> span.payload.kind,
     attributes |-> [Outcome |-> span.payload.Outcome,
                     BackendKind |-> span.payload.BackendKind],
     status |-> IF IsError(span.payload.Outcome) THEN "Error" ELSE "Ok"]

\* export_trace_request: all the spans of a batch, under one resource.  Their
\* order carries no meaning on the wire.
ExportTraceRequest(resource, traces) ==
    [resource |-> resource,
     spans |-> UNION {{EncodeSpan(trace, span) : span \in ToSet(trace.spans)} :
                        trace \in ToSet(traces)}]
=============================================================================
