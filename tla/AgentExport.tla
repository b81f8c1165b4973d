----------------------------- MODULE AgentExport -----------------------------
(***************************************************************************)
(* The agent that runs (main.rs, export.rs): the reader of the SDK calls    *)
(* back every instrument once an interval, sends the batch, and waits.     *)
(*                                                                         *)
(* The SDK is external: it calls the callbacks in the order the             *)
(* instruments were registered, on one thread, exports on that thread, and *)
(* begins the next cycle no sooner than an interval after the last began.  *)
(***************************************************************************)
EXTENDS HostCollector

CONSTANTS
    Machines,     \* what the host can look like when it is sampled
    DetectedName, \* what the system calls the host
    Reported,     \* bound: the metrics of the host, all of them in the code
    CycleTime,    \* how long the callbacks of a cycle take at most
    MaxClock,     \* bound: the instants of a behaviour
    MaxFailures   \* bound: the sampling passes that fail

ASSUME AgentAssumption ==
    /\ Reported \subseteq MetricKinds
    /\ CycleTime \in Nat /\ MaxClock \in Nat /\ MaxFailures \in Nat
    /\ \A m \in Machines :
           /\ m.disks \in Seq([mount : Text, total : Nat, available : Nat])
           /\ m.sensors \in Seq([label : Text, celsius : Int \cup {None}])

VARIABLES
    now,        \* Clock::now
    agent,      \* the process that exports, None where there is none
    delivered,  \* [instance, started, beat] of the batch the backend took last, else None
    starts      \* how many agents have started: the instance of the newest

exportVars == << now, agent, delivered, starts >>

\* The process: [config, identity, os, cache, beats, due, cycle]; a cycle is
\* [started, next, points, last, failed], next the instrument to call back, or
\* None while the batch is on its way, last for the flush of a shutdown, and
\* failed the passes that had failed before.  A point is [kind, attributes,
\* value, takenAt], takenAt the pass it is of, None for the agent's own.
Running == agent # None
InCycle == Running /\ agent.cycle # None
Collecting == InCycle /\ agent.cycle.next # None
Exporting == InCycle /\ agent.cycle.next = None

Own(kind) == kind \in {"AgentHeartbeat", "AgentCollectionFailures"}

\* register_instruments: the host's metrics, the heartbeat, the failures, by
\* their positions in the order of the metrics.
Registered ==
    {i \in DOMAIN MetricKindOrder :
        MetricKindOrder[i] \in Reported \/ Own(MetricKindOrder[i])}

Instrument == MetricKindOrder[agent.cycle.next]

\* A bug of Following: the last instrument is not the last.
FollowingOn(position) == position + 1

\* None after the last: the batch leaves.
Following(position) ==
    LET later == {i \in Registered : i > position}
    IN IF later = {} THEN None ELSE Min(later)

\* serve: an agent of this configuration, before its first cycle.
Fresh(config, os, instance) ==
    [config |-> config, identity |-> FromConfig(config, DetectedName, instance), os |-> os,
     cache |-> EmptyCache, beats |-> 0, due |-> now + config.interval * Second,
     cycle |-> None]

Begun(last) ==
    [agent EXCEPT !.cycle = [started |-> now, next |-> Min(Registered), points |-> {}, last |-> last,
                             failed |-> agent.cache.failures],
                  !.due = now + agent.config.interval * Second]

BeginCycle ==
    /\ Running /\ ~InCycle /\ now >= agent.due
    /\ agent' = Begun(FALSE)
    /\ UNCHANGED << now, delivered, starts >>

\* An instrument is called back once in a cycle, so no point of it is there.
Pointed(points, kind, readings, takenAt) ==
    points \cup {[kind |-> kind, attributes |-> r.attributes, value |-> r.value,
                  takenAt |-> takenAt] : r \in readings}

\* The callback of a metric of the host, once its cache is settled.
Observe(cache) ==
    agent' = [agent EXCEPT
        !.cache = cache,
        !.cycle.points = Pointed(@, Instrument, ObservationsOf(cache, Instrument), cache.takenAt),
        !.cycle.next = Following(@)]

\* observe: the first callback of a cycle samples, the others read what it took.
Callback ==
    /\ Collecting /\ ~Own(Instrument)
    /\ \/ IsFresh(agent.cache, now, MaxAge(agent.config)) /\ Observe(agent.cache)
       \/ /\ ~IsFresh(agent.cache, now, MaxAge(agent.config))
          /\ \/ \E m \in Machines :
                  m.os = agent.os
                  /\ Observe(Sampled(agent.cache, now, Collect(agent.config, m)))
             \/ agent.cache.failures < MaxFailures /\ Observe(NotSampled(agent.cache, now))
    /\ UNCHANGED << now, delivered, starts >>

OwnPoint(kind, value) ==
    [kind |-> kind, attributes |-> << >>, value |-> value, takenAt |-> None]

\* A bug of Beat: a host that cannot be sampled does not beat.
BeatOfSamples ==
    /\ Collecting /\ Instrument = "AgentHeartbeat"
    /\ agent' = [agent EXCEPT
           !.beats = @ + 1, !.cycle.next = Following(@),
           !.cycle.points = @ \cup {OwnPoint("AgentHeartbeat",
               IF agent.cache.failing > 0 THEN agent.beats ELSE agent.beats + 1)}]
    /\ UNCHANGED << now, delivered, starts >>

\* The heartbeat counts the cycles, whatever became of the samples.
Beat ==
    /\ Collecting /\ Instrument = "AgentHeartbeat"
    /\ agent' = [agent EXCEPT
           !.beats = @ + 1, !.cycle.next = Following(@),
           !.cycle.points = @ \cup {OwnPoint("AgentHeartbeat", agent.beats + 1)}]
    /\ UNCHANGED << now, delivered, starts >>

ReportFailures ==
    /\ Collecting /\ Instrument = "AgentCollectionFailures"
    /\ agent' = [agent EXCEPT
           !.cycle.next = Following(@),
           !.cycle.points = @ \cup {OwnPoint("AgentCollectionFailures", agent.cache.failures)}]
    /\ UNCHANGED << now, delivered, starts >>

\* The batch as it leaves, under the resource of the agent.
Batch == [resource |-> Attributes(agent.identity, agent.os), points |-> agent.cycle.points,
          started |-> agent.cycle.started]

BeatSent ==
    [instance |-> agent.identity.instance, started |-> agent.cycle.started,
     beat |-> CHOOSE b \in {p.value : p \in {q \in agent.cycle.points :
                                              q.kind = "AgentHeartbeat"}} : TRUE]

\* The backend takes the batch, or not: nothing is sent again.
EndCycle ==
    /\ Exporting
    /\ delivered' \in {delivered, BeatSent}
    /\ agent' = IF agent.cycle.last THEN None ELSE [agent EXCEPT !.cycle = None]
    /\ UNCHANGED << now, starts >>

\* wait_for_shutdown and what follows it: the SDK may flush once more.
Shutdown ==
    /\ Running /\ ~InCycle
    /\ agent' \in {None, Begun(TRUE)}
    /\ UNCHANGED << now, delivered, starts >>

\* The callbacks of a cycle take at most CycleTime, an export its timeout.
Tick ==
    /\ now < MaxClock
    /\ Collecting => now < agent.cycle.started + CycleTime
    /\ Exporting => now < agent.cycle.started + CycleTime + agent.config.timeout * Second
    /\ now' = now + 1
    /\ UNCHANGED << agent, delivered, starts >>

ExportNext ==
    \/ BeginCycle \/ Callback \/ Beat \/ ReportFailures \/ EndCycle \/ Shutdown \/ Tick

-----------------------------------------------------------------------------
HostPoints(points) == {p \in points : ~Own(p.kind)}
Failed == agent.cache.failures > agent.cycle.failed

(***************************************************************************)
(* The points of a batch are of one sampling pass, and of one made in this *)
(* cycle, where the interval leaves room for both and no pass failed: no   *)
(* chart puts a memory ratio of one instant beside a usage of another      *)
(* (main.rs: half the interval).                                           *)
(***************************************************************************)
CycleIsOneSample ==
    InCycle /\ ~agent.cycle.last /\ ~Failed /\ agent.config.interval >= 2 =>
        /\ \A p, q \in HostPoints(agent.cycle.points) : p.takenAt = q.takenAt
        /\ \A p \in HostPoints(agent.cycle.points) : p.takenAt >= agent.cycle.started

(***************************************************************************)
(* A batch with a reading from before its cycle says that sampling failed: *)
(* its count of failures is above that of the batch delivered before it    *)
(* (export.rs: a stale reading is sent under the instant of the batch, so  *)
(* the count is all a client can see).                                     *)
(***************************************************************************)
CountIn(points, kind) == {p.value : p \in {q \in points : q.kind = kind}}

StaleReadingsAreCounted ==
    Exporting /\ ~agent.cycle.last /\ agent.config.interval >= 2
    /\ (\E p \in HostPoints(agent.cycle.points) : p.takenAt < agent.cycle.started) =>
        \A count \in CountIn(agent.cycle.points, "AgentCollectionFailures") :
            count > agent.cycle.failed

(***************************************************************************)
(* A batch is one picture of the host, or says that it is not (collector.rs). *)
(***************************************************************************)
BatchIsOnePicture == CycleIsOneSample /\ StaleReadingsAreCounted

(***************************************************************************)
(* What a client groups by tells the points of a metric apart, so a series *)
(* of a client is a series of the agent (host_collector.rs against         *)
(* wire.rs: two lists of attribute names, written in two crates).          *)
(***************************************************************************)
AsGrouped(kind, attributes) ==
    Restrict(attributes, DOMAIN attributes \cap ToSet(ExtraDimensions(kind)))

ClientsCanTellApart ==
    Exporting => \A p, q \in agent.cycle.points :
                     p.kind = q.kind /\ AsGrouped(p.kind, p.attributes)
                                            = AsGrouped(q.kind, q.attributes) => p = q

(***************************************************************************)
(* The backend knows the host by the name its configuration gives it, else *)
(* by that of the system, and by its environment, whatever else the        *)
(* operator adds (resource.rs: the name is the clients' join key).         *)
(***************************************************************************)
HostKeepsItsName ==
    Exporting =>
        /\ Batch.resource[HostName] =
               IF agent.config.hostName = None THEN DetectedName ELSE agent.config.hostName
        /\ Batch.resource[Environment] = agent.config.environment
        /\ OsType \in DOMAIN Batch.resource /\ FromOtelValue(Batch.resource[OsType]) # "Other"

(***************************************************************************)
(* What an agent reports is told apart: its points within the host, by     *)
(* what a client groups by, and the host by its name and its environment   *)
(* (host_collector.rs, resource.rs, wire.rs).                              *)
(***************************************************************************)
ReportsStayApart == ClientsCanTellApart /\ HostKeepsItsName

(***************************************************************************)
(* The client's liveness lives by the heartbeat: it grows from one batch   *)
(* delivered to the next of the same process, through failed passes and    *)
(* lost batches, and a new process is a new instance (export.rs: "one beat *)
(* per cycle").                                                            *)
(***************************************************************************)
HeartbeatsGrow ==
    [][delivered' # delivered /\ delivered # None =>
        \/ delivered'.instance > delivered.instance
        \/ /\ delivered'.instance = delivered.instance
           /\ delivered'.beat > delivered.beat]_exportVars
=============================================================================
