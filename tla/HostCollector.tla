---------------------------- MODULE HostCollector ----------------------------
(***************************************************************************)
(* What one sampling pass of the agent yields (host_collector.rs), the     *)
(* cache that shares it between the callbacks of an export cycle           *)
(* (collector.rs), and who the agent says it is (resource.rs).             *)
(*                                                                         *)
(* A machine is [cpu, used, total, disks, interfaces, os, load, uptime,     *)
(* sensors]; disks a sequence of [mount, total, available],                *)
(* interfaces a function of their names to [receive, transmit],            *)
(* sensors a sequence of [label, celsius], celsius None where the sensor   *)
(* does not say.                                                           *)
(***************************************************************************)
EXTENDS AgentSettings, SignozQuery

MemoryState == Dotted(<<"system", "memory", "state">>)
FilesystemState == Dotted(<<"system", "filesystem", "state">>)
Mountpoint == Dotted(<<"system", "filesystem", "mountpoint">>)
IoDirection == Dotted(<<"network", "io", "direction">>)
InterfaceName == Dotted(<<"network", "interface", "name">>)
HwId == Dotted(<<"hw", "id">>)
HwName == Dotted(<<"hw", "name">>)

\* An observation, among those of its metric.
Reading(value, attributes) == [value |-> value, attributes |-> attributes]
Alone(value) == {Reading(value, << >>)}

\* Of devices observed under the same attributes the SDK keeps the later.
LastOfEach(readings) ==
    {readings[i] : i \in {j \in DOMAIN readings : \A k \in DOMAIN readings :
                             readings[k].attributes = readings[j].attributes => k <= j}}

\* A ratio clamped to one, in percent.
Ratio(part, whole) == IF part > whole THEN 100 ELSE (100 * part) \div whole

Cpu(m) == Alone(Ratio(m.cpu, 100))

MemoryUsage(m) == {Reading(m.used, Only(MemoryState, "used"))}
MemoryUtilization(m) == IF m.total = 0 THEN {} ELSE Alone(Ratio(m.used, m.total))

\* filesystems: of the configured mount points, or of all of them where none
\* is; a file system without a size is none.
Reports(c, disk) == (c.filesystems = {} \/ disk.mount \in c.filesystems) /\ disk.total # 0
UsedOf(disk) == IF disk.available > disk.total THEN 0 ELSE disk.total - disk.available

FilesystemUsage(c, m) ==
    LastOfEach([i \in {j \in DOMAIN m.disks : Reports(c, m.disks[j])} |->
        Reading(UsedOf(m.disks[i]),
                Over(Only(Mountpoint, m.disks[i].mount), Only(FilesystemState, "used")))])

FilesystemUtilization(c, m) ==
    LastOfEach([i \in {j \in DOMAIN m.disks : Reports(c, m.disks[j])} |->
        Reading(Ratio(UsedOf(m.disks[i]), m.disks[i].total), Only(Mountpoint, m.disks[i].mount))])

\* Both directions, of every interface or of the host.
Directions == {"receive", "transmit"}

Network(c, m) ==
    IF c.perInterface
    THEN {Reading(m.interfaces[at[1]][at[2]],
                  Over(Only(InterfaceName, at[1]), Only(IoDirection, at[2]))) :
              at \in (DOMAIN m.interfaces) \X Directions}
    ELSE {Reading(FoldFunction(+, 0, [n \in DOMAIN m.interfaces |-> m.interfaces[n][d]]),
                  Only(IoDirection, d)) : d \in Directions}

LoadAverage(m) == IF m.os = "windows" THEN {} ELSE Alone(m.load)

\* select_sensors: the configured labels, or all of them where none is.
SensorsOffered(m) == {m.sensors[i].label : i \in DOMAIN m.sensors}

SelectSensors(labels, configured) ==
    IF configured = {} THEN labels ELSE labels \cap configured

\* temperatures and observation_for: a gap reads as a gap.
Says(c, sensor, offered) ==
    sensor.label \in SelectSensors(offered, c.sensors) /\ sensor.celsius # None

Temperatures(c, m) ==
    IF ~c.temperatures THEN {}
    ELSE LastOfEach([i \in {j \in DOMAIN m.sensors : Says(c, m.sensors[j], SensorsOffered(m))} |->
             Reading(m.sensors[i].celsius,
                     Over(Only(HwId, m.sensors[i].label), Only(HwName, m.sensors[i].label)))])

\* collect, by metric; the agent's own two are none of the collector's.
Collect(c, m) ==
    [kind \in MetricKinds |->
        CASE kind = "CpuUtilization" -> Cpu(m)
          [] kind = "MemoryUtilization" -> MemoryUtilization(m)
          [] kind = "MemoryUsage" -> MemoryUsage(m)
          [] kind = "FilesystemUtilization" -> FilesystemUtilization(c, m)
          [] kind = "FilesystemUsage" -> FilesystemUsage(c, m)
          [] kind = "NetworkIo" -> Network(c, m)
          [] kind \in LoadAverages -> LoadAverage(m)
          [] kind = "SystemUptime" -> Alone(m.uptime)
          [] kind = "Temperature" -> Temperatures(c, m)
          [] OTHER -> {}]

-----------------------------------------------------------------------------
\* A bug of MaxAge: a sample lives as long as an interval.
MaxAgeWhole(c) == c.interval * Second

\* serve: half the interval, in whole seconds.
MaxAge(c) ==
    LET half == (c.interval \div 2) * Second IN IF half < Second THEN Second ELSE half

\* CacheState: [takenAt, observations, failing, failures]; a host that was never
\* sampled has no takenAt and no observations.
EmptyCache ==
    [takenAt |-> None, observations |-> [kind \in MetricKinds |-> {}], failing |-> 0,
     failures |-> 0]

IsFresh(cache, now, maxAge) == cache.takenAt # None /\ now - cache.takenAt < maxAge

\* CachedCollector::snapshot, of a cache that aged out, by how the pass went.
Sampled(cache, now, observations) ==
    [cache EXCEPT !.takenAt = now, !.observations = observations, !.failing = 0]

\* The previous sample stays, of its own date.
NotSampled(cache, now) == [cache EXCEPT !.failing = @ + 1, !.failures = @ + 1]

\* observations_of.
ObservationsOf(cache, kind) == cache.observations[kind]

-----------------------------------------------------------------------------
\* The architecture and the identifier of the host are left out.
ServiceName == Dotted(<<"service", "name">>)
Environment == Dotted(<<"deployment", "environment", "name">>)
ServiceInstance == Dotted(<<"service", "instance", "id">>)

\* AgentIdentity::from_config, of a process: its instance is its own.
FromConfig(c, detected, instance) ==
    [hostName |-> IF c.hostName = None THEN detected ELSE c.hostName,
     service |-> c.service, instance |-> instance, environment |-> c.environment,
     extra |-> c.attributes]

\* attributes: what the operator adds cannot shadow what clients rely on.
Reserved == {HostName, ServiceName, Environment, OsType, ServiceVersion, ServiceInstance}

Attributes(identity, os) ==
    Over([name \in Reserved |->
             CASE name = HostName -> identity.hostName
               [] name = ServiceName -> identity.service
               [] name = Environment -> identity.environment
               [] name = OsType -> os
               [] name = ServiceVersion -> "v1"
               [] name = ServiceInstance -> identity.instance],
         identity.extra)
=============================================================================
