------------------------------ MODULE MCGather ------------------------------
(***************************************************************************)
(* Two hosts and a stranger, heartbeats and the traffic of one interface.  *)
(***************************************************************************)
EXTENDS Gather

MCTuning ==
    [liveness |-> [beat |-> 2, staleAfter |-> 3, downAfter |-> 4],
     pollInterval |-> 2, metricStep |-> 1, chartWindow |-> 8,
     maxStaleness |-> 3, lag |-> 0, forgetAfter |-> 20, maxHosts |-> 2]

MCConfig ==
    [tuning |-> MCTuning, rules |-> {}, overview |-> {"NetworkIo"},
     detail |-> {"NetworkIo"}, focus |-> 1]

MCEarliest == -1000

MCNamings == {<<"Dotted", "Dotted">>, <<"Underscored", "Underscored">>,
              <<"Underscored", "Dotted">>}

Agent(h, version) ==
    (HostName :> h) @@ (OsType :> "linux") @@ (ServiceVersion :> version)
Direction(d) ==
    (Dotted(<<"network", "io", "direction">>) :> d)
    @@ (Dotted(<<"network", "interface", "name">>) :> "eth0")

Pulse(h, version, at) ==
    [kind |-> "AgentHeartbeat", labels |-> Agent(h, version), at |-> at, value |-> 1]
Traffic(h, d, at, value) ==
    [kind |-> "NetworkIo", labels |-> Agent(h, "v1") @@ Direction(d), at |-> at,
     value |-> value]
Stranger ==
    [kind |-> "AgentHeartbeat", labels |-> ServiceVersion :> "v1", at |-> -2, value |-> 1]

\* An upgrade and a restarted counter; a host that fell silent; nobody.
MCBusy ==
    {Pulse(1, "v1", -5), Pulse(1, "v2", -3), Pulse(2, "v1", -12), Pulse(2, "v1", -11), Stranger,
     Traffic(1, "receive", -7, 10), Traffic(1, "receive", -4, 14),
     Traffic(1, "receive", -3, 3), Traffic(1, "receive", -2, 5),
     Traffic(1, "transmit", -3, 7), Traffic(1, "transmit", -2, 8),
     Traffic(2, "receive", -2, Gap)}
MCSilent == {Pulse(2, "v1", -11), Traffic(2, "receive", -11, 4)}
MCHistories == {MCBusy, MCSilent, {}}

\* What arrives meanwhile, some of it late.
MCBatches ==
    {{Pulse(1, "v3", -1), Traffic(1, "transmit", -1, 9)}, {Pulse(2, "v1", -6)}}

Refused == [transport |-> "ok", status |-> 401]
Odd == [transport |-> "ok", status |-> 200, parses |-> TRUE, says |-> "error",
        null |-> TRUE, results |-> << >>]
MCFaults == {Refused, Odd, [transport |-> "ok", status |-> 200, parses |-> FALSE]}

MCMean(samples) ==
    MapThenSumSet(LAMBDA s : s.value, samples) \div Cardinality(samples)
=============================================================================
