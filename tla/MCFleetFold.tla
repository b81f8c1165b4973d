----------------------------- MODULE MCFleetFold -----------------------------
(***************************************************************************)
(* Two hosts and two alert rules on two metrics, polled every second with  *)
(* the smallest tuning its interlocks allow.  The apps hand over records,  *)
(* in seconds of two units each; two of them core refuses.                 *)
(***************************************************************************)
EXTENDS ScreenRecords

MCFields(id, metric, dwell) ==
    [id |-> id, named |-> TRUE, metric |-> metric, selector |-> SelectAll,
     comparator |-> ">", threshold |-> 1, dwell |-> dwell, enabled |-> TRUE]
MCRule(id, metric, dwell) == DraftRule("home", MCFields(id, metric, dwell)).value

\* A rule the editor would refuse, which loading keeps.
MCUnfireable == [MCFields(3, "CpuUtilization", 0) EXCEPT !.selector = SelectAnyOf({})]

\* Rule 1 fires at once, rule 2 after a dwell longer than the horizon; disk usage is
\* charted for the focused host only.
MCRecord(maxHosts, dwell) ==
    [environment |-> "home",
     tuning |-> [liveness |-> [beat |-> 1, staleAfter |-> 3, downAfter |-> 4],
                 pollInterval |-> 1, metricStep |-> 1, chartWindow |-> 5,
                 maxStaleness |-> 3, lag |-> 1, forgetAfter |-> 5,
                 maxHosts |-> maxHosts],
     rulesJson |-> AlertRulesToJson({MCRule(1, "CpuUtilization", 0),
                                     MCRule(2, "FilesystemUtilization", dwell),
                                     MCUnfireable}).value,
     overview |-> {"CpuUtilization", "FilesystemUsage"},
     detail |-> {"FilesystemUtilization"}, focus |-> 2]

MCFirst == MCRecord(2, 5)
MCRecords ==
    {MCFirst, [MCRecord(1, 4) EXCEPT !.tuning.lag = 0], [MCFirst EXCEPT !.tuning.pollInterval = 2],
     [MCFirst EXCEPT !.environment = "::"]}

MCWeathers ==
    {[up |-> {1, 2}, high |-> {1}, lag |-> 0],
     [up |-> {1, 2}, high |-> {1, 2}, lag |-> Second],
     [up |-> {2}, high |-> {}, lag |-> 0]}

MCOutages ==
    {[roster |-> FALSE, metrics |-> {}, detail |-> FALSE, kind |-> "none"],
     [roster |-> TRUE, metrics |-> {"CpuUtilization", "FilesystemUtilization"},
      detail |-> TRUE, kind |-> "Unreachable"],
     [roster |-> TRUE, metrics |-> {}, detail |-> FALSE, kind |-> "Backend"],
     [roster |-> FALSE, metrics |-> {"FilesystemUtilization"}, detail |-> FALSE,
      kind |-> "Unauthorized"]}
=============================================================================
