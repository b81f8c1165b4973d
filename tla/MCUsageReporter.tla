--------------------------- MODULE MCUsageReporter ---------------------------
(***************************************************************************)
(* A release, a developer's build, and every reason not to report; polls   *)
(* that end well, in part, and in three ways badly.                        *)
(***************************************************************************)
EXTENDS UsageReporter

Silence == [DO_NOT_TRACK |-> None, PESSIMAL_USAGE_REPORTING |-> None, CI |-> None]

Release ==
    [endpoint |-> [scheme |-> "https", authority |-> << "ingest", ".", "cloud" >>,
                   path |-> << "v1/traces", "" >>],
     key |-> "key", tls |-> TRUE, env |-> Silence, platform |-> "Ios",
     deviceClass |-> "Phone", version |-> << 1, 2, 3, 4 >>, build |-> 34,
     osVersion |-> << 18, 4, 1 >>, backend |-> "signoz"]
Developers ==
    [Release EXCEPT !.endpoint = [scheme |-> "http", authority |-> << "localhost", ":", "4318" >>, path |-> << >>],
                    !.env = [Silence EXCEPT !.DO_NOT_TRACK = "0",
                                            !.PESSIMAL_USAGE_REPORTING = "on"],
                    !.version = << Word, 2 >>, !.osVersion = << 18 >>,
                    !.backend = "scripted"]

Asked(ok, kind) ==
    [spec |-> Spec1("CpuUtilization", SelectAll, 1),
     result |-> IF ok THEN Returned(<< >>) ELSE Failed(kind)]

Clean == [roster |-> Listed({}), series |-> << Asked(TRUE, None) >>]
Partly == [roster |-> Listed({}), series |-> << Asked(FALSE, "Unauthorized") >>]
Nothing == [roster |-> RosterFailed("Unreachable"), series |-> << Asked(FALSE, "Backend") >>]
Of(b, ended, polls, ss, launches) ==
    [endpoint |-> b.endpoint, key |-> b.key, tls |-> b.tls, env |-> b.env,
     platform |-> b.platform, deviceClass |-> b.deviceClass, version |-> b.version,
     build |-> b.build, osVersion |-> b.osVersion, backend |-> b.backend,
     ended |-> ended, polls |-> polls, sessions |-> ss, launches |-> launches]

MCBuilds ==
    {Of(Release, {Clean}, 4, 1, 1),
     Of(Release, {Nothing}, 3, 2, 1),
     Of(Release, {Clean, Partly, Nothing}, 2, 1, 2),
     Of(Developers, {Clean, Partly, Nothing}, 2, 2, 1)}
    \cup {Of(b, {Clean, Nothing}, 1, 2, 2) : b \in
         {[Release EXCEPT !.endpoint = None], [Release EXCEPT !.key = None],
          [Release EXCEPT !.tls = FALSE],
          [Release EXCEPT !.endpoint.scheme = "http",
                          !.endpoint.authority = << "localhost", ".", "acme" >>],
          [Release EXCEPT !.endpoint.scheme = "ftp"],
          [Release EXCEPT !.env.CI = "true"],
          [Release EXCEPT !.env.CI = "true", !.env.DO_NOT_TRACK = "yes"],
          [Release EXCEPT !.env.PESSIMAL_USAGE_REPORTING = "off"]}}
=============================================================================
