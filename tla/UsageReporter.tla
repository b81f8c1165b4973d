---------------------------- MODULE UsageReporter ----------------------------
(***************************************************************************)
(* Usage reporting as it runs (usage.rs, session.rs, sink.rs): polls buffer *)
(* traces, full batches spawn detached flushes, a session rebuilt for a new *)
(* connection or a new answer of the user takes a reporter of its own, and  *)
(* its predecessor lives on in the polls and flushes that still hold it.   *)
(*                                                                         *)
(* The backend that receives the reports is external: it accepts, refuses  *)
(* or says nothing, and its answer may be lost on the way back.            *)
(***************************************************************************)
EXTENDS UsageTrace

CONSTANTS
    BatchTraces,       \* BATCH_TRACES, 10 in the code
    MaxBufferedTraces, \* MAX_BUFFERED_TRACES, 64 in the code
    Builds,            \* [endpoint, key, tls, env, platform, deviceClass,
                       \*  version, build, osVersion, backend]: an installed app
                       \* in its environment; and the bounds of its behaviours,
                       \* [ended, polls, sessions, launches]: how a poll may end,
                       \* as [roster, series] of an observation, how many polls,
                       \* sessions of a process, and processes there are
    MaxSessions        \* bound: the most sessions of a process

ASSUME UsageAssumption ==
    /\ BatchTraces \in Nat \ {0} /\ MaxBufferedTraces \in Nat
    /\ BatchTraces <= MaxBufferedTraces
    /\ MaxSessions \in Nat
    /\ \A b \in Builds : b.sessions <= MaxSessions

\* A poll always asks for its roster, and the observation has an outcome of it
\* and of every query of the plan.
ASSUME BuildAssumption ==
    \A b \in Builds :
        /\ b.endpoint \in Endpoint \cup {None}
        /\ b.version \in Version /\ b.osVersion \in Version
        /\ \A end \in b.ended :
             /\ end.roster.kind \in {"Listed", "Failed"}
             /\ end.roster.kind = "Failed" => end.roster.failure \in FailureKinds
             /\ \A i \in DOMAIN end.series :
                  /\ end.series[i].spec.metric \in MetricKinds
                  /\ end.series[i].result.ok \in BOOLEAN
                  /\ ~end.series[i].result.ok =>
                       end.series[i].result.failure \in FailureKinds

\* UsageReporter, with the counts of its diagnostics: None is neither one, nor
\* a failure, nor a reason not to report.
Reporter ==
    [install : Nat, buffer : Seq(Trace), dropped : Nat, sent : Nat, rejected : Nat,
     failed : Nat, spans : Nat]

ASSUME NoneAssumption == None \notin Reporter \cup PollFailure \cup Denials

VARIABLES
    build,     \* the app that is installed, with its environment
    optedOut,  \* UsageConsentStore.optedOut, on disk
    cache,     \* the freshness in the state cache, on disk
    launch,    \* the process that runs
    sessions,  \* the sessions of the process, the oldest first
    current,   \* the one FleetModel holds, or None
    flushes,   \* the flush tasks of the runtime
    received,  \* what the backend took: [poll, url, resource, span], once each
    twice,     \* the polls it took more than once
    history    \* per poll, read by the properties only: [optedOut, outcome]

vars == << build, optedOut, cache, launch, sessions, current, flushes,
           received, twice, history >>

\* A session: [reporter, denial, freshness, poll], poll the one in flight; a
\* reporter: [install, buffer, dropped, sent, rejected, failed, spans]; a
\* trace is one of PollTrace.  A flush: [session, by, batch, arrived], by the poll
\* that spawned it or 0 for the app on its way to the background, batch None
\* until the task runs.
NewFreshness ==
    [asOf |-> None, lastRoster |-> None, lastClean |-> None, failures |-> 0,
     lastFailure |-> None, polled |-> FALSE]

Restored(freshness) == [freshness EXCEPT !.polled = FALSE]

-----------------------------------------------------------------------------
\* The instance id is minted once by a process, and never by a session.
NewReporter(process) ==
    [install |-> process, buffer |-> << >>, dropped |-> 0,
     sent |-> 0, rejected |-> 0, failed |-> 0, spans |-> 0]

\* UsageReporter::build, inside FleetSession::assemble: a reporter, or the
\* reason there is none.
Assembled(out, process, freshness) ==
    LET destination == FromBundle(build.endpoint, build.key)
        consent == Resolve(out, destination # None, build.env)
        granted == consent = "Granted" /\ build.tls
    IN [reporter |-> IF granted THEN NewReporter(process) ELSE None,
        denial |-> IF granted THEN None
                   ELSE IF consent = "Granted" THEN "NoDestination" ELSE consent,
        freshness |-> freshness, poll |-> None]

ResourceOf(reporter) ==
    Resource(build.platform, build.deviceClass, reporter.install, build.version,
             build.build, build.osVersion)

Init ==
    /\ build \in Builds
    /\ optedOut \in BOOLEAN
    /\ cache = NewFreshness
    /\ launch = 1
    /\ sessions = << Assembled(optedOut, 1, NewFreshness) >>
    /\ current = 1
    /\ flushes = {} /\ received = {} /\ twice = {} /\ history = << >>

-----------------------------------------------------------------------------
\* FleetSession::poll, up to its await.
BeginPoll ==
    /\ current # None /\ sessions[current].poll = None
    /\ Len(history) < build.polls
    /\ sessions' = [sessions EXCEPT ![current].poll = Len(history) + 1]
    /\ history' = Append(history, [optedOut |-> optedOut, outcome |-> None])
    /\ UNCHANGED << build, optedOut, cache, launch, current, flushes, received, twice >>

\* A bug of Recorded: nothing is ever dropped.
RecordedForever(reporter, trace) == [reporter EXCEPT !.buffer = Append(@, trace)]

\* UsageReporter::record: the oldest leave when there are too many.
Recorded(reporter, trace) ==
    LET all == Append(reporter.buffer, trace)
        over == Max({0, Len(all) - MaxBufferedTraces})
    IN [reporter EXCEPT !.buffer = SubSeq(all, over + 1, Len(all)),
                        !.dropped = @ + over]

\* A bug of FillsABatch: one too many.
FillsMoreThanABatch(reporter) == Len(reporter.buffer) > BatchTraces

\* What record answers: whether there is a batch to send.
FillsABatch(reporter) == Len(reporter.buffer) >= BatchTraces

Spawned(i, poll) == [session |-> i, by |-> poll, batch |-> None, arrived |-> FALSE]

\* What the poll itself came to, as the user would say it.
OutcomeOf(o) ==
    IF IsClean(o) THEN "Ok"
    ELSE IF o.roster.kind = "Listed" THEN "Partial"
    ELSE OutcomeOfKind(WorstFailure(Failures(o)).kind)

\* The rest of the poll: fold, store, report_poll, and the cache that
\* FleetModel writes when the session is still its own.
FinishPoll(i) ==
    /\ sessions[i].poll # None
    /\ \E end \in build.ended :
         LET s == sessions[i]
             o == [at |-> s.poll, roster |-> end.roster, series |-> end.series]
             folded == RecordBookkeeping(s.freshness, o)
             trace == PollTrace(s.poll, folded, build.backend)
             reporter == IF s.reporter = None THEN None
                         ELSE Recorded(s.reporter, trace)
         IN /\ sessions' = [sessions EXCEPT ![i] =
                              [@ EXCEPT !.reporter = reporter, !.freshness = folded,
                                        !.poll = None]]
            /\ flushes' = IF reporter # None /\ FillsABatch(reporter)
                          THEN flushes \cup {Spawned(i, s.poll)} ELSE flushes
            /\ cache' = IF i = current THEN folded ELSE cache
            /\ history' = [history EXCEPT ![s.poll].outcome = OutcomeOf(o)]
    /\ UNCHANGED << build, optedOut, launch, current, received, twice >>

\* The task that awaited the poll went away, and the poll with it.
DropPoll(i) ==
    /\ sessions[i].poll # None
    /\ sessions' = [sessions EXCEPT ![i].poll = None]
    /\ UNCHANGED << build, optedOut, cache, launch, current, flushes, received, twice,
                    history >>

-----------------------------------------------------------------------------
\* FleetSession::flush_usage, asked for by an app that leaves the screen.
\* Bound: one at a time of a session.
FlushUsage ==
    /\ current # None /\ sessions[current].reporter # None
    /\ \A f \in flushes : ~(f.session = current /\ f.by = 0)
    /\ flushes' = flushes \cup {Spawned(current, 0)}
    /\ UNCHANGED << build, optedOut, cache, launch, sessions, current, received, twice,
                    history >>

\* A bug of Drained: the buffer is emptied once the request has been made.
NotYetDrained(reporter) == reporter

Drained(reporter) == [reporter EXCEPT !.buffer = << >>]

\* UsageReporter::flush, up to its await: the buffer is drained before the
\* request, and an empty one makes none.
RunFlush(f) ==
    /\ f.batch = None
    /\ LET batch == sessions[f.session].reporter.buffer
       IN flushes' = (flushes \ {f})
                     \cup IF batch = << >> THEN {} ELSE {[f EXCEPT !.batch = batch]}
    /\ sessions' = [sessions EXCEPT ![f.session].reporter = Drained(@)]
    /\ UNCHANGED << build, optedOut, cache, launch, current, received, twice, history >>

\* External: the request gets there.
Deliver(f) ==
    /\ f.batch # None /\ ~f.arrived
    /\ LET body == ExportTraceRequest(ResourceOf(sessions[f.session].reporter), f.batch)
           url == TracesUrl(FromBundle(build.endpoint, build.key))
           polls == {t.poll : t \in ToSet(f.batch)}
       IN /\ twice' = twice \cup {p \in polls : \E r \in received : r.poll = p}
          /\ received' = received \cup
               {[poll |-> span.traceId, url |-> url, resource |-> body.resource, span |-> span] :
                   span \in body.spans}
    /\ flushes' = (flushes \ {f}) \cup {[f EXCEPT !.arrived = TRUE]}
    /\ UNCHANGED << build, optedOut, cache, launch, sessions, current, history >>

\* UsageSink::try_send, on the answer or the lack of one.
Counted(reporter, answer, spans) ==
    CASE answer = "Accepted" -> [reporter EXCEPT !.sent = @ + 1, !.spans = @ + spans]
      [] answer = "Refused" -> [reporter EXCEPT !.rejected = @ + 1]
      [] answer = "None" -> [reporter EXCEPT !.failed = @ + 1]

\* What a diagnostics screen counts: the spans of the traces it sent.
SpansIn(batch) == FoldLeft(LAMBDA n, t : n + Len(t.spans), 0, batch)

Settle(f, answer) ==
    /\ sessions' = [sessions EXCEPT ![f.session].reporter =
                      Counted(@, answer, SpansIn(f.batch))]
    /\ flushes' = flushes \ {f}
    /\ UNCHANGED << build, optedOut, cache, launch, current, received, twice, history >>

\* An answer of a backend that took the report, of one that refused it, and
\* REQUEST_TIMEOUT or a failed connection, which tell neither case.
Answer(f) ==
    /\ f.batch # None
    /\ Settle(f, IF f.arrived THEN "Accepted" ELSE "Refused")
GiveUp(f) == f.batch # None /\ Settle(f, "None")

\* The future of an explicit flush is dropped; nothing is counted.
DropFlush(f) ==
    /\ f.by = 0
    /\ flushes' = flushes \ {f}
    /\ UNCHANGED << build, optedOut, cache, launch, sessions, current, received, twice,
                    history >>

-----------------------------------------------------------------------------

\* FleetModel builds the next session and drops the one it has, or tears down
\* where core refuses the settings.
Rebuild(out, freshness, cached) ==
    \/ /\ Len(sessions) < build.sessions
       /\ sessions' = Append(sessions, Assembled(out, launch, Restored(freshness)))
       /\ current' = Len(sessions) + 1
       /\ cache' = cached
    \/ sessions' = sessions /\ current' = None /\ cache' = cache

\* A bug of SetReporting: the session of before stays.
SetOnly(enabled) ==
    /\ enabled = optedOut
    /\ optedOut' = ~enabled
    /\ UNCHANGED << build, cache, launch, sessions, current, flushes, received, twice,
                    history >>

\* usageReportingEnabled, set in the settings: the switch is written and the
\* session rebuilt over the saved cache, so that no reporter is left to ask.
SetReporting(enabled) ==
    /\ enabled = optedOut
    /\ optedOut' = ~enabled
    /\ IF current = None THEN UNCHANGED << sessions, current, cache >>
       ELSE Rebuild(~enabled, cache, cache)
    /\ UNCHANGED << build, launch, flushes, received, twice, history >>

\* reloadSettings: another key or environment takes what the session knows with
\* it, another URL, or no connection before, takes nothing and clears the cache.
Reload ==
    /\ \/ current # None /\ Rebuild(optedOut, sessions[current].freshness, cache)
       \/ Rebuild(optedOut, NewFreshness, NewFreshness)
    /\ UNCHANGED << build, optedOut, launch, flushes, received, twice, history >>

\* The process ends, with what it had not sent, and the app starts again: its
\* first reload finds no connection to have had the URL, and clears the cache.
Relaunch ==
    /\ launch < build.launches
    /\ launch' = launch + 1
    /\ sessions' = << Assembled(optedOut, launch + 1, NewFreshness) >>
    /\ current' = 1
    /\ cache' = NewFreshness
    /\ flushes' = {}
    /\ UNCHANGED << build, optedOut, received, twice, history >>

Next ==
    \/ BeginPoll
    \/ \E i \in DOMAIN sessions : FinishPoll(i) \/ DropPoll(i)
    \/ FlushUsage
    \/ \E f \in flushes : RunFlush(f) \/ Deliver(f) \/ Answer(f) \/ GiveUp(f) \/ DropFlush(f)
    \/ \E enabled \in BOOLEAN : SetReporting(enabled)
    \/ Reload
    \/ Relaunch

\* The runtime runs the tasks a session gave it.  Nothing obliges a poll to
\* come, nor a request to be answered.
Fairness ==
    \A i \in 1..MaxSessions :
        WF_vars(\E f \in flushes : f.session = i /\ f.by # 0 /\ RunFlush(f))

Spec == Init /\ [][Next]_vars /\ Fairness

-----------------------------------------------------------------------------
Reporters == {i \in DOMAIN sessions : sessions[i].reporter # None}

\* Every reporter is where its session left it, within its bounds, and every
\* flush holds a reporter that exists.
TypeOK ==
    /\ optedOut \in BOOLEAN
    /\ current \in DOMAIN sessions \cup {None}
    /\ \A i \in Reporters :
         /\ sessions[i].denial = None
         /\ Len(sessions[i].reporter.buffer) <= MaxBufferedTraces
    /\ \A i \in DOMAIN sessions \ Reporters :
         sessions[i].denial \in Denials
    /\ \A f \in flushes : f.session \in Reporters

\* No retry: whatever the answers, timeouts and kills, a poll is reported to
\* the backend at most once (UsageReporter::flush).
ReportedOnce == twice = {}

\* A poll that began after the user had opted out is never reported, whatever
\* reporter the sessions of before have left behind (FleetModel.swift 554-585).
ConsentHolds == \A r \in received : ~history[r.poll].optedOut

\* Fairness: a full batch never waits for a poll to come, it leaves the buffer,
\* sent, dropped with its answer, or lost with the app that is killed
\* (FleetSession::report_poll spawns its flush).
FullBatchesLeave ==
    \A i \in 1..MaxSessions :
        (i \in Reporters /\ Len(sessions[i].reporter.buffer) >= BatchTraces)
            ~> (i \notin Reporters \/ sessions[i].reporter.buffer = << >>)

\* Two reports of one process come from one install, whatever sessions built
\* them: correcting a URL is not a new install (instance_id).
OneInstallPerProcess ==
    Cardinality({r.resource.ServiceInstanceId : r \in received}) <= launch

\* A span says what became of the poll it is about, although it is read off a
\* memory that older polls and sessions have written (poll_outcome).
OutcomeIsOfThisPoll ==
    \A r \in received : r.span.attributes.Outcome = history[r.poll].outcome

\* Every report goes to the traces path, once, of the base the build names,
\* with or without a signal path on it (Destination::new).
PostsToTraces ==
    \A r \in received :
        /\ Last(r.url.path) = "v1/traces"
        /\ \A n \in DOMAIN r.url.path : r.url.path[n] \in SignalPaths => n = Len(r.url.path)

\* A version on the wire is the version of the host or a part of it from the
\* left, never what is left of some other text (Version::parse).
VersionsAreVersions ==
    \A r \in received :
        /\ r.resource.ServiceVersion # None => IsPrefix(r.resource.ServiceVersion, build.version)
        /\ r.resource.OsVersion # None => IsPrefix(r.resource.OsVersion, build.osVersion)

\* The reason shown for a session that does not report is a switch in effect,
\* the one of the settings as it stands now included (usage_diagnostics).
DenialIsInEffect ==
    current # None =>
        LET denial == sessions[current].denial
        IN /\ optedOut => sessions[current].reporter = None
           /\ denial = "OptedOut" => optedOut \/ SaysOff(build.env.PESSIMAL_USAGE_REPORTING)
           /\ denial = "DoNotTrack" => IsTruthy(build.env.DO_NOT_TRACK)
           /\ denial = "ContinuousIntegration" => IsTruthy(build.env.CI)

\* The spans a diagnostics screen counts are no more than the backend shows
\* for the install (DiagnosticsSnapshot::spans_reported).
CountsAreBackedUp ==
    \A i \in Reporters :
        sessions[i].reporter.spans
            <= Cardinality({r \in received :
                              r.resource.ServiceInstanceId = sessions[i].reporter.install})

\* What is reported is true of the install: once, one install per process, the poll
\* each span is about, the version, and the path and the count of the reports
\* (Resource, poll_span, Destination, DiagnosticsSnapshot).
ReportsAreTrue ==
    ReportedOnce /\ OneInstallPerProcess /\ OutcomeIsOfThisPoll /\ PostsToTraces
    /\ VersionsAreVersions /\ CountsAreBackedUp

\* Nothing is reported against the user's word, whatever sessions and flushes
\* it left behind, and the reason on screen for that is the one in effect
\* (Consent::resolve, FleetModel.usageReportingEnabled).
ReportingIsAllowed == ConsentHolds /\ DenialIsInEffect
=============================================================================
