# Pessimal in TLA+

Pessimal watches a fleet of machines: an agent on each host exports metrics over
OTLP, and the Apple apps read them back from a query backend, fold them into a
view of the fleet and raise alerts. Settings and alert rules follow a user from
device to device through iCloud. This directory models the parts of that program
whose behaviour depends on what happens in which order.

## The system

| Part | State | Operations | Talks to |
|---|---|---|---|
| Settings document (`settings_sync.rs`) | none: pure functions over a document of stamped entries | `join`, `tick`, `bootstrap`, `record_edits`, `step`, `project` | called by settings sync through the FFI |
| Settings sync (`SettingsSync.swift`) | the replica and the digest it last replaced (UserDefaults), the three synced settings | `start`, `run`, `recordEdits`, `persist`, `handle` | core, the mailbox, the fleet model |
| Mailbox (`SettingsMailbox.swift`) | one text per Apple Account, held by iCloud | read, write, notifications | external |
| Settings screen (`SettingsView.swift`, one per platform) | draft, committed baseline | save, revert, reseed | settings sync, the fleet model, the stores |
| Poll loop (`FleetModel.swift`) | session, timer, poll in flight, polling state, next poll | refresh, suspend, resume, applyConfig, forgetHost, wake | the session, the stores |
| Fleet session (`session.rs`) | fleet state, config, the in-flight lock | `poll`, `set_config`, `forget_host`, `export_state` | core, the query client |
| FFI records (`config_records.rs`, `view_records.rs`, `fold_records.rs`, `probe_records.rs`, `convert.rs`) | none | record to core and back, a view and a poll's result to the app | the session, the screens |
| Fleet fold (`fold.rs`, `view.rs`) | hosts, series, alert evaluations, failures, the advised next poll | `apply`, `forget_host`, `restore`, `view` | called by the session |
| Planning and gathering (`plan.rs`, `gather.rs`) | none | `plan_poll`, `execute_plan`, `probe_backend` | the query client |
| SigNoz client (`pessimal_query_signoz`) | an HTTP client | list hosts, query a series, probe | external backend |
| Usage reporter (`usage.rs`, `pessimal_usage`, `pessimal_usage_otlp`) | consent, a bounded buffer, counters | record, flush | an OTLP endpoint |
| Agent (`pessimal_agent_core`, `pessimal_agent_host`) | a cached sample, failure counters, a heartbeat counter | collect, export on a period, shutdown | an OTLP endpoint |
| Onboarding (`onboarding.rs`, `init.rs`) | a configuration, a backup, an environment file | prompts, writes, a test export, starting the service | files, the terminal, service managers |
| Widget and views | derived from the fleet view | drawing | the fleet model |

What is hard in each, and what makes it correct:

- **Settings sync.** Devices are concurrent and never talk directly; the mailbox is
  stale, lossy and unordered; a Save is split by an `await`; the app may be killed
  between any two writes; accounts change. Correct when nothing saved is lost or
  invented, deletions stay, a device applies only what it can read, all devices
  agree in the end, and accounts do not mix.
- **Poll loop.** A reentrant main actor, a timer, suspension, a poll in flight, sessions
  replaced under it. Correct when a poll of a replaced session writes nothing, there
  is at most one timer, and a loop that was not stopped polls again.
- **Fleet session.** An async lock held across HTTP. Correct when a fold never undoes a
  new config or a forgotten host.
- **Fleet fold and view.** Partial failures, long gaps, edits and restores. Correct when
  an outage neither fires, resolves nor forgets, dwell is only what was observed, the
  notifications add up to what fires, and the screen says what was judged.
- **Gathering.** Concurrent requests, any of which fails or hangs, against an instance
  that spells names in one of two ways. Correct when an empty roster means an empty
  fleet, and what agents report apart arrives apart.
- **Usage reporter.** Several reporters of one process, detached flushes. Correct when
  nothing is reported twice, untruly or against the user's word.
- **Agent.** One export cycle is many callbacks over a sample that ages. Correct when a
  batch is one picture of the host, or says that it is not.
- **Onboarding.** Several files and services, written one after the other by a process
  that may be killed. Correct when no host loses what it had and what is then started
  is what was tested.

## The modules

| Module | What it is |
|---|---|
| `SettingsDocument` | stamps, entries, the order of entries, join, minting a stamp |
| `SettingsDecisions` | bootstrap, `record_edits`, `step`, `project` as operators |
| `SettingsSync` | the devices, the mailbox and the properties |
| `SharedDocument` | the abstract promise: every device has a view of one document per account |
| `SessionState` | what a session holds and computes: state, advice, fold, the lock and its queue |
| `FleetSession` | one session under any number of concurrent callers |
| `AtomicSession` | the abstract promise: calls change a session one whole call at a time |
| `FleetModel` | the poll loop: the main actor, its timer, its sessions, the store and the cache |
| `Telemetry` | the vocabulary of the core domain: metrics, hosts, selectors, ranges |
| `PollTuning` | liveness policies, tunings, their interlocks and derived durations, the audit |
| `AlertRules` | alert rules, their evaluation on a host, their fingerprints |
| `SettingsRecords` | the records an app holds of tunings, rules and configurations, both ways |
| `PollObservation` | the plan of a poll, what came back, and how it covers a host and a metric |
| `SeriesMath` | differencing over counter resets, rates, reduction, the dominant series |
| `FleetFold` | `FleetState`, its fold and its freshness, over a backend that is late or fails |
| `FleetView` | what the apps draw of it |
| `ScreenRecords` | the records a view and a poll's result cross to the app as |
| `SignozQuery` | names in two spellings, requests, and what is made of a reply |
| `Gather` | one poll or one test of the connection, its concurrent requests, the instance |
| `UsageTrace` | consent, destinations, versions, spans and the request they are encoded in |
| `UsageReporter` | the reporters of an app's sessions, their buffers and flushes, the backend |
| `AgentSettings` | the agent's configuration, its checks, its headers, its environment |
| `HostCollector` | one sampling pass, the cache that shares it, the agent's identity |
| `AgentExport` | the agent that runs: cycles, callbacks, batches, shutdown |
| `Onboarding` | what init decides: answers, paths, key placement, the service plan |
| `HostAgent` | a host set up by init, its service manager and its agent, composed |
| `MCFleetFold`, `MCFleetModel`, `MCFleetSession`, `MCGather`, `MCHostAgent`, `MCSettingsSync`, `MCUsageReporter` | small instances for TLC |
| `SettingsSyncProofs`, `FleetSessionProofs`, `FleetModelProofs`, `ObservationProofs`, `FleetFoldProofs`, `GatherProofs`, `UsageReporterProofs`, `HostAgentProofs` | theorems checked by TLAPS |

What builds on what: `ScreenRecords` on `FleetView`, on `FleetFold`, which folds a `PollObservation` under a
configuration that crossed as `SettingsRecords`, with `SeriesMath` and `AlertRules`.
`Gather` produces a `PollObservation` through `SignozQuery`. `HostAgent` composes
`Onboarding` with `AgentExport`, and compares what the agent attaches to a point with
what `SignozQuery` groups by. `FleetSession` and `FleetModel` both build on
`SessionState`: the first asks whether one session keeps its promise to callers that do
anything at any time, the second what the one caller the apps have makes of several
sessions, and it uses the answer: its polls fold the state they find, because
`SessionIsAtomic` says so. In both, `SessionState` keeps only the part of the fold that
the loop reads; `FleetFold` has all of it.

### How settings sync corresponds to the code

**Data.** A text (the JSON of a value or a rule) is a number, and the order of numbers
stands for the order of bytes that breaks ties between equal stamps. `None` clears a
register or deletes a rule. A key the document lacks is "below every entry" in the
code; here it holds a least entry, `Missing`. What `classify` makes of the mailbox's
text is a record with a kind; `Foreign` and `Invalid` are one kind, "junk", because
`step` treats them alike and tells two such texts apart by digest only. The byte
budget counts entries. The local replica always decodes: only core writes it.

**Settings and baselines.** `SyncedSettings`, a screen's baseline and an edited config
are one kind of record: a value per key, and whether the stored rules are unset, a
list, or undecodable. The three UserDefaults keys are one write.

**Rounds.** `SettingsSync.run` is synchronous on the main actor, so a round is one
action. `RunRound` lists its writes in the code's order, and `cut` names the last
one that is made, so the same operator is the round a kill interrupts. Launch,
server change or foreground or refresh (`Round`), the two rounds of an initial sync,
and the account change differ in what they do around the round, as in the code.

**Saves.** `save()` awaits `applyConfig`. `BeginSave` is everything up to the await (the
edit is recorded, nothing persisted); `FinishSave` is everything after it, from the
store's `saveConfig` to the round and the new baseline; any action of any device,
and the device's own rounds, can come between them. Without a session, the replica
and the store take the Save first (`BeginFirstSave`). A session can be missing for
other reasons than missing settings, so that action has no guard on them. Core's
refusal is `RefuseSave`. Reseeding the screen is a view callback and its own action.

**Kills.** `Kill` when the main actor is idle, `KillInRound` (at launch too), `KillInFirstSave` and
`KillInSave` after any prefix of the writes. What is in UserDefaults survives.

**Mailbox.** External: `seen` is what a device reads, `cell` what iCloud holds,
`inFlight` what was written and not taken. Writes land in any order or are lost,
downloads happen when they happen, other software can write the key.

**History.** `saved` joins everything the devices recorded for an account. No guard
reads it, except that a new rule's URN is fresh (the app draws a UUID).

### Ideal and real account changes

`SettingsSync.handle` rebuilds the replica when told that the account changed. The
notification hops to the main actor and a Save may be awaiting core. `Orderly` says that
an instance has neither: a change comes only while no Save is awaited and is handled
before anything else runs. `sharing` assumes it, `account_switch` shows why it has to.

### How the session corresponds to the code

**State.** A fleet state keeps the hosts it remembers and what the last poll of this
session says about the next one (`last`): metrics, alerts and freshness are in `FleetFold`. A listed roster adds its hosts and may retire any it does not name, which stands
for `forget_host_after` and for `max_retained_hosts`; that cap is assumed to be larger
than what a backend lists. A cache from an older schema or one that does not parse is
the empty set of hosts.

**Calls.** `poll` is `CallPoll`, then `SkipPoll` or `BeginPoll` (`try_lock` and the two
clones), `FetchPoll` (the await), `StorePoll` (fold, store, release). `set_config` and
`forget_host` validate before they ask for the lock, so they have a place before it
(`CallSetConfig`, `RequestLock`) and one in its queue; tokio's mutex is fair. Between the
lock and the store they do not await. `DropFuture` drops a call anywhere, which the FFI
allows, with its guard or its place in the queue. A bridge fault (`FfiError::Internal`)
needs an instant no date represents or a plan core refuses, which cannot happen.

### How the poll loop corresponds to the code

**The main actor.** `app.jobs` is its queue, first in, first out. A job runs to its next
`await` in one action (`RunBody` to `RunEdited`); a call into Rust goes on meanwhile
(`BeginPoll`, `FoldPoll`, `StoreEdit`, ...), and its continuation is a job enqueued when
the call ends (`DeliverPoll`, `DeliverEdit`). `poll`, which awaits the task it created,
is resumed by a job of its own (`RunDone`). What the system calls directly runs between
jobs. UniFFI's Swift code does not pass a task's cancellation on to Rust, so a cancelled
poll's call still answers, and `execute`'s branch for `CancellationError` is never
reached with the session in force.

**Fields.** `app` has the model's fields by their names; `timers` are the timer tasks not
cancelled, of which `timerTask` is the one the model knows. `nextPollAt` is "due" or
"later". A session is its index in `sessions`, which is its identity (`===`). `fleet` is
the view's source, configuration and hosts. Transitions, warnings, the restore report
and persistence errors are displayed and never read; they are left out, and so are
writes that fail.

**Connection, configuration, store.** A connection is its URL, or none while the key
cannot be read (`locked`), which only an explicit retry ends; a rotated key is one more
changed setting. There is one environment. A configuration has the settings that are
stored and synced (`edit`), the focused host, and the liveness policy, whose change
needs a new session; no screen edits the policy today, `applyConfig` handles it, and
`loop_sessions` changes it. `StoredConfig` is the bridge's getter: what is stored, over
the last configuration it was given in this launch.

**Callers.** `Mobile` chooses the app: background, foreground, focus and forget are called
by the iOS app, wake is observed by the macOS app, which also saves the cache when it
quits. `Save` is the screen's handler up to its await, including the reload that a new
URL or a first configuration needs; one at a time, as `isSaving` has it. A synced
setting, `refreshNow`'s sync round included, is `SettingsChange`. What a Save does to the
replica is in `SettingsSync`.

### How the fold and the view correspond to the code

**Fold.** `Apply` is `FleetState::apply`: `ResetAfterBlindGap`, `ApplyRoster` (steps 2 and
3), `ReconcileEvaluations`, `StoreSeries`, `ObserveAlerts`, `RecordBookkeeping`, and the
advice, in the code's order. The maps keyed by host and then by metric or rule are
functions of pairs. `TransitionsSince` compares with the phases of before the blind
gap, as the code does.

**Around it.** `Poll` is one poll from the plan to the save: agents export (`Weathers`), the
plan is asked, parts of it fail (`Outages`), it comes late (`Delays`), the save is lost.
`Restart` is what any rebuild of a session does to the fold, `to_json` and `restore`, with
a cache that reads or does not. `SetConfig` hands over a record, which core may refuse;
`Forget` is `forget_host`.

**View.** `View` is `FleetState::view` with the decisions of `view.rs`: rows, severities,
counts, the label of the dominant mount, the instant a pending alert fires. Sentences and
units are left out. `history` is written by the model and read by the properties only.

**Records.** `SettingsRecords` is what crosses the FFI: seconds for spans, multipliers for
thresholds, JSON for rule sets, the errors by their names. A text that does not parse
is `None`; a configuration is judged in the code's order. `ScreenRecords` is what a poll
hands the app: instants in milliseconds, the banner at an instant, the advice, the
transitions in their order, with core's predicates beside what they judge.

### How gathering corresponds to the code

A call is a poll or a connection test. Its requests are all sent at once; `Reply` answers
one from what the instance holds by then, or with one of `Faults`; `Timeout` is the HTTP
client's; `FinishPoll` is the join, which orders outcomes by request and not by arrival.
Agents export meanwhile (`Export`). A metric's name and an attribute's are its words and the
places after which a dot stands, so that dots and underscores can be told apart or not, as
the two spellings do; a reply is decoded as `wire.rs` does it, with partial buckets dropped,
samples that are no number, hosts listed twice, and envelopes that are no success. A bucket's
value is the instance's own: `Mean` is a constant, of which nothing is assumed but that a
bucket with samples has a number. `ListHosts` says which hosts an answer lists, with the
beat of each; the code builds the same map row by row.

### How usage reporting corresponds to the code

`Resolve` and `Destination` decide whether a session gets a reporter. `FinishPoll` records
the trace of a poll; a full batch spawns a flush (`by # 0`), the app's own `FlushUsage`
another. A flush drains the buffer (`RunFlush`), the request reaches the backend or not
(`Deliver`), the answer comes or not (`Answer`, `GiveUp`). `SetReporting` and `Reload`
rebuild the session; old reporters live on in the polls and flushes that hold them.
`Relaunch` is a kill and a launch: the buffers are gone, the consent is not. A trace is a
poll and its spans, and `ExportTraceRequest` is what the backend decodes of them.

### How the agent corresponds to the code

**Export.** The SDK is external: it calls the instruments back in the order of their
registration, on one thread. `Callback` settles the cache first (`IsFresh`, `Sampled`,
`NotSampled`), so an export cycle that is slow samples twice. `Beat` and `ReportFailures`
are the agent's own instruments; `EndCycle` is the export, taken or not. `Shutdown` may
flush once more. What a pass yields is a set of readings per metric (`Collect`), since nothing
reads their order but the SDK, which keeps the later of two readings under the same
attributes (`LastOfEach`: two disks mounted at one path, two sensors of one label). A sample
is a field of the cache with its date, and an instrument is its position in the order the
metrics are registered in.

**Setup.** `Onboarding` and `AgentSettings` are the decisions: which arguments and answers
are accepted, what a file says, what the environment overrides, where the configuration
and its key go, what starts the agent. In `HostAgent` the answers come in one step, and
what init does to the disk is a step each: the environment file, the backup, the rename
of the configuration, the test export, the start. `Abort`, a kill or a failure, may come
before any of them, and a copy that was begun leaves half a backup. The agent that is
started then reads the path its service manager names and exports. A configuration is one
record; maps of headers and attributes are functions, which `Over` joins with the winner
first. `RenderToml` leaves out what holds nothing and `FromToml` puts the defaults back,
where a table that is written has other defaults than one that is not (`Collection`).

## Runs

`CHECK_DEADLOCK` is off in `fold`, `gather`, `agent` and `usage`: their behaviours end, at the
bound of the polls, the calls, the clock or the sessions. It stays on elsewhere.

### Settings sync

Two devices in every run, one register, one rule (two texts unless stated): a second
device is needed for every conflict, and every property compares entries key by key,
so a third device or key adds states and no new kind of conflict. Symmetry over the
devices is used only where there is no liveness property and no device is special.

| Run | Properties | Bounds | Question |
|---|---|---|---|
| `sharing` | `StoredMatchesReplica`, `AccountsSeparate`, `NoLostSave`, `PublishedIsPersisted`, `SavesMeanWhatTheySay` | nothing or the same settings stored before sync; 2 Saves, or 1 and a kill, or 1 and an orderly switch; two stamps in all | do devices that save, delete, are killed and change accounts keep what was saved, nothing else, and apart? |
| `bootstrap` | `SaveBeatsItsBase`, `StoredIsUsable`, `SharedSpec` | 1 Save, 1 foreign write, 1 initial sync, an older build, undecodable stored rules, clocks at 0 or 1, a counter that always overflows | do the devices implement the shared document whatever they find stored and in the mailbox, and does a Save beat its base when clocks lag? |
| `live` | `Converges` | 2 Saves, 1 text, `FairSpec` | do the devices and the mailbox agree in the end? |
| `account_switch` | `AccountsSeparate` (violated) | 1 Save, 1 switch, not `Orderly` | the finding below |

`Allowed` bounds the actions that a user, the system or other software takes: the set
of counts (of Saves, kills, foreign writes, account changes, initial syncs) a behaviour
may reach. As a set it can put two Saves in one instance with one Save and a kill,
without the product of the two. `MaxMs` and `MaxSeq` bound the stamps, as `MAX_MS` and
`u32::MAX` do in the code, and are small so that the counter overflows into the
milliseconds and runs out. Rounds, deliveries and lost writes are not bounded.

**Fairness** (`FairSpec`). A device that can be launched is; it runs rounds again and
again (foreground, refresh and server changes do that); core answers a Save, either
way; iCloud downloads to each device; and of the writes a device keeps making, some
are taken (strong fairness per device, since a write can be lost each time). Nothing
makes a user save, a kill happen, or a device switch. The last two assumptions are
about iCloud and not the code: without them no design converges.

### Session and poll loop

Three callers are enough for a holder, a waiter and one to be dropped between them, and
the lock treats callers alike. For the loop, one session per launch is the ordinary
life of an app, with every interleaving of its jobs and calls; two sessions bring
replacement: a late answer concerns one old session and one new one. `MaxJobs` bounds
only what the outside adds: a handler runs while fewer jobs are queued, so one or two
are there to race with. `Task` has as many identities as polls can be alive at once.

| Run | Properties | Bounds | Question |
|---|---|---|---|
| `session_calls` | `AtomicSpec`, `EditsAreServed` | 3 callers, 2 hosts, 2 configurations, `FairSpec` | is the session atomic to its callers, whoever is dropped, and is every edit served however many polls run? |
| `loop_sessions` | `ShownIsCurrent`, `HostsOfTheBackend`, `ClockKeepsRunning` | macOS, 2 sessions, 2 backends, 2 policies | does anything of a replaced session reach the screen, the cache, the next session or the clock? |
| `loop_ios` | `OneLoop`, `StopIsTheUsersToLift`, `ConfigInForce` | iOS, 1 session | one timer and one poll, with background, focus and forget; is a stop only the user's to lift; can the model come to name a configuration its session does not run? |
| `loop_live` | `KeepsPolling` | iOS, 1 session, 2 settings, a URL core refuses, no focus, `FairSpec` | does a loop left alone poll for ever? |

`ShownIsCurrent` and `ClockKeepsRunning` hold for the macOS app of `loop_sessions` and not
for every setting: see "What else the models can do". `ConfigInForce` is about steps: the
model never comes to name another configuration than its session's (`NamesWhatRuns`), but at
the end of a change that was overtaken (`Overtaken`), by another session or, on iOS, by another
change. The source says the first half without the exception (`FleetModel.swift:103-104`); the
model has both kinds of overtaking. `loop_ios` has a focus beside a Save, hence the second kind
only, its bound being one session; the theorem has both.

**Fairness.** In a session, a call that was started goes on: the runtime polls ready
futures, and a request ends in an answer or in the client's timeout. In the loop, the
main queue is drained, time passes, timers wake, and calls into Rust end. Nobody has to
refresh, save or open the app.

### Fold, view and records

| Run | Properties | Bounds | Question |
|---|---|---|---|
| `fold` | `TypeOK`, `DwellIsWatched`, `NotificationsAddUp`, `VerdictsHaveEvidence`, `ScreenIsTrue`, `AdvisedWaitKeepsDwell`, `UnseenIsNotJudged` | 2 hosts, 3 rules (one that fires at once, one with a dwell longer than the horizon, one that cannot fire), 4 polls, 2 disturbances | does what is judged, notified and shown rest on what was observed? |

A disturbance is a late poll, an outage, a lost save, a restore, an edit or a forgotten
host; every property takes at most two to violate, and polls between them. Delays are none,
inside the staleness bound, a blind gap, and one longer than a host is remembered. Before a
poll the first host alone is above the thresholds, or both are and every export lags, or the
second host alone reports; a host that is silent goes stale and down while the other is
judged. The tuning is the smallest its interlocks allow, so that in four polls hosts go stale
and down, are forgotten and are evicted, and the long dwell fires: with a poll that is late
inside the bound, from a restored cache, and under the edited rule.
A second is two units; the records an app hands over are in seconds, and two of them core
refuses. One of the others has no allowance for lag, so that an edit shortens the horizon
while a rule breaches.

- `VerdictsHaveEvidence`: news, shown values and breaches all have a sample of this poll
  inside the horizon behind them; a host that is Down has no alert that breaches.
- `ScreenIsTrue`: rows are distinct, what is listed as firing is what was told, a pending
  alert's instant is ahead and its mount one that has its value, Fresh is earned, the
  settings read back are those in force, and the records an app is given say what the
  fold knows (`RecordsAreTrue`): the loop stops exactly when the banner, at any later
  instant, carries a failure the user can repair; the seconds to wait end at the instant
  the next blind gap is counted from; the banner's date is not later than any value it
  dates; a notification opens on a row that says the same; a capacity whose readings are
  both current is the disk the agent measured.
- `UnseenIsNotJudged`: an outage changes no verdict, and hosts leave for a reason.

### Gathering

| Run | Properties | Bounds | Question |
|---|---|---|---|
| `gather` | `RosterIsTrue`, `SeriesStayApart`, `ValuesAreTheAgents`, `EveryCallEnds` | 2 calls, 1 tick, 3 pairs of spellings, 3 kinds of history | does an answer mean what the backend held? |

The histories have an upgrade, a counter that restarted, a silent host, a sample without
a host's name, partial buckets and nobody. A test is read as its record and the sentence
it shows, by what the sentence says. Two calls let a test and a poll meet what
changed between them. **Fairness**: the requests time out (`reqwest`'s timeout), and a
call whose requests are done goes on. The backend need not answer.

### Usage reporting

| Run | Properties | Bounds | Question |
|---|---|---|---|
| `usage` | `TypeOK`, `ReportsAreTrue`, `ReportingIsAllowed`, `FullBatchesLeave` | `BatchTraces` 2, `MaxBufferedTraces` 3, per build up to 4 polls, 2 sessions and 2 launches | is a poll reported once and truly or not at all, never against the user's word? |

The code's limits are 10 and 64; 2 and 3 keep their order and leave room for a buffer
that fills while a flush is in flight. Twelve builds cover each reason for denial, both
schemes and both shapes of a version. **Fairness**: a task the runtime was given runs. No
poll has to come and no request to be answered. `ReportingIsAllowed` is about polls
begun after an opt-out: a flush spawned before it may still send.

### Agent

| Run | Properties | Bounds | Question |
|---|---|---|---|
| `agent` | `TypeOK`, `PreviousConfigSurvives`, `SetupIsServed`, `BatchIsOnePicture`, `ReportsStayApart`, `SetupKeepsTheHost`, `HeartbeatsGrow` | 2 runs of init over 10 hosts and 3 whose agent runs already, agents that start up to twice, 9 instants, 3 failures | does setup cost a host nothing, is what runs what was set up, and is a batch one picture of the host? |

Hosts: Macs with Homebrew and with a LaunchAgent, a Linux server with the unit, one whose
configuration is elsewhere under `/etc`, a user without root, an explicit path; each with
nothing, a configuration, one that does not parse, or a key in the environment file. The
host a batch is about has two disks of one size, two interfaces with equal counters, two
sensors of one label and one of another, so each of the attributes a client groups by is the
only difference between two points, but `hw.id` and `hw.name`, which carry the same label: a
client needs one of the two. Requests: silent with everything and with one
flag, prompts answered with Enter, with everything, and wrongly. A batch's properties do
not depend on how the host was set up, so most agents that run have no init before them;
one has. Intervals of one and two seconds put the sample's age limit at and below its cycle.
`PreviousConfigSurvives` compares the disk with what the last init found there (`found`, which
is written when an init begins and read by the property only), in every later state: while the
setup runs, once it is done, and after it was killed. `SetupIsServed` compares the
configuration that was tested with the service's where the service reads that path; the other
hosts are under "What else the models can do", below.

## Finding

**An account change lets the old account into the new one** (`account_switch`). The mailbox
is read and written for the new account as soon as it changes; until the notification is
handled, a round merges and publishes the old account's replica there. The end of a Save
recorded before the change does the same: its edit is a whole replica, and `persist`
joins it with the rebuilt one.

### What else the models can do

No run states these, and a reader of the code should know them.

Settings and the loop:

- A kill between the two writes at the end of a Save leaves settings stored that the
  replica does not hold, so the next launch undoes them.
- A replacement of unreadable text that iCloud loses is not written again.
- `setConfig` waits for the poll in flight, and the two continuations race on the main
  actor. When the Save's runs first, the poll's advice replaces "now" by the interval.
- `forgetHost` does not check the session's identity after its await, as a poll does, so
  the view of a replaced session can be shown until the next poll.
- A launch compares the stored URL with the URL in force; there is none yet, and the cache
  is neither loaded nor kept.
- The body of a poll whose session was replaced before it ran marks the loop as polling
  and leaves it so; going to the background and back then arms no timer.
- A settings round or a reload that replaces the session while a Save awaits `setConfig` (or,
  on iOS, a change of the policy while a focus does) leaves the model naming, and storing, a configuration that only the
  old session took: `applyConfig` does not ask whose answer it is, and nobody else sets it
  right (`FleetModel.swift:103-104` says it is the one the session runs). So do, on iOS, the
  answers of a focus and a Save out of order. Nothing else does (`ConfigInForce`).
- What is typed while a Save is awaited is marked as saved (`committed = draft`), and the
  reseed wipes it, which `SettingsView.swift:119-121` of the macOS app sets out to avoid.

Fold and view:

- A pending alert that is frozen over polls that come on time fires, when its metric
  answers again, on a dwell nobody observed: only lateness starts a dwell over.
- An alert that fired, went back to pending after a blind gap and then became Ok says no
  "resolved": the transition to pending was the last word on it.
- A capacity row pairs a usage that was just fetched with a ratio of before an outage, when
  only the query of the ratio failed: the total is then of no disk, though the comment on
  `CapacityView` (`view.rs`) says dividing the two "recovers the total exactly".
  `CapacitiesAreExact` asks for rows that are both current.
- After the dwell of a rule is edited, a row's fire time is of the new dwell and its phase of
  the old one, until the next poll.
- A span with a fraction of a second loses it on its way to a record; the theorems are
  about whole seconds.
- The documentation of `from_liveness` gives a down threshold over 24 hours as what makes the
  preset unusable; the chart window already refuses one beyond an hour less a beat, which
  is what `PresetIsInterlocked` needs.

Agent and setup:

- `collector.rs` says that a host that cannot be sampled yields no datapoints and no
  heartbeat, and that a stale reading is visibly stale. `export.rs` beats on every cycle, and
  every point carries the instant of its batch; the count of failures is all a client
  can see (`StaleReadingsAreCounted`). The collector of this repository never fails.
- With an interval of one second the age limit of the sample is the interval, and a
  batch may be of two passes; `CycleIsOneSample` asks for two seconds.
- A user who is not root, on a Linux host with the unit, writes a configuration in the
  home directory and starts a service that reads the one in `/etc`; so does an explicit
  path, also with Homebrew. The LaunchAgent reads a directory that init never writes.
- Re-running init without the key under systemd tests without a key, so a backend that
  wants one refuses a host that works; Enter at the preset's key keeps an old key, which
  the plain OTLP preset refuses; and a plain OTLP service does not start while the
  environment file has one.
- "Nothing was written" can follow after the environment file was; a second run of init
  overwrites the backup of the first; starting the service does not restart a running one.
- A key in a readable `/etc` configuration wins over the environment file's at the next
  init.
- An empty key at `--api-key-stdin` takes the key out of the configuration where the backend
  needs none; `KeySurvivesSetup` takes it for the wish it may be. Under systemd the key in the
  environment file stays even then.
- The test export does not read the environment file, which may override the endpoint or the
  preset: the service then runs something else than what was tested.
  `TestSpeaksForTheService` is about files that override at most the key.
- The environment file is one for all of `/etc`: init with an explicit path elsewhere under it
  replaces the key there, and so that of the unit. `KeySurvivesSetup` is about the path
  init writes and those outside `/etc`.

Usage reporting:

- The buffer's ceiling is documented as reached only when every flush has been failing;
  a failing flush drains the buffer too, so what it loses is not counted as dropped.
- A session's rebuild loses what its reporter had buffered.
- Whether an endpoint in clear text is on the loopback is asked of the text's prefix
  (`IsLoopback`), so `ReportingIsAllowed` says nothing of which network a key crosses.
- The three seconds an iOS flush is given do not bound it: `withTaskGroup` waits for the
  child it cancelled.

## Proofs

`tlapm` checks every theorem for any values of the constants; what is assumed of them
are the named `ASSUME`s, which TLC evaluates in the runs.

- `SettingsSyncProofs`, of documents: the order of entries is total and irreflexive on everything a
  document can hold (`BelowTotal`, `BelowTransitive`), so `Join` is a least upper bound
  (`JoinCovers`, `JoinLeast`, `JoinMonotone`), and `TickIsLater`: a minted stamp is in
  range and later than every stamp in the document. Then core's decisions: the types of
  what they return, that a merge covers both sides and is the least to do so, and what a
  Save stores and records (`ProjectTwice`, `SavedConfigProjects`, `EditsWin`, `EditsLeave`).
- In the same module, of the devices: `TypeCorrect`; `ReplicasGrow`; `PublishedStaysPersisted`. The
  argument for the last two is one lemma, `DeviceStepGains`: every step of a device other
  than handling an account change only adds to its replica, puts in flight only what the
  replica then holds, and adds to the history only what the replica then covers. It needs
  that a recorded Save covers what it added (`EditsHold`), which is inductive with
  `TypeOK`. `PublishedIsPersisted` is inductive once account changes are counted
  (`NoSwitchYet`).
- There too, the settings screen: `StoredStaysUsable`, `SavesBeatTheirBase` and
  `StoredAlwaysMatches` from one invariant (`ScreenInv`), and `SavesAlwaysMeanWhatTheySay`.
  What is stored stays usable because a Save's config, which waits beside it, is
  (`SaveHolds`), and because what was stored before sync was (`InitialAssumption`). A Save
  beats its base as long as the baseline stands still under it: it dies with the app, so no
  launch can reseed the screen meanwhile. That the stored settings are the replica's
  projection is not inductive alone: a first Save stores the screen's own value where the
  projection has none, and the next round would take it away again if the document had
  cleared the setting. None ever does (`Uncleared`, of every replica, Save, text in flight,
  mailbox and stale read), because the screen cannot clear one. For what the user left
  alone, the document the next round starts from never falls behind the recorded Save
  (`CaughtUp`), so joining the Save changes nothing there; a rebuild for another account
  under an awaited Save would break this, hence `Orderly` again.
- And what accounts and devices share: the invariant is `KnownAt` of an account: whatever its
  mailbox, a text on the way to it, and a device signed in to it, its Save in hand and its
  stale read hold is covered by the history of the account. `AccountsSeparate` alone is not
  inductive, because a stale read or a recorded Save could bring in what it does not mention.
  `OnlyComersBringEntries` is what the code does promise, without `Orderly`: an account that no
  device comes to from another holds only what was recorded for it, whatever the devices of
  other accounts do, with changes handled late and Saves that span them. Where one does come,
  the code lets entries of its old account in, as the finding shows, so `AccountsSeparate`
  with account changes is left to the run `sharing`, under `Orderly`, as a check of
  `HandleAccountChange` alone: that a change which is handled at once brings nothing along.
  While no device has changed its account all are such (`AllKnown`), and there
  `NoSaveIsLost` follows (a recorded entry is squeezed between
  what the device held and the history) and `DevicesShareTheDocument`, the refinement: the
  join of the history with a device's new view is exactly the new history, by antisymmetry.
- `FleetSessionProofs`, for any hosts, configurations and number of callers:
  `SessionTypeCorrect`, `SnapshotStaysCurrent`, and the refinement `SessionIsAtomic`. With
  the types, `SnapshotIsCurrent` is inductive: who polls holds the lock, so there is one
  poll, and whoever changes state or configuration holds it too and is not polling
  (`PollerHolds`). Then a store folds the state of that instant (`StoreFolds`), and every
  step of a caller is one step of `AtomicSession` or none. `None` is assumed not to be a
  caller.
- `FleetModelProofs`, for any backends, hosts, tasks, editors, sessions and queue lengths,
  on both platforms: `OneLoopAlways`, `HostsStayWithTheirBackend`,
  `StopOutlivesEverythingElse` and `ConfigIsTheSessions`. None is inductive alone. One poll at a time
  needs that the task a poll is joined through is the one whose call is in flight or whose
  jobs are queued (`OwnPoll`), and one clock that every timer alive is the one the model
  knows or is about to be cancelled (`Clock`). That a task is free for the next poll
  (`CanPoll`) is what makes `Unused` and the choice of a task total. `Hosted` says of every
  place a list of hosts can wait in (sessions, answers, views, a saved fleet, a poll whose
  session is gone) whose backend it is of. A stop is a statement about two states, so
  it is proved by method: `Stands` holds across every method of the model but the poll a
  user asks for.
  Each method has one lemma, over the fields before it rather than over `app`, so that an
  action which runs three methods cites three lemmas.
  What the model names is treated likewise: `Names`, of fields, sessions and calls, is kept
  by whatever leaves the session, the name and the changes under way (`NamesKept`), and
  is made true by a replacement; that a change still on its way excuses the model (`Applies`)
  needs that a focus task which has not begun is about no session (`EditStands`). On macOS
  the exception is narrower, a replaced session only, because what its one Save had
  accepted stays what the session runs (`Taken`).
- For macOS (`~Mobile`), `MacShowsItsSession` and `MacKeepsItsClock`. The clock needs the
  most: that a model which should poll has a poll or a timer with its time set (`Waits`),
  that the task which others join still has a job to come (`TaskLives`), that a timer which
  fired before its task ended is not the one alive (`TimersInOrder`), and that the body of a
  poll of a replaced session, which writes `pollingState` before it asks whose session it
  is, runs before any of the session in force (`OldBodiesFirst`). With a suspended app, or
  one whose focus and forget calls outlive their session, these fail, and so do the two
  properties: see "What else the models can do".
- `FleetFoldProofs`, for any finite set of hosts, and any records, weathers, outages, delays
  and bounds: `ConfigStaysUsable` from what `FleetConfig::try_from` accepts, and
  `NotificationsAddUpAlways`. What was told equals what fires only as long as every pair is
  of a host that is retained, since a forgotten host takes its pairs along, and as long as
  the saved fleet and the history saved with it agree, since a restore brings both back;
  so the invariant is `Accounted` of the two (`Shaped`, `Housed` and the equation). One
  lemma per step of the fold says what it leaves alone, and `NewsAddUp` is the arithmetic
  of a fold's transitions.
- In the same module, `FoldStaysTyped`, `DwellIsAlwaysWatched`,
  `AdvisedWaitAlwaysKeepsDwell` and `UnseenIsNeverJudged`. `ApplyOf` composes the seven
  steps: the hosts are what the roster leaves (`HostsAfter`), and the evaluation of a pair is
  what observing makes of `Prior`, the one before unless it was of another rule or before a
  blind gap. `PairAfter` says what can come of that: a state as it was, or a breach dated
  by the one before or inside the horizon. The invariant is `Held`, of the fleet and of
  the saved one: every evaluation is of the rule it was last judged under (`Watched`), or
  an edit could go unnoticed; every number is one, so that the advised instant is no
  earlier than the poll that advised it (`BackoffType`); and no host was seen after now
  (`Sightings`), without which a host just listed could lose its place to one that was not.
  Who keeps a place in a full fleet is a fact about the first `n` of a finite set in a
  strict order (`TheFirst`): exactly `n` are kept, each ahead of each that is not.
  `history.watchedFrom`, which dwell is measured against, is no state of the code: per rule
  it is the earliest instant any fold could take evidence from since watching it started
  over, so a horizon that an edit shortens does not make an older breach unwatched.
- And `VerdictsAlwaysHaveEvidence`, from `EvidenceInv` on top of the fold's own invariant.
  It needs what a rule is judged on, which is a chain of lemmas from a plan to a candidate
  (`PlanIsAList`, `MatchingOf`, `SeriesForOf`, `AnswerOf`, `NormalizeOf`, `ReduceOf`, and
  `CandidateOf` over them): a candidate shows nothing but the newest export its host has in
  the poll. Each evaluation is then as it was or judged on that (`PairEvidence`, `Verdict`).
  The news of a fold is of what this fold judged (`FoldIsNews`), so news of a frozen pair
  would be told without a sample. For the hosts: a verdict that names this instant is of a
  host on this roster (`HostsAfterAreDated`), and one that is down has its last export
  outside the horizon, on the roster or not (`HorizonIsInTheWindow`, `DownIsBeyondTheHorizon`).
  The invariant adds that liveness was decided no later than now, and that there is news only
  of pairs that are evaluated. Sorting and `series_for` are stated by ranking (`Ranked`,
  `Ascending`, `Matching`): what they return is what the code's sort returns, and the
  provers see no further into a sort or a fold over a sequence.
- There too, what does not depend on a fold: `TuningCrosses` and `ConfigCrosses`, that a valid tuning or
  configuration of whole seconds comes back from its record as it was; `PresetIsInterlocked`
  and `PresetCrosses`, that the preset of a policy is one core accepts; and what the
  interlocks are for: `DownIsSilent` (evidence expires before its host is down),
  `RosterCoversTheLiving` (the roster's window reaches whoever is not down) and
  `BackoffIsBounded`. Multiplication is reasoned about in small lemmas (`Distributes`,
  `ProductIsAtLeast`, `DividesOnce`), which is all the solver can do with it.
- `UsageReporterProofs`, for any builds, endings of polls, batch and buffer sizes, numbers of
  sessions and launches: `UsageIsTyped`, `NothingIsReportedUnasked` and
  `WhatIsReportedIsTrue`, from one invariant (`Sound`). That no poll is reported twice says
  nothing of buffers and flushes; what is kept is that a poll is in one place: in flight, in
  one buffer, in one batch, or with the backend (`Apart`). A report is true because the
  trace was when it was buffered (`Told`), and that needs the memory the outcome is read
  from: `PollOutcome` compares the last roster's instant with the poll's, so no
  remembered roster may be of a poll still to come, of this launch or a later one
  (`Remembered`). Consent is a fact about every trace held, not only about those received:
  a flush may outlive the opt-out, and what it carries began before it. The count on
  screen is of what some received reports say, less those a pending flush still carries and
  has not counted (`Backed`); a session that was replaced keeps its flushes and not its
  counter, and a flush whose answer is lost is received and never counted, hence "at
  least".
- Of a build it assumes that endpoint, versions and endings have their types
  (`BuildAssumption`) and that `None` is none of what it stands beside (`NoneAssumption`).
  `WhatIsReportedIsTrue` has one more hypothesis, in its statement: the base names a
  signal path only at its end. `StripSignalPath` takes one off, as the code does, so of a base
  that ends in two, one would stay in the URL.

- `HostAgentProofs`, for any hosts, files, environments, requests and answers of a user: from
  one invariant (`HostInv`), `NothingIsLost`, `InitKeepsTheHost` and `InitServesTheHost`. A run
  of init is a promise about three places that are written one after the other, so the
  invariant says for every step of it what each of them holds (`SetupHolds`): until the
  rename the file is what init found, from the backup on what it found is beside it, and from
  the environment file on the key is in place (`Carries`). What init found survives the setup
  too: at each path it is there or beside it, whether the setup was killed or not, until
  another init begins (`FoundHolds`). That what is written reads back is
  a fact about `RenderToml` (`RenderedReadsBack`). That the key survives needs to know which
  key a configuration of init carries: the one that was there, or one the user gave
  (`Meant`). `InitServesTheHost` has two parts that meet: what stays true of a tested
  configuration until the next init writes (`TestedHolds`), and that the file without its
  key, under the environment with it, is the configuration again (`ApplyEnvOfTheKey`).
- In the same module the agent that runs: `HostTypeCorrect`, `BeatsAreCounted`,
  `BatchesAreOnePicture` and `ReportsAreToldApart`. A heartbeat that grows needs that a beat is
  in the points of a cycle exactly once its instrument was called, and in every batch that
  leaves (`BeatsHold`; the heartbeat is always `Registered`). For one picture, a sample from
  before a cycle is older than the interval less `CycleTime` (`ClockHolds`), and the age limit
  is the interval less a second at most (`MaxAgeIs`), so the first callback takes a new one; from
  then on the cache is the cycle's own until it ages out (`PictureHolds`, `FreshIs`), for which
  a second must pass. So the theorem has the
  hypothesis `CycleTime < Second`: the callbacks of a cycle take less than the least age limit.
  With slower ones the property fails, as it should: the cache ages out in the middle of a
  cycle. Points stay apart because what `Collect` attaches differs where it must
  (`CollectIsApart`), for any disks and sensors, and every name it attaches is one the clients
  group by.
- Of the constants it assumes what a Rust type gives: that settings are of their types, that a
  `None` or a `Blank` is none of the values it stands beside (`SettingsAssumption`,
  `HostAgentAssumption`), that a host is as an installation leaves it (`IsHost`).

- `ObservationProofs` is what proofs about a poll share: division and products, finite sets in
  a strict order and the lists they are ranked into, the plan of a poll, and the lists of an
  observation. `FleetFoldProofs` and `GatherProofs` are built on it.
- `GatherProofs`, for any configuration core accepts, samples, exports meanwhile, faults,
  spellings, and order in which requests are answered: `RostersAreTrue`,
  `SeriesArriveApart` and `ValuesAreRight`, from one invariant (`GatherInv`,
  `AnswersAreOfTheBackend`). The three properties compare an answer with what the backend
  held when the call began (`started`), and an answer is made of what it holds when it
  replies. So the invariant brackets every answer of a call, of an observation and of a
  test: all it says is of samples exported by now (`RollCall`, `AreSeries`), and all that
  was exported when the call began is in it (`Complete`, `HasAllShown`), unless the
  spelling the client was given is not the instance's, or the request failed. The bracket
  is inductive because the first half survives a backend that grows and the second is about
  one that stands still (`AnswersKeep`). What a reply says rests on the spelling: that a name
  is known by its words (`SpellingReadsBack`, `MetricsApart`), so no two attributes the
  client asks for are spelled alike and what `to_dotted` reads is what was asked.
- `ValuesAreRight` needs more than the bracket. A detail request and an overview request
  of one metric both answer, and `series_for` gives what the detail request said
  (`DetailStays`, by where the plan puts it). A rate is no less than nothing and no more than
  what the counter counted: a difference is of two neighbouring points or starts over at a
  reset (`DifferencedIs`), and the division loses less than a unit (`QuotientIsWithin`).
  A reduction is of every series of its host: at least as much as each of them, and by
  one of them, whichever way the list is turned (`TracesAreFinite`, `ReducedIs`,
  `DominantIs`, `BackwardsIsTheSame`).
- Of the configuration it assumes a valid tuning, a heartbeat of a second or more, windows that
  are ranges of time, and finitely many rules (`ConfigAssumption`); of the instance, finite
  exports, no label of an agent's own that is spelled like one the client asks for,
  counters that are not negative, and that a fault is no success (`BackendAssumption`).

Left to TLC: every liveness property (`Converges`, `EditsAreServed`, `KeepsPolling`,
`EveryCallEnds`, `FullBatchesLeave`), which is out of the prover's reach; and
`ScreenIsTrue`, of the records a screen is built from, which are made by folds over
sequences and by sorts whose order is an operator: the provers leave both closed. What it is
built from is proved: that verdicts, dwell and notifications are right
(`VerdictsAlwaysHaveEvidence`, `DwellIsAlwaysWatched`, `NotificationsAddUpAlways`).

## Not modelled

- The draft of the settings screen while a Save is awaited, and the form of the connection
  and its key: a view's bindings, written by the user at any time.
- Writes to UserDefaults and the keychain that fail, the widget's mirror of them.
- Bytes: HTTP, JSON and protobuf encodings, TLS, the grammar of a URN, filter texts. What an
  encoding says is modelled where a component decides on it.
- The way back of a fleet view's records (`TryFrom` in `view_records.rs` and
  `fold_records.rs`), which only round-trip tests take, the report of a restore, and the
  generated Swift bindings.
- Layout and wording of views, prompts, the widget.
- What the SDK, the async runtime, iCloud, service managers and the query backend do
  beyond how this code uses them: they are external and do anything of a stated kind.

## What is next

In order: theorems about the view (`ScreenIsTrue`); a budget that binds in settings sync; the draft beside the Save; `FleetModel` over the whole of `FleetFold` in place
of what `SessionState` keeps of it.
