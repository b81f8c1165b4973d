----------------------------- MODULE FleetModel -----------------------------
(***************************************************************************)
(* The poll loop of the Apple clients: `FleetModel` (src/clients/apple/    *)
(* PessimalKit/Sources/Model/FleetModel.swift) over its `FleetSession`s.   *)
(*                                                                         *)
(* `FleetModel` runs on the main actor, whose jobs run one at a time in    *)
(* the order they were enqueued.  Every `await` ends a job; the call into  *)
(* Rust runs elsewhere meanwhile, and its continuation is a later job.     *)
(* Handlers the system calls directly (a button, a scene change, a settings*)
(* notice) run between jobs.  What a session does with a call is           *)
(* SessionState's; that a poll folds the state it finds is proved of       *)
(* FleetSession, so a poll here keeps no clone of its own.                 *)
(*                                                                         *)
(* A connection is its URL, a rotated key being one more edit of what is   *)
(* stored.  A configuration is the edit it stores (environment, interval,  *)
(* rules), the focused host and the liveness policy.                       *)
(***************************************************************************)
EXTENDS SessionState, FiniteSets

CONSTANTS Url, BadUrl,          \* the backends; those core refuses
          Edit,                 \* the values of the stored settings
          Policy, DefaultPolicy, \* the liveness policies, and core's default
          HostsAt(_),           \* the hosts a backend can list
          Saver,                \* the settings screen's one Save in progress
          ScreenTask,           \* the tasks a host's screen starts
          Task,                 \* identities for polls alive at once
          Mobile,               \* the iOS app's callers, or the macOS app's
          MaxSessions, MaxJobs  \* bounds: sessions per launch, queued jobs

Editor == {Saver} \cup ScreenTask

ASSUME FleetModelAssumption ==
    /\ Config = [edit : Edit, focus : Host \cup {None}, liveness : Policy]
    /\ Caller = Editor \cup Task
    /\ Task \cap Editor = {}
    /\ None \notin Task \cup Editor \cup Host \cup Url \cup Config
                   \cup {"due", "later"}
    /\ DefaultPolicy \in Policy /\ BadUrl \subseteq Url
    /\ \A u \in Url : HostsAt(u) \subseteq Host
    /\ Mobile \in BOOLEAN /\ MaxSessions \in Nat /\ MaxJobs \in Nat

VARIABLES app,       \* the model's fields, the main actor's queue, live timers
          sessions,  \* sessions[n]: the URL and the value of the nth handle
          polls,     \* polls[t]: the call task t awaits, or None
          edits,     \* edits[e]: the setConfig or forgetHost e awaits, or None
          store,     \* the settings store, whether its key cannot be read, and
                     \* the last configuration saved in this launch
          cache,     \* the state cache on disk: a URL and its hosts, or None
          screen     \* the host whose screen is open, or None

vars == <<app, sessions, polls, edits, store, cache, screen>>

NoSession == 0

-----------------------------------------------------------------------------
(***************************************************************************)
(* Values                                                                  *)
(***************************************************************************)
PollingState == {"idle", "scheduled", "polling", "suspended", "stopped"}
View         == [of : Nat, config : Config, known : SUBSET Host]
PollAnswer   == [skipped : BOOLEAN, view : View, advice : Advice]

\* A session's handle, and the calls into one that a task or an editor awaits.
Handle   == [url : Url, core : Session]
PollCall == [session : Nat, at : {"called", "fetch", "answered"},
             answer : PollAnswer \cup {None}]
EditCall == [op : {"save", "focus", "forget"},
             at : {"starting", "called", "waiting", "stored", "queued"},
             arg : Config \cup Host \cup {None}, session : Nat,
             view : View \cup {None}]

ASSUME NoneIsNoRecord == None \notin View \cup PollCall \cup EditCall

\* What the main actor has to run: the body, the continuation or the end of a
\* poll's task, a timer's task, and the start or continuation of an edit.
MainJob ==
    [job : {"body"}, task : Task, session : Nat]
        \cup [job : {"answer"}, task : Task, session : Nat, answer : PollAnswer]
        \cup [job : {"done"}, task : Task]
        \cup [job : {"timer"}, timer : Nat]
        \cup [job : {"focus", "edited"}, editor : Editor]

Fields ==
    [session : Nat, connection : Url \cup {None}, config : Config \cup {None},
     sessionState : {"unconfigured", "ready", "unusable"},
     pollingState : PollingState, isSuspended : BOOLEAN,
     nextPollAt : {None, "due", "later"}, fleet : View \cup {None},
     pollTask : Task \cup {None}, timerTask : Nat, timers : SUBSET Nat,
     jobs : Seq(MainJob)]

Store == [url : Url \cup {None}, locked : BOOLEAN, edit : Edit,
          accepted : Config \cup {None}]

ViewOf(n, core) ==
    [of |-> n, config |-> core.config, known |-> core.state.known]

Launched ==
    [session |-> NoSession, connection |-> None, config |-> None,
     sessionState |-> "unconfigured", pollingState |-> "idle",
     isSuspended |-> FALSE, nextPollAt |-> None, fleet |-> None,
     pollTask |-> None, timerTask |-> 0, timers |-> {}, jobs |-> <<>>]

Jobs == {app.jobs[i] : i \in 1..Len(app.jobs)}

\* Identities are reused once nothing refers to them any more.
Unused(used) == CHOOSE i \in 1..(Cardinality(used) + 1) : i \notin used

QueuedTimers(a) ==
    {a.jobs[i].timer : i \in {k \in 1..Len(a.jobs) : a.jobs[k].job = "timer"}}
QueuedTasks(a) ==
    {a.jobs[i].task : i \in {k \in 1..Len(a.jobs) :
                                a.jobs[k].job \in {"body", "answer", "done"}}}
FreeTasks(a) ==
    {t \in Task : polls[t] = None /\ t # a.pollTask /\ t \notin QueuedTasks(a)}

\* The configuration the store answers with: what it stores, and from the last
\* configuration core accepted in this launch what it has no place for.
StoredConfig(st) ==
    IF st.accepted = None
    THEN [edit |-> st.edit, focus |-> None, liveness |-> DefaultPolicy]
    ELSE [st.accepted EXCEPT !.edit = st.edit]

Saved(st, config) == [st EXCEPT !.edit = config.edit, !.accepted = config]

\* A connection is a URL and a key that could be read.
ConnectionOf(st) == IF st.locked THEN None ELSE st.url

\* Asking the Keychain again may unlock it, and does nothing once it has.
Retried(st) == {st, [st EXCEPT !.locked = FALSE]}

\* `persistState`: the session's exported state, or nothing without a session.
Persisted(a, ss, saved) ==
    IF a.session = NoSession
    THEN saved
    ELSE [url |-> ss[a.session].url, known |-> ss[a.session].core.state.known]

-----------------------------------------------------------------------------
(***************************************************************************)
(* The methods of the model, each a function of the model's fields.        *)
(***************************************************************************)
CancelTimer(a) ==
    [a EXCEPT !.timers = @ \ {a.timerTask}, !.timerTask = 0]

NewTimer(a) == Unused(a.timers \cup QueuedTimers(a))

ArmedState(a) ==
    IF a.session = NoSession THEN "idle"
    ELSE IF a.isSuspended THEN "suspended"
    ELSE IF a.nextPollAt = None THEN "idle" ELSE "scheduled"

\* One timer for `nextPollAt`, where there is something to wait for.
Arm(a) ==
    LET b == [CancelTimer(a) EXCEPT !.pollingState = ArmedState(a)]
        t == NewTimer(b)
    IN  IF a.pollingState = "stopped" THEN a
        ELSE IF b.pollingState # "scheduled" THEN b
        ELSE [b EXCEPT !.timerTask = t, !.timers = @ \cup {t}]

PollSoon(a) ==
    IF a.pollingState = "stopped"
    THEN a
    ELSE Arm([a EXCEPT !.nextPollAt = "due"])

\* Mutant: the deadline is noted and no timer is armed for it.
ObeyUnarmed(a, advice) ==
    IF advice = "halt"
    THEN [CancelTimer(a) EXCEPT !.nextPollAt = None,
                                !.pollingState = "stopped"]
    ELSE [a EXCEPT !.nextPollAt = "later", !.pollingState = "idle"]

\* `apply(advice:)`.
Obey(a, advice) ==
    IF advice = "halt"
    THEN [CancelTimer(a) EXCEPT !.nextPollAt = None,
                                !.pollingState = "stopped"]
    ELSE Arm([a EXCEPT
                !.nextPollAt = IF advice = "now" THEN "due" ELSE "later",
                !.pollingState = IF @ = "stopped" THEN "idle" ELSE @])

\* Join the poll that runs, or start one: its body is a job of its own.
Poll(a, resumingAfterStop) ==
    IF \/ a.pollTask # None
       \/ a.session = NoSession
       \/ a.pollingState = "stopped" /\ ~resumingAfterStop
    THEN a
    ELSE LET t == CHOOSE t \in FreeTasks(a) : TRUE
         IN  [a EXCEPT !.pollTask = t,
                       !.jobs = Append(@, [job |-> "body", task |-> t,
                                           session |-> a.session])]

Teardown(a) ==
    [CancelTimer(a) EXCEPT
        !.pollTask = None, !.session = NoSession, !.connection = None,
        !.fleet = None, !.nextPollAt = None, !.pollingState = "idle"]

\* Mutant: the poll of the old session stays the one to join.
AdoptKeepingTask(a, n, handle) ==
    [CancelTimer(a) EXCEPT
        !.session = n, !.connection = handle.url,
        !.config = handle.core.config, !.fleet = ViewOf(n, handle.core),
        !.sessionState = "ready", !.pollingState = "idle"]

Adopt(a, n, handle) ==
    [CancelTimer(a) EXCEPT
        !.pollTask = None, !.session = n, !.connection = handle.url,
        !.config = handle.core.config, !.fleet = ViewOf(n, handle.core),
        !.sessionState = "ready", !.pollingState = "idle"]

\* Mutant: a suspended model no longer says that it was stopped.
SuspendStopped(a) ==
    IF a.isSuspended
    THEN a
    ELSE [CancelTimer(a) EXCEPT
             !.isSuspended = TRUE,
             !.pollingState = IF @ = "polling" THEN @ ELSE "suspended"]

Suspend(a) ==
    IF a.isSuspended
    THEN a
    ELSE [CancelTimer(a) EXCEPT
             !.isSuspended = TRUE,
             !.pollingState = IF @ \in {"polling", "stopped"}
                              THEN @ ELSE "suspended"]

Resume(a) ==
    LET b == [a EXCEPT !.isSuspended = FALSE]
    IN  IF \/ ~a.isSuspended
           \/ a.session = NoSession
           \/ a.pollingState \in {"stopped", "polling"}
        THEN b
        ELSE Arm(b)

-----------------------------------------------------------------------------
(***************************************************************************)
(* reloadSettings: what becomes of the model, the sessions and the cache   *)
(* when the store holds `st`.                                              *)
(***************************************************************************)
Unchanged(a, st) ==
    /\ a.session # NoSession
    /\ ConnectionOf(st) = a.connection
    /\ StoredConfig(st) = a.config

Rebuilds(a, st) ==
    LET connection == ConnectionOf(st)
    IN  connection \notin BadUrl \cup {None} /\ ~Unchanged(a, st)

\* The hosts to carry over: those of the session, or without one the cache's.
HostsOf(a, ss, saved) ==
    IF a.session # NoSession THEN ss[a.session].core.state.known
    ELSE IF saved # None THEN saved.known
    ELSE {}

\* Mutant: hosts are carried over to another backend.
CarriedHosts(a, st) == HostsOf(a, sessions, cache)

\* A new session starts from them if its URL is the one already in force.
CachedHosts(a, st) ==
    IF a.connection = ConnectionOf(st) THEN HostsOf(a, sessions, cache) ELSE {}

Rebuilt(a, st) ==
    [url |-> st.url, core |-> NewSession(StoredConfig(st), CachedHosts(a, st))]

Reloaded(a, st) ==
    CASE ConnectionOf(st) = None ->
             [Teardown(a) EXCEPT !.sessionState = "unconfigured"]
      [] ConnectionOf(st) \in BadUrl ->
             [Teardown(a) EXCEPT !.sessionState = "unusable"]
      [] Unchanged(a, st) -> a
      [] Rebuilds(a, st) ->
             PollSoon(Adopt(a, Len(sessions) + 1, Rebuilt(a, st)))

SessionsReloaded(a, st) ==
    IF Rebuilds(a, st) THEN Append(sessions, Rebuilt(a, st)) ELSE sessions

CacheReloaded(a, st) ==
    IF Rebuilds(a, st) /\ a.connection # ConnectionOf(st) THEN None ELSE cache

\* The bound on sessions, where a reload would build one.
Room(a, st) == Rebuilds(a, st) => Len(sessions) < MaxSessions

-----------------------------------------------------------------------------
(***************************************************************************)
(* Jobs of the main actor, run from the head of its queue.                 *)
(***************************************************************************)
Job == Head(app.jobs)

Popped == [app EXCEPT !.jobs = Tail(@)]

HeadIs(kind) == app.jobs # <<>> /\ Job.job = kind

Enqueued(a, job) == [a EXCEPT !.jobs = Append(@, job)]

\* Mutant: the poll forgets its task as soon as it runs.
RunBodyUntracked ==
    /\ HeadIs("body")
    /\ app' = [Popped EXCEPT !.pollingState = "polling", !.pollTask = None]
    /\ polls' = [polls EXCEPT ![Job.task] =
                    [session |-> Job.session, at |-> "called", answer |-> None]]
    /\ UNCHANGED <<sessions, edits, store, cache, screen>>

\* The poll's task starts: `execute(poll:)` up to its await.
RunBody ==
    /\ HeadIs("body")
    /\ app' = [Popped EXCEPT !.pollingState = "polling"]
    /\ polls' = [polls EXCEPT ![Job.task] =
                    [session |-> Job.session, at |-> "called", answer |-> None]]
    /\ UNCHANGED <<sessions, edits, store, cache, screen>>

\* Mutant: the answer is taken whatever session it is about.
RunAnswerUnchecked ==
    /\ HeadIs("answer")
    /\ LET shown == IF Job.answer.skipped
                    THEN Popped
                    ELSE [Popped EXCEPT !.fleet = Job.answer.view]
       IN  app' = Enqueued(Obey(shown, Job.answer.advice),
                           [job |-> "done", task |-> Job.task])
    /\ cache' = Persisted(app, sessions, cache)
    /\ UNCHANGED <<sessions, polls, edits, store, screen>>

\* `execute(poll:)` from its await on: an answer about a session that has been
\* replaced is dropped; a skipped poll only reschedules.  The awaiting creator
\* of the task is enqueued when the task ends.
RunAnswer ==
    /\ HeadIs("answer")
    /\ LET current == Job.session = app.session
           shown   == IF Job.answer.skipped
                      THEN Popped
                      ELSE [Popped EXCEPT !.fleet = Job.answer.view]
           obeyed  == Obey(shown, Job.answer.advice)
       IN  /\ app' = Enqueued(IF current THEN obeyed ELSE Popped,
                              [job |-> "done", task |-> Job.task])
           /\ cache' = IF current /\ ~Job.answer.skipped
                       THEN Persisted(app, sessions, cache) ELSE cache
    /\ UNCHANGED <<sessions, polls, edits, store, screen>>

\* `poll` after `await task.value`: only its creator clears a task.
RunDone ==
    /\ HeadIs("done")
    /\ app' = [Popped EXCEPT !.pollTask = IF @ = Job.task THEN None ELSE @]
    /\ UNCHANGED <<sessions, polls, edits, store, cache, screen>>

RunTimer ==
    /\ HeadIs("timer")
    /\ app' = IF Job.timer \in app.timers
              THEN Poll([Popped EXCEPT !.timers = @ \ {Job.timer}], FALSE)
              ELSE Popped
    /\ UNCHANGED <<sessions, polls, edits, store, cache, screen>>

\* `applyConfig` up to its await, or all of it when the policy changes and a
\* new session takes the old one's place; `a`, `ss`, `st` and `saved` are what
\* the fields, the sessions, the store and the cache have become.
Apply(a, ss, st, saved, e, op, config) ==
    \/ /\ config.liveness = a.config.liveness
       /\ app' = a /\ sessions' = ss /\ store' = st /\ cache' = saved
       /\ edits' = [edits EXCEPT ![e] =
                       [op |-> op, at |-> "called", arg |-> config,
                        session |-> a.session, view |-> None]]
    \/ /\ config.liveness # a.config.liveness
       /\ Len(ss) < MaxSessions
       /\ LET core == NewSession(config, HostsOf(a, ss, saved))
              handle == [url |-> a.connection, core |-> core]
              b == Adopt(a, Len(ss) + 1, handle)
          IN  /\ sessions' = Append(ss, handle)
              /\ app' = PollSoon(b)
              /\ cache' = Persisted(b, sessions', saved)
       /\ edits' = [edits EXCEPT ![e] = None]
       /\ store' = Saved(st, config)

\* `focusHost`: the configuration in force with another focus, if it has another.
RunFocus ==
    /\ HeadIs("focus")
    /\ LET host  == edits[Job.editor].arg
           moves == /\ app.config # None /\ app.connection # None
                    /\ app.config.focus # host
       IN  \/ /\ moves
              /\ Apply(Popped, sessions, store, cache, Job.editor, "focus",
                       [app.config EXCEPT !.focus = host])
           \/ /\ ~moves
              /\ app' = Popped
              /\ edits' = [edits EXCEPT ![Job.editor] = None]
              /\ UNCHANGED <<sessions, store, cache>>
    /\ UNCHANGED <<polls, screen>>

\* Mutant: an accepted configuration is saved and not taken over.
RunEditedUntaken ==
    /\ HeadIs("edited")
    /\ LET edit == edits[Job.editor]
       IN  IF edit.op = "forget"
           THEN /\ app' = [Popped EXCEPT !.fleet = edit.view]
                /\ UNCHANGED store
           ELSE /\ app' = PollSoon(Popped)
                /\ store' = Saved(store, edit.arg)
    /\ cache' = Persisted(app, sessions, cache)
    /\ edits' = [edits EXCEPT ![Job.editor] = None]
    /\ UNCHANGED <<sessions, polls, screen>>

\* `applyConfig` and `forgetHost` from their await on.
RunEdited ==
    /\ HeadIs("edited")
    /\ LET edit == edits[Job.editor]
       IN  IF edit.op = "forget"
           THEN /\ app' = [Popped EXCEPT !.fleet = edit.view]
                /\ UNCHANGED store
           ELSE /\ app' = PollSoon([Popped EXCEPT !.config = edit.arg])
                /\ store' = Saved(store, edit.arg)
    /\ cache' = Persisted(app, sessions, cache)
    /\ edits' = [edits EXCEPT ![Job.editor] = None]
    /\ UNCHANGED <<sessions, polls, screen>>

RunMain ==
    RunBody \/ RunAnswer \/ RunDone \/ RunTimer \/ RunFocus \/ RunEdited

-----------------------------------------------------------------------------
(***************************************************************************)
(* The calls inside the sessions, and the clock.                           *)
(***************************************************************************)
PollAt(t, at) == polls[t] # None /\ polls[t].at = at

SkipPoll(t) ==
    /\ PollAt(t, "called")
    /\ LET n == polls[t].session
           core == sessions[n].core
       IN  /\ ~IsFree(core)
           /\ polls' = [polls EXCEPT
                           ![t].at = "answered",
                           ![t].answer = [skipped |-> TRUE,
                                          view    |-> ViewOf(n, core),
                                          advice  |-> AdviceOf(core.state)]]
    /\ UNCHANGED <<app, sessions, edits, store, cache, screen>>

BeginPoll(t) ==
    /\ PollAt(t, "called")
    /\ IsFree(sessions[polls[t].session].core)
    /\ sessions' = [sessions EXCEPT ![polls[t].session].core.holder = t]
    /\ polls' = [polls EXCEPT ![t].at = "fetch"]
    /\ UNCHANGED <<app, edits, store, cache, screen>>

FoldPoll(t) ==
    /\ PollAt(t, "fetch")
    /\ LET n == polls[t].session
           core == sessions[n].core
       IN  \E seen \in Observation, expired \in SUBSET core.state.known :
              /\ seen.hosts \subseteq HostsAt(sessions[n].url)
              /\ LET next == Released([core EXCEPT
                                !.state = Fold(@, seen, expired \ seen.hosts)])
                 IN  /\ sessions' = [sessions EXCEPT ![n].core = next]
                     /\ polls' = [polls EXCEPT
                                     ![t].at = "answered",
                                     ![t].answer =
                                         [skipped |-> FALSE,
                                          view    |-> ViewOf(n, next),
                                          advice  |-> AdviceOf(next.state)]]
    /\ UNCHANGED <<app, edits, store, cache, screen>>

DeliverPoll(t) ==
    /\ PollAt(t, "answered")
    /\ app' = Enqueued(app, [job |-> "answer", task |-> t,
                             session |-> polls[t].session,
                             answer  |-> polls[t].answer])
    /\ polls' = [polls EXCEPT ![t] = None]
    /\ UNCHANGED <<sessions, edits, store, cache, screen>>

EditAt(e, at) == edits[e] # None /\ edits[e].at = at

RequestLock(e) ==
    /\ EditAt(e, "called")
    /\ edits' = [edits EXCEPT ![e].at = "waiting"]
    /\ sessions' = [sessions EXCEPT ![edits[e].session].core = Requested(@, e)]
    /\ UNCHANGED <<app, polls, store, cache, screen>>

StoreEdit(e) ==
    /\ EditAt(e, "waiting")
    /\ LET n == edits[e].session
           core == sessions[n].core
           next == IF edits[e].op = "forget"
                   THEN [core EXCEPT !.state = Forget(@, edits[e].arg)]
                   ELSE [core EXCEPT !.config = edits[e].arg]
       IN  /\ core.holder = e
           /\ sessions' = [sessions EXCEPT ![n].core = Released(next)]
           /\ edits' = [edits EXCEPT ![e].at = "stored",
                                     ![e].view = ViewOf(n, next)]
    /\ UNCHANGED <<app, polls, store, cache, screen>>

DeliverEdit(e) ==
    /\ EditAt(e, "stored")
    /\ app' = Enqueued(app, [job |-> "edited", editor |-> e])
    /\ edits' = [edits EXCEPT ![e].at = "queued"]
    /\ UNCHANGED <<sessions, polls, store, cache, screen>>

\* The deadline passes; a timer that slept until it wakes.
DeadlinePasses ==
    /\ app.nextPollAt = "later"
    /\ app' = [app EXCEPT !.nextPollAt = "due"]
    /\ UNCHANGED <<sessions, polls, edits, store, cache, screen>>

WakeTimer ==
    /\ app.nextPollAt = "due"
    /\ \E i \in app.timers \ QueuedTimers(app) :
          app' = Enqueued(app, [job |-> "timer", timer |-> i])
    /\ UNCHANGED <<sessions, polls, edits, store, cache, screen>>

-----------------------------------------------------------------------------
(***************************************************************************)
(* What the app and the system do, between jobs.                           *)
(***************************************************************************)
Between == Len(app.jobs) < MaxJobs /\ FreeTasks(app) # {}

\* The model reads the store, which holds `st`, from the fields `a`.
Reloads(a, st) ==
    /\ Room(a, st)
    /\ app' = Reloaded(a, st)
    /\ sessions' = SessionsReloaded(a, st)
    /\ store' = st
    /\ cache' = CacheReloaded(a, st)

\* `start`, and the settings screen's "Try Again".
Reload ==
    /\ Between
    /\ \E st \in Retried(store) : Reloads(app, st)
    /\ UNCHANGED <<polls, edits, screen>>

\* A sync round stores another device's settings and tells the model.
SettingsChange ==
    /\ Between
    /\ \E edit \in Edit \ {store.edit} :
          Reloads(app, [store EXCEPT !.edit = edit])
    /\ UNCHANGED <<polls, edits, screen>>

\* The usage switch drops the session first, which is what makes it rebuild.
ConsentChange ==
    /\ Between /\ app.session # NoSession
    /\ Reloads([app EXCEPT !.session = NoSession], store)
    /\ UNCHANGED <<polls, edits, screen>>

\* `refreshNow`, after its sync round.
Refresh ==
    /\ Between
    /\ \E st \in Retried(store) :
          /\ Room(app, st)
          /\ app' = Poll(Reloaded(app, st), TRUE)
          /\ sessions' = SessionsReloaded(app, st)
          /\ store' = st
          /\ cache' = CacheReloaded(app, st)
    /\ UNCHANGED <<polls, edits, screen>>

\* `enterBackground` and `enterForeground`, which only the iOS app has.
Background ==
    /\ Mobile /\ ~app.isSuspended
    /\ app' = Suspend(app)
    /\ cache' = Persisted(app, sessions, cache)
    /\ UNCHANGED <<sessions, polls, edits, store, screen>>

Foreground ==
    /\ Mobile /\ Between
    /\ \E st \in Retried(store) :
          /\ Room(app, st)
          /\ app' = Resume(Reloaded(app, st))
          /\ sessions' = SessionsReloaded(app, st)
          /\ store' = st
          /\ cache' = CacheReloaded(app, st)
    /\ UNCHANGED <<polls, edits, screen>>

\* The wake notification, which only the macOS app observes.
Wake ==
    /\ ~Mobile /\ Between /\ ~app.isSuspended
    /\ app' = Arm(app)
    /\ UNCHANGED <<sessions, polls, edits, store, cache, screen>>

\* A Save of the settings screen, one at a time, up to its await.  The screen
\* stores a new URL itself, and the configuration too while no session can
\* judge it; then it has the model reload, and apply what was typed.
SaveTyped(url, config) ==
    LET first   == app.sessionState # "ready"
        reloads == first \/ url # store.url
        moved   == [store EXCEPT !.url = url]
        st      == IF first THEN Saved(moved, config) ELSE moved
        a       == IF reloads THEN Reloaded(app, st) ELSE app
        ss      == IF reloads THEN SessionsReloaded(app, st) ELSE sessions
        saved   == IF reloads THEN CacheReloaded(app, st) ELSE cache
    IN  /\ reloads => Room(app, st)
        /\ \/ /\ a.sessionState # "ready"
              /\ app' = a /\ sessions' = ss /\ store' = st /\ cache' = saved
              /\ UNCHANGED edits
           \/ /\ a.sessionState = "ready"
              /\ Apply(a, ss, st, saved, Saver, "save", config)

Save ==
    /\ Between /\ edits[Saver] = None /\ ~store.locked
    /\ \E url \in Url, edit \in Edit, policy \in Policy :
          LET base == IF app.config # None THEN app.config
                                           ELSE StoredConfig(store)
          IN  /\ <<url, edit, policy>> # <<store.url, base.edit, base.liveness>>
              /\ SaveTyped(url, [base EXCEPT !.edit = edit,
                                             !.liveness = policy])
    /\ UNCHANGED <<polls, screen>>

\* A host's screen comes or goes; the task that focuses runs later.
ScreenChange(host) ==
    \E e \in ScreenTask :
        /\ Mobile /\ Between /\ edits[e] = None
        /\ screen' = host
        /\ edits' = [edits EXCEPT ![e] =
                        [op |-> "focus", at |-> "starting", arg |-> host,
                         session |-> NoSession, view |-> None]]
        /\ app' = Enqueued(app, [job |-> "focus", editor |-> e])
        /\ UNCHANGED <<sessions, polls, store, cache>>

OpenScreen ==
    /\ screen = None /\ app.fleet # None
    /\ \E host \in app.fleet.known : ScreenChange(host)

CloseScreen == screen # None /\ ScreenChange(None)

Forgetting(e) == edits[e] # None /\ edits[e].op = "forget"

\* "Forget this host", on its screen: `forgetHost` up to its await.
ForgetHost ==
    \E e \in ScreenTask :
        /\ Mobile /\ Between /\ edits[e] = None
        /\ screen # None /\ app.session # NoSession
        /\ ~\E d \in ScreenTask : Forgetting(d)
        /\ edits' = [edits EXCEPT ![e] =
                        [op |-> "forget", at |-> "called", arg |-> screen,
                         session |-> app.session, view |-> None]]
        /\ UNCHANGED <<app, sessions, polls, store, cache, screen>>

\* The process ends, and the app is launched again over what is on disk; the
\* macOS app writes the cache when it is quit, a kill gives it no chance to.
Relaunch ==
    /\ app # Launched
    /\ app' = Launched
    /\ sessions' = <<>>
    /\ polls' = [t \in Task |-> None]
    /\ edits' = [e \in Editor |-> None]
    /\ \E locked \in BOOLEAN :
          /\ locked => store.url # None
          /\ store' = [store EXCEPT !.locked = locked, !.accepted = None]
    /\ cache' \in {cache} \cup
                  (IF Mobile THEN {} ELSE {Persisted(app, sessions, cache)})
    /\ screen' = None

-----------------------------------------------------------------------------
Init ==
    /\ app = Launched
    /\ sessions = <<>>
    /\ polls = [t \in Task |-> None]
    /\ edits = [e \in Editor |-> None]
    /\ store \in [url : Url \cup {None}, locked : BOOLEAN,
                  edit : Edit, accepted : {None}]
    /\ store.locked => store.url # None
    /\ \/ cache = None
       \/ \E url \in Url : cache = [url |-> url, known |-> HostsAt(url)]
    /\ screen = None

CallStep ==
    \/ \E t \in Task :
          SkipPoll(t) \/ BeginPoll(t) \/ FoldPoll(t) \/ DeliverPoll(t)
    \/ \E e \in Editor : RequestLock(e) \/ StoreEdit(e) \/ DeliverEdit(e)

Outside ==
    \/ Reload \/ SettingsChange \/ ConsentChange \/ Refresh
    \/ Background \/ Foreground \/ Wake
    \/ Save \/ OpenScreen \/ CloseScreen \/ ForgetHost \/ Relaunch

Next == RunMain \/ CallStep \/ DeadlinePasses \/ WakeTimer \/ Outside

Spec == Init /\ [][Next]_vars

\* The main queue is drained, time passes and timers wake, and every call into
\* Rust ends: its requests carry a timeout.  Nobody has to press anything.
FairSpec ==
    /\ Spec
    /\ WF_vars(RunMain) /\ WF_vars(DeadlinePasses) /\ WF_vars(WakeTimer)
    /\ \A t \in Task :
          WF_vars(SkipPoll(t) \/ BeginPoll(t) \/ FoldPoll(t) \/ DeliverPoll(t))
    /\ \A e \in Editor :
          WF_vars(RequestLock(e) \/ StoreEdit(e) \/ DeliverEdit(e))

-----------------------------------------------------------------------------
(***************************************************************************)
(* Correctness                                                             *)
(***************************************************************************)
TypeOK ==
    /\ app \in Fields /\ app.session \in 0..Len(sessions)
    /\ sessions \in Seq(Handle)
    /\ polls \in [Task -> PollCall \cup {None}]
    /\ edits \in [Editor -> EditCall \cup {None}]
    /\ store \in Store
    /\ cache \in [url : Url, known : SUBSET Host] \cup {None}
    /\ screen \in Host \cup {None}

\* The polls of session n that have been started and not yet answered to the
\* model: a body to run, a call in Rust, an answer to take.
PollsOf(n) ==
    {j \in Jobs : j.job \in {"body", "answer"} /\ j.session = n}
        \cup {t \in Task : polls[t] # None /\ polls[t].session = n}

Applying(n) ==
    \E e \in Editor : /\ edits[e] # None /\ ~Forgetting(e)
                      /\ edits[e].session = n

\* One clock: at most one timer is alive, and none while the model is
\* suspended, stopped or without a session (`arm`, `suspend`, `apply`).
OneClock ==
    /\ Cardinality(app.timers) <= 1
    /\ app.timers # {} => /\ app.session # NoSession
                          /\ ~app.isSuspended
                          /\ app.pollingState # "stopped"

\* The session in force never has two polls at once: whoever asks for a second
\* one joins the first, across every re-entry of the main actor (`poll`).
OnePollAtATime ==
    app.session # NoSession => Cardinality(PollsOf(app.session)) <= 1

\* The loop is one loop: one clock, and one poll of the session in force, in
\* every state it can be brought to.
OneLoop == TypeOK /\ OneClock /\ OnePollAtATime

\* The fleet on screen is the session's own, and there is one exactly when
\* there is a session (`execute`'s identity check; the comment on `fleet`).
ShownIsCurrent ==
    IF app.session = NoSession
    THEN app.fleet = None
    ELSE app.fleet # None /\ app.fleet.of = app.session

\* No session remembers a host its backend never had, whatever was carried
\* over from the session before it or from the cache (`reloadSettings`).
NoForeignHosts ==
    \A n \in 1..Len(sessions) :
        sessions[n].core.state.known \subseteq HostsAt(sessions[n].url)

\* With a session in force, the cache on disk is about its backend: the file
\* names no URL, so a rebuild that reads it relies on that (`reloadSettings`).
CacheIsOfTheBackend ==
    app.session # NoSession /\ cache # None => cache.url = app.connection

\* Hosts belong to a backend: neither a session nor the cache a rebuild reads
\* holds hosts of another than the one it is used with (`reloadSettings`).
HostsOfTheBackend == NoForeignHosts /\ CacheIsOfTheBackend

\* A stop outlives everything but the poll of a user who asks, and the session:
\* no wake, resume, timer or Save puts the model back to work (`arm`).
StopIsTheUsersToLift ==
    [][app.pollingState = "stopped" /\ app'.session = app.session
           => app'.pollingState \in {"stopped", "polling"}]_vars

\* While it should be polling, the model has a timer alive or a poll of its
\* session to come back: it never waits for something nobody will do (`adopt`).
ClockKeepsRunning ==
    app.session # NoSession /\ ~app.isSuspended /\ app.pollingState # "stopped"
        => app.timers # {} \/ PollsOf(app.session) # {}

\* The configuration the model names is the one its session runs, once no change
\* of it is on its way.
NamesWhatRuns ==
    app.session # NoSession /\ ~Applying(app.session)
        => app.config = sessions[app.session].core.config

\* A change that was accepted, by a session that has been replaced since, or, in
\* the iOS app, whose focus and Save may overlap, that accepted another since.
Overtaken(e) ==
    /\ EditAt(e, "queued") /\ ~Forgetting(e)
    /\ \/ edits[e].session # app.session
       \/ Mobile /\ edits[e].arg # sessions[edits[e].session].core.config

\* `config` is the configuration "the running session was built with or last
\* accepted" (FleetModel.swift:103-104), which the source says without condition
\* and the model does not keep: the model comes to name a configuration its
\* session does not run at the end of a change that was overtaken, a Save that a
\* replacement of the session or, in the iOS app, a focus overtook, which
\* `applyConfig` takes for the one in force without asking.  It does so at the
\* end of no other change, and in no other step.
ConfigInForce ==
    [][NamesWhatRuns /\ ~NamesWhatRuns' => \E e \in Editor : Overtaken(e)]_vars

\* A model left alone with a session, neither suspended nor stopped, goes on
\* polling.
KeepsPolling ==
    <>[](/\ app.session # NoSession /\ ~app.isSuspended
         /\ app.pollingState # "stopped"
         /\ \A e \in Editor : edits[e] = None)
        => []<>(\E t \in Task : PollAt(t, "answered"))
=============================================================================
