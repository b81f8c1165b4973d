-------------------------- MODULE FleetModelProofs --------------------------
(***************************************************************************)
(* The poll loop, for any backends, hosts, settings, callers and bounds:   *)
(* one timer and one poll of the session in force, a stop that only a user *)
(* lifts, hosts that stay with their backend; and, in the macOS app, a     *)
(* screen that shows the session in force and a clock that never runs dry. *)
(*                                                                         *)
(* The predicates below take the fields, the queue, the calls and the      *)
(* sessions as arguments: a step of the model is a chain of methods, and   *)
(* each method has a lemma saying what it keeps.                           *)
(***************************************************************************)
EXTENDS FleetModel, FiniteSetTheorems, SequenceTheorems, TLAPS

-----------------------------------------------------------------------------
(***************************************************************************)
(* The calls: where each task and each editor is, and what it carries.     *)
(***************************************************************************)
TaskJobs == {"body", "answer", "done"}
EditJobs == {"focus", "edited"}

\* A task, and an editor, has at most one job, and a task with a job has no
\* call: it is in one place.
Apart(q, pl) ==
    /\ \A i, j \in 1..Len(q) :
           i # j =>
           /\ q[i].job \in TaskJobs /\ q[j].job \in TaskJobs
                  => q[i].task # q[j].task
           /\ q[i].job \in EditJobs /\ q[j].job \in EditJobs
                  => q[i].editor # q[j].editor
    /\ \A i \in 1..Len(q) : q[i].job \in TaskJobs => pl[q[i].task] = None

\* What stands behind a call, or a job, while there are n sessions.
PollStands(call, n) ==
    call # None =>
        /\ call.session \in 1..n
        /\ call.at = "answered" => /\ call.answer \in PollAnswer
                                   /\ call.answer.view.of = call.session

EditStands(call, n) ==
    call # None =>
        /\ call.at = "starting" =>
               /\ call.op = "focus" /\ call.arg \in Host \cup {None}
               /\ call.session = NoSession
        /\ call.at # "starting" =>
               /\ call.session \in 1..n
               /\ call.op = "forget" => call.arg \in Host
               /\ call.op # "forget" => call.arg \in Config
        /\ call.at \in {"stored", "queued"} => call.view \in View

JobStands(job, n, ed) ==
    /\ job.job \in {"body", "answer"} => job.session \in 1..n
    /\ job.job = "answer" => job.answer.view.of = job.session
    /\ job.job = "focus" =>
           ed[job.editor] # None /\ ed[job.editor].at = "starting"
    /\ job.job = "edited" =>
           ed[job.editor] # None /\ ed[job.editor].at = "queued"

Calls(q, n, pl, ed) ==
    /\ q \in Seq(MainJob) /\ n \in Nat
    /\ pl \in [Task -> PollCall \cup {None}]
    /\ ed \in [Editor -> EditCall \cup {None}]
    /\ Apart(q, pl)
    /\ \A t \in Task : PollStands(pl[t], n)
    /\ \A e \in Editor : EditStands(ed[e], n)
    /\ \A i \in 1..Len(q) : JobStands(q[i], n, ed)

NoJobOfTask(q, t) ==
    \A i \in 1..Len(q) : q[i].job \in TaskJobs => q[i].task # t

NoJobOfEditor(q, e) ==
    \A i \in 1..Len(q) : q[i].job \in EditJobs => q[i].editor # e

-----------------------------------------------------------------------------
(* The queue.                                                              *)

\* What a job carries, read off its kind.
LEMMA JobType ==
    ASSUME NEW j \in MainJob
    PROVE  /\ j.job \in {"body", "answer", "done", "timer"} \cup EditJobs
           /\ j.job \in TaskJobs => j.task \in Task
           /\ j.job \in {"body", "answer"} => j.session \in Nat
           /\ j.job = "answer" => j.answer \in PollAnswer
           /\ j.job = "timer" => j.timer \in Nat
           /\ j.job \in EditJobs => j.editor \in Editor
BY DEF MainJob, TaskJobs, EditJobs

\* The queue without its head.
LEMMA PoppedQueue ==
    ASSUME NEW q \in Seq(MainJob), q # <<>>
    PROVE  /\ Head(q) = q[1] /\ Head(q) \in MainJob
           /\ Tail(q) \in Seq(MainJob) /\ Len(q) \in Nat \ {0}
           /\ Len(Tail(q)) = Len(q) - 1
           /\ \A i \in 1..Len(Tail(q)) : i + 1 \in 1..Len(q) /\ Tail(q)[i] = q[i + 1]
BY HeadTailProperties, EmptySeq

\* The queue with one more job at its end.
LEMMA PushedQueue ==
    ASSUME NEW q \in Seq(MainJob), NEW j \in MainJob
    PROVE  /\ Append(q, j) \in Seq(MainJob) /\ Len(q) \in Nat
           /\ Len(Append(q, j)) = Len(q) + 1
           /\ \A i \in 1..Len(q) : Append(q, j)[i] = q[i]
           /\ Append(q, j)[Len(q) + 1] = j
           /\ \A i \in 1..Len(Append(q, j)) : i \in 1..Len(q) \/ i = Len(q) + 1
BY AppendProperties

\* One more session stands behind whatever stood before.
LEMMA CallsGrow ==
    ASSUME NEW q, NEW n, NEW pl, NEW ed, Calls(q, n, pl, ed),
           NEW m \in Nat, n <= m
    PROVE  Calls(q, m, pl, ed)
<1>1. \A k \in 1..n : k \in 1..m
  BY DEF Calls
<1>2. \A t \in Task : PollStands(pl[t], m)
  BY <1>1 DEF Calls, PollStands
<1>3. \A e \in Editor : EditStands(ed[e], m)
  BY <1>1 DEF Calls, EditStands
<1>4. \A i \in 1..Len(q) : JobStands(q[i], m, ed)
  BY <1>1 DEF Calls, JobStands
<1> QED
  BY <1>2, <1>3, <1>4 DEF Calls

\* The head leaves; its task or its editor has no job left.
LEMMA CallsPop ==
    ASSUME NEW q, NEW n, NEW pl, NEW ed, Calls(q, n, pl, ed), q # <<>>
    PROVE  /\ Calls(Tail(q), n, pl, ed)
           /\ Head(q) \in MainJob
           /\ JobStands(Head(q), n, ed)
           /\ Head(q).job \in TaskJobs =>
                  NoJobOfTask(Tail(q), Head(q).task) /\ pl[Head(q).task] = None
           /\ Head(q).job \in EditJobs => NoJobOfEditor(Tail(q), Head(q).editor)
<1> DEFINE r == Tail(q)
<1>1. /\ Head(q) = q[1] /\ Head(q) \in MainJob
      /\ r \in Seq(MainJob) /\ Len(q) \in Nat \ {0} /\ Len(r) = Len(q) - 1
      /\ \A i \in 1..Len(r) : i + 1 \in 1..Len(q) /\ r[i] = q[i + 1]
  BY PoppedQueue DEF Calls
<1> HIDE DEF r
<1>2. 1 \in 1..Len(q) /\ \A i \in 1..Len(r) : i \in Nat /\ i + 1 # 1
  BY <1>1
<1>3. Apart(r, pl)
  <2>1. ASSUME NEW i \in 1..Len(r), NEW j \in 1..Len(r), i # j
        PROVE  /\ r[i].job \in TaskJobs /\ r[j].job \in TaskJobs
                      => r[i].task # r[j].task
               /\ r[i].job \in EditJobs /\ r[j].job \in EditJobs
                      => r[i].editor # r[j].editor
    <3>1. /\ i + 1 \in 1..Len(q) /\ j + 1 \in 1..Len(q) /\ i + 1 # j + 1
          /\ r[i] = q[i + 1] /\ r[j] = q[j + 1]
      BY <1>1, <2>1
    <3> QED
      BY <3>1 DEF Calls, Apart
  <2>2. \A i \in 1..Len(r) : r[i].job \in TaskJobs => pl[r[i].task] = None
    BY <1>1 DEF Calls, Apart
  <2> QED
    BY <2>1, <2>2 DEF Apart
<1>4. \A i \in 1..Len(r) : JobStands(r[i], n, ed)
  BY <1>1 DEF Calls
<1>5. JobStands(Head(q), n, ed)
  BY <1>1, <1>2 DEF Calls
<1>6. Head(q).job \in TaskJobs =>
          NoJobOfTask(r, Head(q).task) /\ pl[Head(q).task] = None
  BY <1>1, <1>2 DEF Calls, Apart, NoJobOfTask
<1>7. Head(q).job \in EditJobs => NoJobOfEditor(r, Head(q).editor)
  BY <1>1, <1>2 DEF Calls, Apart, NoJobOfEditor
<1> QED
  BY <1>1, <1>3, <1>4, <1>5, <1>6, <1>7 DEF Calls, r

\* A job joins the queue, of a task or an editor that has none there.
LEMMA CallsPush ==
    ASSUME NEW q, NEW n, NEW pl, NEW ed, Calls(q, n, pl, ed),
           NEW j \in MainJob, JobStands(j, n, ed),
           j.job \in TaskJobs => NoJobOfTask(q, j.task) /\ pl[j.task] = None,
           j.job \in EditJobs => NoJobOfEditor(q, j.editor)
    PROVE  Calls(Append(q, j), n, pl, ed)
<1> DEFINE r == Append(q, j)
           l == Len(q)
<1>1. /\ r \in Seq(MainJob) /\ l \in Nat /\ Len(r) = l + 1
      /\ \A i \in 1..l : r[i] = q[i]
      /\ r[l + 1] = j
      /\ \A i \in 1..Len(r) : i \in 1..l \/ i = l + 1
  BY PushedQueue DEF Calls
<1> HIDE DEF r
<1>2. Apart(r, pl)
  <2>1. ASSUME NEW i \in 1..Len(r), NEW k \in 1..Len(r), i # k
        PROVE  /\ r[i].job \in TaskJobs /\ r[k].job \in TaskJobs
                      => r[i].task # r[k].task
               /\ r[i].job \in EditJobs /\ r[k].job \in EditJobs
                      => r[i].editor # r[k].editor
    <3>1. CASE i \in 1..l /\ k \in 1..l
      BY <1>1, <2>1, <3>1 DEF Calls, Apart
    <3>2. CASE i \in 1..l /\ k = l + 1
      BY <1>1, <2>1, <3>2 DEF NoJobOfTask, NoJobOfEditor
    <3>3. CASE i = l + 1 /\ k \in 1..l
      BY <1>1, <2>1, <3>3 DEF NoJobOfTask, NoJobOfEditor
    <3> QED
      BY <1>1, <2>1, <3>1, <3>2, <3>3
  <2>2. \A i \in 1..Len(r) : r[i].job \in TaskJobs => pl[r[i].task] = None
    BY <1>1 DEF Calls, Apart
  <2> QED
    BY <2>1, <2>2 DEF Apart
<1>3. \A i \in 1..Len(r) : JobStands(r[i], n, ed)
  BY <1>1 DEF Calls
<1> QED
  BY <1>1, <1>2, <1>3 DEF Calls, r

\* A task without a job makes, continues or leaves its call.
LEMMA CallsPoll ==
    ASSUME NEW q, NEW n, NEW pl, NEW ed, Calls(q, n, pl, ed),
           NEW t \in Task, NEW call \in PollCall \cup {None},
           NoJobOfTask(q, t), PollStands(call, n)
    PROVE  Calls(q, n, [pl EXCEPT ![t] = call], ed)
<1> DEFINE p == [pl EXCEPT ![t] = call]
<1>1. /\ p \in [Task -> PollCall \cup {None}] /\ p[t] = call
      /\ \A u \in Task : u # t => p[u] = pl[u]
  BY DEF Calls
<1> HIDE DEF p
<1>2. \A i \in 1..Len(q) : q[i] \in MainJob
  BY ElementOfSeq DEF Calls
<1>3. Apart(q, p)
  BY <1>1, <1>2, JobType DEF Calls, Apart, NoJobOfTask
<1>4. \A u \in Task : PollStands(p[u], n)
  BY <1>1 DEF Calls
<1> QED
  BY <1>1, <1>3, <1>4 DEF Calls, p

\* An editor without a job makes, continues or leaves its call.
LEMMA CallsEdit ==
    ASSUME NEW q, NEW n, NEW pl, NEW ed, Calls(q, n, pl, ed),
           NEW e \in Editor, NEW call \in EditCall \cup {None},
           NoJobOfEditor(q, e), EditStands(call, n)
    PROVE  Calls(q, n, pl, [ed EXCEPT ![e] = call])
<1> DEFINE f == [ed EXCEPT ![e] = call]
<1>1. /\ f \in [Editor -> EditCall \cup {None}] /\ f[e] = call
      /\ \A d \in Editor : d # e => f[d] = ed[d]
  BY DEF Calls
<1> HIDE DEF f
<1>2. \A i \in 1..Len(q) : q[i] \in MainJob
  BY ElementOfSeq DEF Calls
<1>3. \A i \in 1..Len(q) : JobStands(q[i], n, f)
  BY <1>1, <1>2, JobType DEF Calls, JobStands, NoJobOfEditor, EditJobs
<1>4. \A d \in Editor : EditStands(f[d], n)
  BY <1>1 DEF Calls
<1> QED
  BY <1>1, <1>3, <1>4 DEF Calls, f

\* An editor with no call, or with one that is not on the queue, has no job.
LEMMA EditorHasNoJob ==
    ASSUME NEW q, NEW n, NEW pl, NEW ed, Calls(q, n, pl, ed), NEW e \in Editor,
           ed[e] # None => ed[e].at \notin {"starting", "queued"}
    PROVE  NoJobOfEditor(q, e)
BY DEF Calls, JobStands, NoJobOfEditor, EditJobs

\* A task that awaits an answer has no job.
LEMMA TaskHasNoJob ==
    ASSUME NEW q, NEW n, NEW pl, NEW ed, Calls(q, n, pl, ed), NEW t \in Task,
           pl[t] # None
    PROVE  NoJobOfTask(q, t)
BY DEF Calls, Apart, NoJobOfTask

-----------------------------------------------------------------------------
(***************************************************************************)
(* The clock: what the methods of the model do to its timer.               *)
(***************************************************************************)

\* One timer at most, the one the model knows; and none while the model is
\* suspended, stopped or without a session.
Clock(a) ==
    /\ a.timers \subseteq {a.timerTask}
    /\ a.timers # {} => /\ a.session # NoSession
                        /\ ~a.isSuspended
                        /\ a.pollingState # "stopped"

\* What a method that only sets the clock leaves alone.
Kept(a, b) ==
    /\ b.session = a.session /\ b.connection = a.connection
    /\ b.config = a.config /\ b.sessionState = a.sessionState
    /\ b.isSuspended = a.isSuspended /\ b.fleet = a.fleet
    /\ b.pollTask = a.pollTask /\ b.jobs = a.jobs

\* A timer that is set is none of those already queued.
FreshTimers(a, b) == \A i \in b.timers : i \notin QueuedTimers(a)

\* A model with somewhere to go and a time to go there is on its way.
OnItsWay(b) ==
    b.session # NoSession /\ ~b.isSuspended /\ b.nextPollAt # None
    /\ b.pollingState # "stopped"
        => b.timers # {}

LEMMA UnusedIsNew ==
    ASSUME NEW used \in SUBSET Nat, IsFiniteSet(used)
    PROVE  Unused(used) \in Nat /\ Unused(used) \notin used
<1> DEFINE n == Cardinality(used)
<1>1. n \in Nat
  BY FS_CardinalityType
<1>2. IsFiniteSet(1..(n + 1)) /\ Cardinality(1..(n + 1)) = n + 1
  BY <1>1, FS_Interval
<1>3. ~(1..(n + 1) \subseteq used)
  BY <1>1, <1>2, FS_Subset
<1>4. \E i \in 1..(n + 1) : i \notin used
  BY <1>3
<1> QED
  BY <1>1, <1>4 DEF Unused

LEMMA QueuedTimersFinite ==
    ASSUME NEW a \in Fields
    PROVE  IsFiniteSet(QueuedTimers(a)) /\ QueuedTimers(a) \in SUBSET Nat
<1> DEFINE K == {k \in 1..Len(a.jobs) : a.jobs[k].job = "timer"}
           f == [k \in K |-> a.jobs[k].timer]
<1>1. a.jobs \in Seq(MainJob) /\ Len(a.jobs) \in Nat
  BY LenProperties DEF Fields
<1>2. IsFiniteSet(K)
  <2>1. K \in SUBSET (1..Len(a.jobs))
    OBVIOUS
  <2>2. ASSUME NEW n \in Nat PROVE IsFiniteSet(1..n)
    BY <2>2, FS_Interval
  <2> HIDE DEF K
  <2> QED
    BY <1>1, <2>1, <2>2, FS_Subset
<1>3. f \in Surjection(K, QueuedTimers(a))
  BY DEF Surjection, QueuedTimers
<1>4. IsFiniteSet(QueuedTimers(a))
  BY <1>2, <1>3, FS_Surjection
<1>5. \A k \in K : a.jobs[k].timer \in Nat
  BY <1>1, ElementOfSeq, JobType
<1>6. QueuedTimers(a) \subseteq Nat
  BY <1>5, Zenon DEF QueuedTimers
<1> QED
  BY <1>4, <1>6

\* A timer is cancelled, and the model knows none.
LEMMA TimerCancelled ==
    ASSUME NEW a \in Fields, a.timers \subseteq {a.timerTask}
    PROVE  /\ CancelTimer(a) \in Fields /\ Kept(a, CancelTimer(a))
           /\ CancelTimer(a).timers = {} /\ CancelTimer(a).timerTask = 0
           /\ CancelTimer(a).pollingState = a.pollingState
           /\ CancelTimer(a).nextPollAt = a.nextPollAt
BY DEF CancelTimer, Fields, Kept

\* `arm`.
LEMMA ArmSets ==
    ASSUME NEW a \in Fields, Clock(a)
    PROVE  /\ Arm(a) \in Fields /\ Kept(a, Arm(a)) /\ Clock(Arm(a))
           /\ Arm(a).nextPollAt = a.nextPollAt
           /\ Arm(a).pollingState = "stopped" <=> a.pollingState = "stopped"
           /\ a.pollingState # "stopped" =>
                  FreshTimers(a, Arm(a)) /\ OnItsWay(Arm(a))
           /\ a.pollingState = "stopped" => Arm(a) = a
<1> DEFINE c == CancelTimer(a)
           b == [c EXCEPT !.pollingState = ArmedState(a)]
           t == NewTimer(b)
<1>1. /\ c \in Fields /\ Kept(a, c) /\ c.timers = {} /\ c.timerTask = 0
      /\ c.nextPollAt = a.nextPollAt
  BY TimerCancelled DEF Clock
<1> HIDE DEF c
<1>2. ArmedState(a) \in {"idle", "suspended", "scheduled"}
  BY DEF ArmedState
<1>3. /\ b \in Fields /\ Kept(a, b) /\ b.timers = {} /\ b.timerTask = 0
      /\ b.nextPollAt = a.nextPollAt /\ b.pollingState = ArmedState(a)
  BY <1>1, <1>2 DEF Fields, Kept, PollingState
<1> HIDE DEF b
<1>4. t \in Nat /\ t \notin QueuedTimers(a)
  <2>1. QueuedTimers(b) = QueuedTimers(a)
    BY <1>3 DEF QueuedTimers, Kept
  <2>2. /\ IsFiniteSet(b.timers \cup QueuedTimers(b))
        /\ b.timers \cup QueuedTimers(b) \in SUBSET Nat
    BY <1>3, QueuedTimersFinite
  <2> QED
    BY <2>1, <2>2, UnusedIsNew DEF NewTimer
<1> HIDE DEF t
<1>5. CASE a.pollingState = "stopped"
  <2>1. Arm(a) = a
    BY <1>5 DEF Arm
  <2> QED
    BY <1>5, <2>1 DEF Kept
<1>6. CASE a.pollingState # "stopped" /\ ArmedState(a) # "scheduled"
  <2>1. Arm(a) = b
    BY <1>3, <1>6 DEF Arm, b, c
  <2>2. ~(/\ a.session # NoSession /\ ~a.isSuspended /\ a.nextPollAt # None)
    BY <1>6 DEF ArmedState
  <2> QED
    BY <1>2, <1>3, <1>6, <2>1, <2>2 DEF Clock, FreshTimers, OnItsWay, Kept
<1>7. CASE a.pollingState # "stopped" /\ ArmedState(a) = "scheduled"
  <2> DEFINE d == [b EXCEPT !.timerTask = t, !.timers = @ \cup {t}]
  <2>1. Arm(a) = d
    BY <1>3, <1>7 DEF Arm, b, c, t
  <2>2. /\ d \in Fields /\ Kept(a, d) /\ d.timers = {t} /\ d.timerTask = t
        /\ d.nextPollAt = a.nextPollAt /\ d.pollingState = "scheduled"
    BY <1>3, <1>4, <1>7 DEF Fields, Kept
  <2> HIDE DEF d
  <2>3. a.session # NoSession /\ ~a.isSuspended
    BY <1>7 DEF ArmedState
  <2> QED
    BY <1>4, <1>7, <2>1, <2>2, <2>3 DEF Clock, FreshTimers, OnItsWay, Kept
<1> QED
  BY <1>5, <1>6, <1>7

\* `pollNow` and its like: the deadline is now, where the model is not stopped.
LEMMA PollSoonSets ==
    ASSUME NEW a \in Fields, Clock(a)
    PROVE  /\ PollSoon(a) \in Fields /\ Kept(a, PollSoon(a))
           /\ Clock(PollSoon(a))
           /\ PollSoon(a).pollingState = "stopped" <=> a.pollingState = "stopped"
           /\ a.pollingState # "stopped" =>
                  /\ PollSoon(a).nextPollAt # None
                  /\ FreshTimers(a, PollSoon(a)) /\ OnItsWay(PollSoon(a))
           /\ a.pollingState = "stopped" => PollSoon(a) = a
<1> DEFINE b == [a EXCEPT !.nextPollAt = "due"]
<1>1. /\ b \in Fields /\ Kept(a, b) /\ Clock(b) /\ b.nextPollAt = "due"
      /\ b.pollingState = a.pollingState /\ b.timers = a.timers
  BY DEF Fields, Kept, Clock
<1>2. QueuedTimers(b) = QueuedTimers(a)
  BY <1>1 DEF QueuedTimers, Kept
<1> HIDE DEF b
<1>3. CASE a.pollingState = "stopped"
  BY <1>3 DEF PollSoon, Kept
<1>4. CASE a.pollingState # "stopped"
  <2>1. PollSoon(a) = Arm(b)
    BY <1>4 DEF PollSoon, b
  <2>2. /\ Arm(b) \in Fields /\ Kept(b, Arm(b)) /\ Clock(Arm(b))
        /\ Arm(b).nextPollAt = "due" /\ FreshTimers(b, Arm(b))
        /\ Arm(b).pollingState # "stopped" /\ OnItsWay(Arm(b))
    BY <1>1, <1>4, ArmSets
  <2>3. Kept(a, Arm(b)) /\ FreshTimers(a, Arm(b))
    BY <1>1, <1>2, <2>2 DEF Kept, FreshTimers
  <2> QED
    BY <1>4, <2>1, <2>2, <2>3, FleetModelAssumption
<1> QED
  BY <1>3, <1>4

\* What the model has done about the advice of a poll: it has stopped, or it is
\* on its way again.
Obeyed(a, b, advice) ==
    /\ b \in Fields /\ Kept(a, b) /\ Clock(b) /\ FreshTimers(a, b)
    /\ b.pollingState = "stopped" <=> advice = "halt"
    /\ b.pollingState # "stopped" => b.nextPollAt # None /\ OnItsWay(b)

\* `apply(advice:)`.
LEMMA ObeySets ==
    ASSUME NEW a \in Fields, Clock(a), NEW advice \in Advice
    PROVE  Obeyed(a, Obey(a, advice), advice)
<1>1. CASE advice = "halt"
  <2> DEFINE c == CancelTimer(a)
             b == [c EXCEPT !.nextPollAt = None, !.pollingState = "stopped"]
  <2>1. c \in Fields /\ Kept(a, c) /\ c.timers = {}
    BY TimerCancelled DEF Clock
  <2> HIDE DEF c
  <2>2. /\ b \in Fields /\ Kept(a, b) /\ b.timers = {}
        /\ b.pollingState = "stopped"
    BY <2>1 DEF Fields, Kept, PollingState
  <2>3. Obey(a, advice) = b
    BY <1>1 DEF Obey, c
  <2> QED
    BY <1>1, <2>2, <2>3 DEF Obeyed, Clock, FreshTimers
<1>2. CASE advice # "halt"
  <2> DEFINE d == IF advice = "now" THEN "due" ELSE "later"
             s == IF a.pollingState = "stopped" THEN "idle" ELSE a.pollingState
             b == [a EXCEPT !.nextPollAt = d, !.pollingState = s]
  <2>1. d \in {"due", "later"} /\ s \in PollingState /\ s # "stopped"
    BY DEF PollingState, Fields
  <2>2. Obey(a, advice) = Arm(b)
    BY <1>2 DEF Obey
  <2> HIDE DEF d, s
  <2>3. /\ b \in Fields /\ Kept(a, b) /\ b.nextPollAt = d
        /\ b.pollingState = s /\ b.timers = a.timers
        /\ b.timerTask = a.timerTask
    BY <2>1 DEF Fields, Kept
  <2>4. QueuedTimers(b) = QueuedTimers(a) /\ Clock(b)
    BY <2>1, <2>3 DEF QueuedTimers, Kept, Clock
  <2> HIDE DEF b
  <2>5. /\ Arm(b) \in Fields /\ Kept(b, Arm(b)) /\ Clock(Arm(b))
        /\ Arm(b).nextPollAt = d /\ FreshTimers(b, Arm(b))
        /\ Arm(b).pollingState # "stopped" /\ OnItsWay(Arm(b))
    BY <2>1, <2>3, <2>4, ArmSets
  <2>6. Kept(a, Arm(b)) /\ FreshTimers(a, Arm(b))
    BY <2>3, <2>4, <2>5 DEF Kept, FreshTimers
  <2> QED
    BY <1>2, <2>1, <2>2, <2>5, <2>6, FleetModelAssumption DEF Obeyed
<1> QED
  BY <1>1, <1>2

\* The session is gone, and what was about it.
TornDown(a, b) ==
    /\ b \in Fields /\ b.session = NoSession /\ b.connection = None
    /\ b.fleet = None /\ b.pollTask = None /\ b.timers = {}
    /\ b.nextPollAt = None /\ b.pollingState = "idle"
    /\ b.jobs = a.jobs /\ b.isSuspended = a.isSuspended

LEMMA TeardownClears ==
    ASSUME NEW a \in Fields, a.timers \subseteq {a.timerTask}
    PROVE  TornDown(a, Teardown(a))
<1> DEFINE c == CancelTimer(a)
<1>1. c \in Fields /\ Kept(a, c) /\ c.timers = {}
  BY TimerCancelled
<1> HIDE DEF c
<1> DEFINE b == [c EXCEPT !.pollTask = None, !.session = NoSession,
                          !.connection = None, !.fleet = None,
                          !.nextPollAt = None, !.pollingState = "idle"]
<1>2. /\ b \in Fields /\ b.session = NoSession /\ b.connection = None
      /\ b.fleet = None /\ b.pollTask = None /\ b.nextPollAt = None
      /\ b.pollingState = "idle" /\ b.timers = c.timers
      /\ b.jobs = c.jobs /\ b.isSuspended = c.isSuspended
  BY <1>1 DEF Fields, PollingState, NoSession
<1>3. Teardown(a) = b
  BY DEF Teardown, c
<1> HIDE DEF b
<1> QED
  BY <1>1, <1>2, <1>3 DEF TornDown, Kept

\* Another session has taken the place of whatever there was, and polls soon.
Renewed(a, b, n, handle) ==
    /\ b \in Fields /\ b.session = n /\ b.connection = handle.url
    /\ b.config = handle.core.config /\ b.fleet = ViewOf(n, handle.core)
    /\ b.pollTask = None /\ b.sessionState = "ready"
    /\ b.jobs = a.jobs /\ b.isSuspended = a.isSuspended
    /\ b.pollingState # "stopped" /\ b.nextPollAt # None
    /\ Clock(b) /\ FreshTimers(a, b) /\ OnItsWay(b)

LEMMA ViewType ==
    ASSUME NEW n \in Nat, NEW core \in Session
    PROVE  ViewOf(n, core) \in View /\ ViewOf(n, core).of = n
BY DEF ViewOf, View, Session, FleetState

LEMMA AdoptRenews ==
    ASSUME NEW a \in Fields, a.timers \subseteq {a.timerTask},
           NEW n \in Nat, NEW handle \in Handle
    PROVE  Renewed(a, PollSoon(Adopt(a, n, handle)), n, handle)
<1> DEFINE c == CancelTimer(a)
           b == Adopt(a, n, handle)
           v == ViewOf(n, handle.core)
<1>1. /\ c \in Fields /\ Kept(a, c) /\ c.timers = {} /\ c.timerTask = 0
  BY TimerCancelled
<1>2. v \in View /\ handle.url \in Url /\ handle.core.config \in Config
  BY ViewType DEF Handle, Session
<1>3. b = [c EXCEPT !.pollTask = None, !.session = n,
                    !.connection = handle.url, !.config = handle.core.config,
                    !.fleet = v, !.sessionState = "ready",
                    !.pollingState = "idle"]
  BY DEF Adopt
<1> HIDE DEF c, b, v
<1>4. /\ b \in Fields /\ b.session = n /\ b.connection = handle.url
      /\ b.config = handle.core.config /\ b.fleet = v
      /\ b.pollTask = None /\ b.sessionState = "ready"
      /\ b.jobs = a.jobs /\ b.isSuspended = a.isSuspended
      /\ b.pollingState = "idle" /\ b.timers = {}
  BY <1>1, <1>2, <1>3 DEF Fields, Kept, PollingState
<1>5. Clock(b) /\ QueuedTimers(b) = QueuedTimers(a)
  BY <1>4 DEF Clock, QueuedTimers
<1>6. /\ PollSoon(b) \in Fields /\ Kept(b, PollSoon(b)) /\ Clock(PollSoon(b))
      /\ PollSoon(b).pollingState # "stopped" /\ FreshTimers(b, PollSoon(b))
      /\ PollSoon(b).nextPollAt # None /\ OnItsWay(PollSoon(b))
  BY <1>4, <1>5, PollSoonSets
<1>7. FreshTimers(a, PollSoon(b))
  BY <1>4, <1>5, <1>6 DEF FreshTimers
<1> QED
  BY <1>4, <1>6, <1>7 DEF Renewed, Kept, b, v

-----------------------------------------------------------------------------
(***************************************************************************)
(* reloadSettings: it changes nothing, takes the session down, or puts     *)
(* another in its place.                                                   *)
(***************************************************************************)
LEMMA StoredConfigType ==
    ASSUME NEW st \in Store
    PROVE  StoredConfig(st) \in Config
BY FleetModelAssumption DEF StoredConfig, Store

LEMMA SavedType ==
    ASSUME NEW st \in Store, NEW config \in Config
    PROVE  Saved(st, config) \in Store
BY FleetModelAssumption DEF Saved, Store

LEMMA RetriedType ==
    ASSUME NEW st \in Store, NEW retried \in Retried(st)
    PROVE  retried \in Store
BY DEF Retried, Store

LEMMA NewSessionType ==
    ASSUME NEW config \in Config, NEW known \in SUBSET Host
    PROVE  /\ NewSession(config, known) \in Session
           /\ NewSession(config, known).config = config
           /\ NewSession(config, known).state.known = known
BY DEF NewSession, Session, Restored, FleetState

\* What the state cache can be.
Cached == [url : Url, known : SUBSET Host] \cup {None}

LEMMA HostsOfType ==
    ASSUME NEW ss \in Seq(Handle), NEW a, a.session \in 0..Len(ss),
           NEW saved \in Cached
    PROVE  HostsOf(a, ss, saved) \in SUBSET Host
<1>1. a.session # NoSession => ss[a.session] \in Handle
  BY ElementOfSeq DEF NoSession
<1> QED
  BY <1>1 DEF HostsOf, Cached, Handle, Session, FleetState

LEMMA PersistedType ==
    ASSUME NEW ss \in Seq(Handle), NEW a, a.session \in 0..Len(ss),
           NEW saved \in Cached
    PROVE  Persisted(a, ss, saved) \in Cached
<1>1. a.session # NoSession => ss[a.session] \in Handle
  BY ElementOfSeq DEF NoSession
<1> QED
  BY <1>1 DEF Persisted, Cached, Handle, Session, FleetState

\* A handle joins the others.
LEMMA PushedSession ==
    ASSUME NEW ss \in Seq(Handle), NEW handle \in Handle
    PROVE  /\ Append(ss, handle) \in Seq(Handle)
           /\ Len(ss) \in Nat /\ Len(Append(ss, handle)) = Len(ss) + 1
           /\ \A n \in 1..Len(ss) : Append(ss, handle)[n] = ss[n]
           /\ Append(ss, handle)[Len(ss) + 1] = handle
           /\ \A n \in 1..Len(Append(ss, handle)) :
                  n \in 1..Len(ss) \/ n = Len(ss) + 1
BY AppendProperties, LenProperties

\* What a reload has left of the fields, the sessions and the cache.
Stayed(a, st) ==
    /\ Reloaded(a, st) = a /\ a.session # NoSession
    /\ SessionsReloaded(a, st) = sessions /\ CacheReloaded(a, st) = cache

WentDown(a, st) ==
    /\ TornDown(a, Reloaded(a, st)) /\ Reloaded(a, st).sessionState # "ready"
    /\ SessionsReloaded(a, st) = sessions /\ CacheReloaded(a, st) = cache

WasReplaced(a, st) ==
    /\ st.url \in Url \ BadUrl /\ Rebuilt(a, st) \in Handle
    /\ Renewed(a, Reloaded(a, st), Len(sessions) + 1, Rebuilt(a, st))
    /\ SessionsReloaded(a, st) = Append(sessions, Rebuilt(a, st))
    /\ CacheReloaded(a, st) = IF a.connection # st.url THEN None ELSE cache
    /\ Rebuilt(a, st).url = st.url
    /\ Rebuilt(a, st).core.state.known =
           IF a.connection = st.url THEN HostsOf(a, sessions, cache) ELSE {}

\* A session is of a backend core accepts.
Connected(a) == a.session # NoSession => a.connection \in Url \ BadUrl

LEMMA ReloadCases ==
    ASSUME sessions \in Seq(Handle), cache \in Cached,
           NEW a \in Fields, a.timers \subseteq {a.timerTask}, Connected(a),
           a.session \in 0..Len(sessions), NEW st \in Store
    PROVE  Stayed(a, st) \/ WentDown(a, st) \/ WasReplaced(a, st)
<1> DEFINE c == ConnectionOf(st)
           h == Rebuilt(a, st)
           down == Teardown(a)
<1>1. c \in Url \cup {None} /\ (c # None => c = st.url)
  BY DEF ConnectionOf, Store
<1>2. TornDown(a, down)
  BY TeardownClears
<1>3. ASSUME NEW s \in {"unconfigured", "unusable"}
      PROVE  /\ TornDown(a, [down EXCEPT !.sessionState = s])
             /\ [down EXCEPT !.sessionState = s].sessionState # "ready"
  BY <1>2 DEF TornDown, Fields
<1> HIDE DEF down
<1>4. /\ BadUrl \subseteq Url /\ None \notin Url
      /\ c \in BadUrl \cup {None} => ~Unchanged(a, st)
  BY FleetModelAssumption DEF Unchanged, Connected
<1>5. CASE c = None
  <2>1. ~Rebuilds(a, st)
    BY <1>5 DEF Rebuilds
  <2>2. Reloaded(a, st) = [down EXCEPT !.sessionState = "unconfigured"]
    BY <1>4, <1>5, <2>1 DEF Reloaded, down
  <2> QED
    BY <1>3, <2>1, <2>2 DEF WentDown, SessionsReloaded, CacheReloaded
<1>6. CASE c \in BadUrl
  <2>1. ~Rebuilds(a, st)
    BY <1>6 DEF Rebuilds
  <2>2. Reloaded(a, st) = [down EXCEPT !.sessionState = "unusable"]
    BY <1>4, <1>6, <2>1 DEF Reloaded, down
  <2> QED
    BY <1>3, <2>1, <2>2 DEF WentDown, SessionsReloaded, CacheReloaded
<1>7. CASE c \notin BadUrl \cup {None} /\ Unchanged(a, st)
  <2>1. ~Rebuilds(a, st) /\ a.session # NoSession
    BY <1>7 DEF Rebuilds, Unchanged
  <2>2. Reloaded(a, st) = a
    BY <1>7, <2>1 DEF Reloaded
  <2> QED
    BY <2>1, <2>2 DEF Stayed, SessionsReloaded, CacheReloaded
<1>8. CASE c \notin BadUrl \cup {None} /\ ~Unchanged(a, st)
  <2>1. Rebuilds(a, st)
    BY <1>8 DEF Rebuilds
  <2>2. Reloaded(a, st) = PollSoon(Adopt(a, Len(sessions) + 1, h))
    BY <1>8, <2>1 DEF Reloaded
  <2>3. c = st.url /\ st.url \in Url \ BadUrl
    BY <1>1, <1>8
  <2>4. CachedHosts(a, st) \in SUBSET Host
    BY HostsOfType DEF CachedHosts
  <2>5. /\ h \in Handle /\ h.url = st.url
        /\ h.core.state.known = CachedHosts(a, st)
    BY <2>3, <2>4, StoredConfigType, NewSessionType DEF Rebuilt, Handle
  <2>6. Len(sessions) + 1 \in Nat
    BY LenProperties
  <2> HIDE DEF h
  <2>7. Renewed(a, Reloaded(a, st), Len(sessions) + 1, h)
    BY <2>2, <2>5, <2>6, AdoptRenews
  <2> QED
    BY <2>1, <2>3, <2>5, <2>7
    DEF WasReplaced, SessionsReloaded, CacheReloaded, CachedHosts, h
<1> QED
  BY <1>5, <1>6, <1>7, <1>8

-----------------------------------------------------------------------------
(***************************************************************************)
(* The invariant of the loop, of the fields a, the sessions ss, the calls  *)
(* pl and ed and the cache sv.                                             *)
(***************************************************************************)

\* Hosts stay with their backend, in the sessions and in the cache, and the
\* model's connection is the one both are about.
Hosted(a, ss, sv) ==
    /\ \A n \in 1..Len(ss) :
           ss[n].core.state.known \subseteq HostsAt(ss[n].url)
    /\ sv # None => sv.known \subseteq HostsAt(sv.url)
    /\ a.session # NoSession => a.connection = ss[a.session].url
    /\ a.connection # None /\ sv # None => sv.url = a.connection

\* What a reload can start from: the session may have been dropped for it.
Fit(a, ss, pl, ed, sv) ==
    /\ a \in Fields /\ a.session \in 0..Len(ss)
    /\ ss \in Seq(Handle) /\ sv \in Cached
    /\ Calls(a.jobs, Len(ss), pl, ed)
    /\ a.timers \subseteq {a.timerTask} /\ Connected(a)
    /\ Hosted(a, ss, sv)

\* The polls of the session in force are those of the model's task.
OwnPoll(a, pl) ==
    /\ \A i \in 1..Len(a.jobs) :
           a.jobs[i].job \in {"body", "answer"} =>
               (a.jobs[i].session = a.session <=> a.jobs[i].task = a.pollTask)
    /\ \A t \in Task :
           pl[t] # None => (pl[t].session = a.session <=> t = a.pollTask)

\* No poll of the session in force is under way or about to answer.
IsQuiet(a, pl) ==
    /\ \A t \in Task : pl[t] # None => pl[t].session # a.session
    /\ \A i \in 1..Len(a.jobs) :
           a.jobs[i].job = "answer" => a.jobs[i].session # a.session

\* Only a session stops the model, and then its polls are at most bodies that
\* have not run.
StopIsQuiet(a, pl) ==
    a.pollingState = "stopped" => a.session # NoSession /\ IsQuiet(a, pl)

Ready(a) ==
    /\ a.sessionState = "ready" <=> a.session # NoSession
    /\ a.session = NoSession => a.connection = None

Good(a, ss, pl, ed, sv) ==
    /\ Fit(a, ss, pl, ed, sv)
    /\ Clock(a) /\ Ready(a) /\ OwnPoll(a, pl) /\ StopIsQuiet(a, pl)

\* The identities a new poll may take.
Free(a, pl) ==
    {t \in Task : pl[t] = None /\ t # a.pollTask /\ NoJobOfTask(a.jobs, t)}

\* Whenever a session may be polled there is one.
CanPoll(a, pl) ==
    a.session # NoSession /\ a.pollTask = None => Free(a, pl) # {}

-----------------------------------------------------------------------------
(* What each kind of change keeps.                                         *)

\* The head of the queue leaves.
LEMMA GoodPop ==
    ASSUME NEW a, NEW ss, NEW pl, NEW ed, NEW sv, Good(a, ss, pl, ed, sv),
           a.jobs # <<>>
    PROVE  /\ Good([a EXCEPT !.jobs = Tail(@)], ss, pl, ed, sv)
           /\ Free(a, pl) \subseteq Free([a EXCEPT !.jobs = Tail(@)], pl)
<1> DEFINE b == [a EXCEPT !.jobs = Tail(@)]
           r == Tail(a.jobs)
<1>1. a \in Fields /\ a.jobs \in Seq(MainJob) /\ Calls(a.jobs, Len(ss), pl, ed)
  BY DEF Good, Fit, Fields
<1>2. /\ r \in Seq(MainJob) /\ Calls(r, Len(ss), pl, ed)
      /\ \A i \in 1..Len(r) : i + 1 \in 1..Len(a.jobs) /\ r[i] = a.jobs[i + 1]
  BY <1>1, PoppedQueue, CallsPop
<1> HIDE DEF r
<1>3. /\ b \in Fields /\ b.jobs = r /\ b.session = a.session
      /\ b.connection = a.connection /\ b.sessionState = a.sessionState
      /\ b.pollingState = a.pollingState /\ b.isSuspended = a.isSuspended
      /\ b.pollTask = a.pollTask /\ b.timers = a.timers
      /\ b.timerTask = a.timerTask
  BY <1>1, <1>2 DEF Fields, r
<1> HIDE DEF b
<1>4. Fit(b, ss, pl, ed, sv) /\ Clock(b) /\ Ready(b)
  BY <1>2, <1>3 DEF Good, Fit, Clock, Ready, Connected, Hosted
<1>5. OwnPoll(b, pl)
  BY <1>2, <1>3 DEF Good, OwnPoll
<1>6. StopIsQuiet(b, pl)
  BY <1>2, <1>3 DEF Good, StopIsQuiet, IsQuiet
<1>7. Free(a, pl) \subseteq Free(b, pl)
  BY <1>2, <1>3 DEF Free, NoJobOfTask
<1> QED
  BY <1>4, <1>5, <1>6, <1>7 DEF Good, b

\* A job joins the queue.
LEMMA GoodPush ==
    ASSUME NEW a, NEW ss, NEW pl, NEW ed, NEW sv, Good(a, ss, pl, ed, sv),
           NEW j \in MainJob, JobStands(j, Len(ss), ed),
           j.job \in TaskJobs =>
               NoJobOfTask(a.jobs, j.task) /\ pl[j.task] = None,
           j.job \in EditJobs => NoJobOfEditor(a.jobs, j.editor),
           j.job \in {"body", "answer"} =>
               (j.session = a.session <=> j.task = a.pollTask),
           j.job = "answer" /\ a.pollingState = "stopped" =>
               j.session # a.session
    PROVE  /\ Good(Enqueued(a, j), ss, pl, ed, sv)
           /\ \A t \in Free(a, pl) :
                  (j.job \in TaskJobs => t # j.task)
                      => t \in Free(Enqueued(a, j), pl)
<1> DEFINE b == Enqueued(a, j)
           r == Append(a.jobs, j)
           l == Len(a.jobs)
<1>1. a \in Fields /\ a.jobs \in Seq(MainJob) /\ Calls(a.jobs, Len(ss), pl, ed)
  BY DEF Good, Fit, Fields
<1>2. /\ r \in Seq(MainJob) /\ Calls(r, Len(ss), pl, ed)
      /\ \A i \in 1..Len(r) : (i \in 1..l /\ r[i] = a.jobs[i]) \/ r[i] = j
  BY <1>1, PushedQueue, CallsPush
<1> HIDE DEF r
<1>3. /\ b \in Fields /\ b.jobs = r /\ b.session = a.session
      /\ b.connection = a.connection /\ b.sessionState = a.sessionState
      /\ b.pollingState = a.pollingState /\ b.isSuspended = a.isSuspended
      /\ b.pollTask = a.pollTask /\ b.timers = a.timers
      /\ b.timerTask = a.timerTask
  BY <1>1, <1>2 DEF Fields, r, Enqueued
<1> HIDE DEF b
<1>4. Fit(b, ss, pl, ed, sv) /\ Clock(b) /\ Ready(b)
  BY <1>2, <1>3 DEF Good, Fit, Clock, Ready, Connected, Hosted
<1>5. OwnPoll(b, pl)
  BY <1>2, <1>3 DEF Good, OwnPoll
<1>6. StopIsQuiet(b, pl)
  BY <1>2, <1>3 DEF Good, StopIsQuiet, IsQuiet
<1>7. \A t \in Free(a, pl) :
          (j.job \in TaskJobs => t # j.task) => t \in Free(b, pl)
  BY <1>2, <1>3 DEF Free, NoJobOfTask
<1> QED
  BY <1>4, <1>5, <1>6, <1>7 DEF Good, b

\* A task makes, continues or leaves its call.
LEMMA GoodPoll ==
    ASSUME NEW a, NEW ss, NEW pl, NEW ed, NEW sv, Good(a, ss, pl, ed, sv),
           NEW t \in Task, NEW call \in PollCall \cup {None},
           NoJobOfTask(a.jobs, t), PollStands(call, Len(ss)),
           call # None => (call.session = a.session <=> t = a.pollTask),
           call # None /\ a.pollingState = "stopped" => call.session # a.session
    PROVE  Good(a, ss, [pl EXCEPT ![t] = call], ed, sv)
<1> DEFINE p == [pl EXCEPT ![t] = call]
<1>1. Calls(a.jobs, Len(ss), pl, ed)
  BY DEF Good, Fit
<1>2. p[t] = call /\ \A u \in Task : u # t => p[u] = pl[u]
  BY <1>1 DEF Calls
<1>3. Calls(a.jobs, Len(ss), p, ed)
  BY <1>1, CallsPoll
<1> HIDE DEF p
<1> QED
  BY <1>2, <1>3 DEF Good, Fit, OwnPoll, StopIsQuiet, IsQuiet, p

\* An editor makes, continues or leaves its call.
LEMMA GoodEdit ==
    ASSUME NEW a, NEW ss, NEW pl, NEW ed, NEW sv, Good(a, ss, pl, ed, sv),
           NEW e \in Editor, NEW call \in EditCall \cup {None},
           NoJobOfEditor(a.jobs, e), EditStands(call, Len(ss))
    PROVE  Good(a, ss, pl, [ed EXCEPT ![e] = call], sv)
<1>1. Calls(a.jobs, Len(ss), pl, [ed EXCEPT ![e] = call])
  BY CallsEdit DEF Good, Fit
<1> QED
  BY <1>1 DEF Good, Fit

\* What the invariant reads of the fields besides the clock.
Steady(a, b) ==
    /\ b \in Fields
    /\ b.session = a.session /\ b.connection = a.connection
    /\ b.sessionState = a.sessionState /\ b.pollTask = a.pollTask
    /\ b.jobs = a.jobs

\* The clock moves, and the fleet or the configuration may be another.
LEMMA GoodClock ==
    ASSUME NEW a, NEW ss, NEW pl, NEW ed, NEW sv, Good(a, ss, pl, ed, sv),
           NEW b, Steady(a, b), Clock(b),
           b.pollingState = "stopped" =>
               \/ a.pollingState = "stopped"
               \/ a.session # NoSession /\ IsQuiet(a, pl)
    PROVE  Good(b, ss, pl, ed, sv) /\ Free(b, pl) = Free(a, pl)
<1>1. Fit(b, ss, pl, ed, sv)
  BY DEF Good, Fit, Steady, Clock, Connected, Hosted
<1>2. Ready(b) /\ OwnPoll(b, pl)
  BY DEF Good, Steady, Ready, OwnPoll
<1>3. StopIsQuiet(b, pl)
  BY DEF Good, Steady, StopIsQuiet, IsQuiet
<1> QED
  BY <1>1, <1>2, <1>3 DEF Good, Steady, Free

\* A session's value changes, its hosts remaining its backend's.
LEMMA GoodSession ==
    ASSUME NEW a, NEW ss, NEW pl, NEW ed, NEW sv, Good(a, ss, pl, ed, sv),
           NEW n \in 1..Len(ss), NEW core \in Session,
           core.state.known \subseteq HostsAt(ss[n].url)
    PROVE  /\ Good(a, [ss EXCEPT ![n].core = core], pl, ed, sv)
           /\ Len([ss EXCEPT ![n].core = core]) = Len(ss)
<1> DEFINE s == [ss EXCEPT ![n].core = core]
<1>1. ss \in Seq(Handle) /\ \A m \in 1..Len(ss) : ss[m] \in Handle
  BY ElementOfSeq DEF Good, Fit
<1>2. [ss[n] EXCEPT !.core = core] \in Handle
  BY <1>1 DEF Handle
<1>3. /\ s \in Seq(Handle) /\ Len(s) = Len(ss)
      /\ \A m \in 1..Len(ss) : s[m].url = ss[m].url
      /\ s[n].core = core /\ \A m \in 1..Len(ss) : m # n => s[m] = ss[m]
  BY <1>1, <1>2, ExceptSeq DEF Handle
<1> HIDE DEF s
<1>4. Hosted(a, s, sv)
  <2>1. \A m \in 1..Len(ss) : s[m].core.state.known \subseteq HostsAt(s[m].url)
    BY <1>3 DEF Good, Fit, Hosted
  <2>2. a.session # NoSession => a.session \in 1..Len(ss)
    BY DEF Good, Fit, Fields, NoSession
  <2> QED
    BY <1>3, <2>1, <2>2 DEF Good, Fit, Hosted
<1> QED
  BY <1>3, <1>4 DEF Good, Fit, s

\* The session's state is persisted.
LEMMA GoodCache ==
    ASSUME NEW a, NEW ss, NEW pl, NEW ed, NEW sv, Good(a, ss, pl, ed, sv)
    PROVE  Good(a, ss, pl, ed, Persisted(a, ss, sv))
<1>1. Persisted(a, ss, sv) \in Cached
  BY PersistedType DEF Good, Fit
<1>2. a.session # NoSession => a.session \in 1..Len(ss)
  BY DEF Good, Fit, Fields, NoSession
<1>3. Hosted(a, ss, Persisted(a, ss, sv))
  BY <1>2 DEF Good, Fit, Hosted, Persisted
<1> QED
  BY <1>1, <1>3 DEF Good, Fit

\* The session is taken down.
LEMMA GoodDown ==
    ASSUME NEW a, NEW ss, NEW pl, NEW ed, NEW sv, Fit(a, ss, pl, ed, sv),
           NEW b, TornDown(a, b), b.sessionState # "ready"
    PROVE  Good(b, ss, pl, ed, sv) /\ Free(a, pl) \subseteq Free(b, pl)
<1>1. /\ b \in Fields /\ b.session = NoSession /\ b.connection = None
      /\ b.pollTask = None /\ b.timers = {} /\ b.jobs = a.jobs
      /\ b.pollingState = "idle"
  BY DEF TornDown
<1>2. /\ ss \in Seq(Handle) /\ Len(ss) \in Nat /\ a.jobs \in Seq(MainJob)
      /\ Calls(a.jobs, Len(ss), pl, ed)
      /\ \A i \in 1..Len(a.jobs) : a.jobs[i] \in MainJob
  BY LenProperties, ElementOfSeq DEF Fit, Fields
<1>3. Fit(b, ss, pl, ed, sv)
  BY <1>1, <1>2 DEF Fit, Connected, Hosted, NoSession
<1>4. OwnPoll(b, pl)
  <2>1. ASSUME NEW i \in 1..Len(b.jobs), b.jobs[i].job \in {"body", "answer"}
        PROVE  b.jobs[i].session # b.session /\ b.jobs[i].task # b.pollTask
    <3>1. b.jobs[i].session \in 1..Len(ss) /\ b.jobs[i].task \in Task
      BY <1>1, <1>2, <2>1, JobType DEF Calls, JobStands, TaskJobs
    <3> QED
      BY <1>1, <3>1, FleetModelAssumption DEF NoSession
  <2>2. ASSUME NEW t \in Task, pl[t] # None
        PROVE  pl[t].session # b.session /\ t # b.pollTask
    BY <1>1, <1>2, <2>2, FleetModelAssumption DEF Calls, PollStands, NoSession
  <2> QED
    BY <2>1, <2>2 DEF OwnPoll
<1>5. Clock(b) /\ Ready(b) /\ StopIsQuiet(b, pl)
  BY <1>1 DEF Clock, Ready, StopIsQuiet
<1>6. Free(a, pl) \subseteq Free(b, pl)
  BY <1>1, FleetModelAssumption DEF Free
<1> QED
  BY <1>3, <1>4, <1>5, <1>6 DEF Good

\* Another session takes the place of whatever there was.
LEMMA GoodRenew ==
    ASSUME NEW a, NEW ss, NEW pl, NEW ed, NEW sv, Fit(a, ss, pl, ed, sv),
           NEW handle \in Handle, handle.url \in Url \ BadUrl,
           handle.core.state.known \subseteq HostsAt(handle.url),
           NEW b, Renewed(a, b, Len(ss) + 1, handle),
           NEW saved \in Cached,
           saved # None => /\ saved.url = handle.url
                           /\ saved.known \subseteq HostsAt(saved.url)
    PROVE  /\ Good(b, Append(ss, handle), pl, ed, saved)
           /\ Free(a, pl) \subseteq Free(b, pl)
<1> DEFINE s == Append(ss, handle)
           n == Len(ss)
<1>1. /\ b \in Fields /\ b.session = n + 1 /\ b.connection = handle.url
      /\ b.pollTask = None /\ b.jobs = a.jobs
      /\ b.sessionState = "ready" /\ b.pollingState # "stopped" /\ Clock(b)
  BY DEF Renewed
<1>2. /\ ss \in Seq(Handle) /\ n \in Nat /\ a.jobs \in Seq(MainJob)
      /\ Calls(a.jobs, n, pl, ed)
      /\ \A i \in 1..Len(a.jobs) : a.jobs[i] \in MainJob
  BY LenProperties, ElementOfSeq DEF Fit, Fields
<1>3. /\ s \in Seq(Handle) /\ Len(s) = n + 1 /\ s[n + 1] = handle
      /\ \A m \in 1..n : s[m] = ss[m]
      /\ \A m \in 1..Len(s) : m \in 1..n \/ m = n + 1
  BY <1>2, PushedSession
<1> HIDE DEF s
<1>4. Hosted(b, s, saved)
  <2>1. \A m \in 1..Len(s) : s[m].core.state.known \subseteq HostsAt(s[m].url)
    BY <1>3 DEF Fit, Hosted
  <2> QED
    BY <1>1, <1>3, <2>1 DEF Hosted
<1>5. Calls(a.jobs, Len(s), pl, ed)
  BY <1>2, <1>3, CallsGrow
<1>6. Fit(b, s, pl, ed, saved)
  BY <1>1, <1>2, <1>3, <1>4, <1>5 DEF Fit, Connected, Clock
<1>7. OwnPoll(b, pl)
  <2>1. ASSUME NEW i \in 1..Len(b.jobs), b.jobs[i].job \in {"body", "answer"}
        PROVE  b.jobs[i].session # b.session /\ b.jobs[i].task # b.pollTask
    <3>1. b.jobs[i].session \in 1..n /\ b.jobs[i].task \in Task
      BY <1>1, <1>2, <2>1, JobType DEF Calls, JobStands, TaskJobs
    <3> QED
      BY <1>1, <1>2, <3>1, FleetModelAssumption
  <2>2. ASSUME NEW t \in Task, pl[t] # None
        PROVE  pl[t].session # b.session /\ t # b.pollTask
    <3>1. pl[t].session \in 1..n
      BY <1>2, <2>2 DEF Calls, PollStands
    <3> QED
      BY <1>1, <1>2, <3>1, FleetModelAssumption
  <2> QED
    BY <2>1, <2>2 DEF OwnPoll
<1>8. Ready(b) /\ StopIsQuiet(b, pl)
  BY <1>1, <1>2 DEF Ready, StopIsQuiet, NoSession
<1>9. Free(a, pl) \subseteq Free(b, pl)
  BY <1>1, FleetModelAssumption DEF Free
<1> QED
  BY <1>1, <1>6, <1>7, <1>8, <1>9 DEF Good, s

\* The hosts a session or the cache hands on are its backend's.
LEMMA HandedOnHosts ==
    ASSUME NEW a, NEW ss, NEW sv, a.session \in 0..Len(ss), Hosted(a, ss, sv),
           a.connection # None
    PROVE  HostsOf(a, ss, sv) \subseteq HostsAt(a.connection)
<1>1. a.session # NoSession => a.session \in 1..Len(ss)
  BY DEF NoSession
<1> QED
  BY <1>1 DEF HostsOf, Hosted

\* `reloadSettings`, from fields whose session may have been dropped for it.
LEMMA GoodReload ==
    ASSUME NEW a, Fit(a, sessions, polls, edits, cache),
           a.session # NoSession => Good(a, sessions, polls, edits, cache),
           NEW st \in Store
    PROVE  /\ Good(Reloaded(a, st), SessionsReloaded(a, st), polls, edits,
                   CacheReloaded(a, st))
           /\ Free(a, polls) \subseteq Free(Reloaded(a, st), polls)
<1>1. Stayed(a, st) \/ WentDown(a, st) \/ WasReplaced(a, st)
  BY ReloadCases DEF Fit
<1>2. CASE Stayed(a, st)
  BY <1>2 DEF Stayed
<1>3. CASE WentDown(a, st)
  BY <1>3, GoodDown DEF WentDown
<1>4. CASE WasReplaced(a, st)
  <2> DEFINE h == Rebuilt(a, st)
             b == Reloaded(a, st)
             sv == CacheReloaded(a, st)
  <2>1. /\ h \in Handle /\ h.url \in Url \ BadUrl /\ h.url = st.url
        /\ Renewed(a, b, Len(sessions) + 1, h)
        /\ SessionsReloaded(a, st) = Append(sessions, h)
        /\ sv = IF a.connection # st.url THEN None ELSE cache
        /\ h.core.state.known = IF a.connection = st.url
                                THEN HostsOf(a, sessions, cache) ELSE {}
    BY <1>4 DEF WasReplaced
  <2> HIDE DEF h, b, sv
  <2>2. h.core.state.known \subseteq HostsAt(h.url)
    BY <2>1, HandedOnHosts, FleetModelAssumption DEF Fit
  <2>3. /\ sv \in Cached
        /\ sv # None => sv.url = h.url /\ sv.known \subseteq HostsAt(sv.url)
    BY <2>1, FleetModelAssumption DEF Fit, Hosted, Cached
  <2>4. /\ Good(b, Append(sessions, h), polls, edits, sv)
        /\ Free(a, polls) \subseteq Free(b, polls)
    BY <2>1, <2>2, <2>3, GoodRenew
  <2> QED
    BY <2>1, <2>4 DEF b, sv
<1> QED
  BY <1>1, <1>2, <1>3, <1>4

\* `arm`, `pollNow` and its like, and `apply(advice:)`.
LEMMA GoodArm ==
    ASSUME NEW a, NEW ss, NEW pl, NEW ed, NEW sv, Good(a, ss, pl, ed, sv)
    PROVE  /\ Good(Arm(a), ss, pl, ed, sv) /\ Free(Arm(a), pl) = Free(a, pl)
           /\ Kept(a, Arm(a))
<1>1. /\ Arm(a) \in Fields /\ Kept(a, Arm(a)) /\ Clock(Arm(a))
      /\ Arm(a).pollingState = "stopped" <=> a.pollingState = "stopped"
  BY ArmSets DEF Good, Fit
<1>2. Steady(a, Arm(a))
  BY <1>1 DEF Steady, Kept
<1> QED
  BY <1>1, <1>2, GoodClock

LEMMA GoodPollSoon ==
    ASSUME NEW a, NEW ss, NEW pl, NEW ed, NEW sv, Good(a, ss, pl, ed, sv)
    PROVE  /\ Good(PollSoon(a), ss, pl, ed, sv)
           /\ Free(PollSoon(a), pl) = Free(a, pl)
           /\ Kept(a, PollSoon(a))
<1>1. /\ PollSoon(a) \in Fields /\ Kept(a, PollSoon(a)) /\ Clock(PollSoon(a))
      /\ PollSoon(a).pollingState = "stopped" <=> a.pollingState = "stopped"
  BY PollSoonSets DEF Good, Fit
<1>2. Steady(a, PollSoon(a))
  BY <1>1 DEF Steady, Kept
<1> QED
  BY <1>1, <1>2, GoodClock

LEMMA GoodObey ==
    ASSUME NEW a, NEW ss, NEW pl, NEW ed, NEW sv, Good(a, ss, pl, ed, sv),
           NEW advice \in Advice, a.session # NoSession, IsQuiet(a, pl)
    PROVE  /\ Good(Obey(a, advice), ss, pl, ed, sv)
           /\ Free(Obey(a, advice), pl) = Free(a, pl)
           /\ Kept(a, Obey(a, advice))
<1>1. Obeyed(a, Obey(a, advice), advice)
  BY ObeySets DEF Good, Fit
<1>2. Steady(a, Obey(a, advice)) /\ Clock(Obey(a, advice))
  BY <1>1 DEF Obeyed, Steady, Kept
<1> QED
  BY <1>1, <1>2, GoodClock DEF Obeyed

\* `enterBackground`.
LEMMA GoodSuspend ==
    ASSUME NEW a, NEW ss, NEW pl, NEW ed, NEW sv, Good(a, ss, pl, ed, sv)
    PROVE  Good(Suspend(a), ss, pl, ed, sv) /\ Free(Suspend(a), pl) = Free(a, pl)
<1> DEFINE c == CancelTimer(a)
           w == IF c.pollingState \in {"polling", "stopped"}
                THEN c.pollingState ELSE "suspended"
           b == [c EXCEPT !.isSuspended = TRUE, !.pollingState = w]
<1>1. CASE a.isSuspended
  BY <1>1 DEF Suspend
<1>2. CASE ~a.isSuspended
  <2>1. /\ c \in Fields /\ Kept(a, c) /\ c.timers = {}
        /\ c.pollingState = a.pollingState
    BY TimerCancelled DEF Good, Fit
  <2>2. Suspend(a) = b
    BY <1>2 DEF Suspend
  <2> HIDE DEF c
  <2>3. /\ w \in PollingState
        /\ w = "stopped" => a.pollingState = "stopped"
    BY <2>1 DEF PollingState
  <2> HIDE DEF w
  <2>4. /\ b \in Fields /\ b.timers = c.timers /\ b.pollingState = w
        /\ b.session = c.session /\ b.connection = c.connection
        /\ b.sessionState = c.sessionState /\ b.pollTask = c.pollTask
        /\ b.jobs = c.jobs
    BY <2>1, <2>3 DEF Fields
  <2> HIDE DEF b
  <2>5. Steady(a, b) /\ Clock(b)
    BY <2>1, <2>4 DEF Steady, Kept, Clock
  <2> QED
    BY <2>2, <2>3, <2>4, <2>5, GoodClock
<1> QED
  BY <1>1, <1>2

\* `enterForeground`, once the settings are read.
LEMMA GoodResume ==
    ASSUME NEW a, NEW ss, NEW pl, NEW ed, NEW sv, Good(a, ss, pl, ed, sv)
    PROVE  Good(Resume(a), ss, pl, ed, sv) /\ Free(Resume(a), pl) = Free(a, pl)
<1> DEFINE b == [a EXCEPT !.isSuspended = FALSE]
<1>1. Steady(a, b) /\ Clock(b) /\ b.pollingState = a.pollingState
  BY DEF Good, Fit, Steady, Clock, Fields
<1>2. Good(b, ss, pl, ed, sv) /\ Free(b, pl) = Free(a, pl)
  BY <1>1, GoodClock
<1>3. Resume(a) = b \/ Resume(a) = Arm(b)
  BY DEF Resume
<1> HIDE DEF b
<1> QED
  BY <1>2, <1>3, GoodArm

\* `poll`: the caller joins the poll there is, or one starts under an identity
\* nothing refers to.
LEMMA GoodPollStarted ==
    ASSUME NEW a, NEW ss, NEW sv, NEW resuming,
           Good(a, ss, polls, edits, sv), CanPoll(a, polls)
    PROVE  /\ Good(Poll(a, resuming), ss, polls, edits, sv)
           /\ CanPoll(Poll(a, resuming), polls)
<1> DEFINE t == CHOOSE t \in FreeTasks(a) : TRUE
           b == [a EXCEPT !.pollTask = t]
           j == [job |-> "body", task |-> t, session |-> a.session]
<1>1. CASE \/ a.pollTask # None
           \/ a.session = NoSession
           \/ a.pollingState = "stopped" /\ ~resuming
  <2>1. Poll(a, resuming) = a
    BY <1>1 DEF Poll
  <2> QED
    BY <2>1
<1>2. CASE ~(\/ a.pollTask # None
             \/ a.session = NoSession
             \/ a.pollingState = "stopped" /\ ~resuming)
  <2>1. FreeTasks(a) = Free(a, polls)
    BY DEF FreeTasks, Free, QueuedTasks, NoJobOfTask, TaskJobs
  <2>2. t \in Free(a, polls)
    BY <1>2, <2>1 DEF CanPoll
  <2>3. Poll(a, resuming) = [a EXCEPT !.pollTask = t, !.jobs = Append(@, j)]
    BY <1>2 DEF Poll
  <2> HIDE DEF t
  <2>4. t \in Task /\ polls[t] = None /\ NoJobOfTask(a.jobs, t)
    BY <2>2 DEF Free
  <2>5. /\ a \in Fields /\ a.session \in 1..Len(ss)
        /\ Calls(a.jobs, Len(ss), polls, edits)
        /\ a.jobs \in Seq(MainJob)
        /\ \A i \in 1..Len(a.jobs) : a.jobs[i] \in MainJob
    BY <1>2, ElementOfSeq DEF Good, Fit, Fields, NoSession
  <2>6. /\ b \in Fields /\ b.pollTask = t /\ b.session = a.session
        /\ b.connection = a.connection /\ b.sessionState = a.sessionState
        /\ b.pollingState = a.pollingState /\ b.isSuspended = a.isSuspended
        /\ b.timers = a.timers /\ b.timerTask = a.timerTask /\ b.jobs = a.jobs
    BY <2>4, <2>5 DEF Fields
  <2>7. [a EXCEPT !.pollTask = t, !.jobs = Append(@, j)] = Enqueued(b, j)
    BY <2>5 DEF Enqueued, Fields
  <2> HIDE DEF b
  <2>8. Fit(b, ss, polls, edits, sv) /\ Clock(b) /\ Ready(b)
    BY <2>6 DEF Good, Fit, Clock, Ready, Connected, Hosted
  <2>9. OwnPoll(b, polls)
    <3>1. ASSUME NEW i \in 1..Len(a.jobs), a.jobs[i].job \in {"body", "answer"}
          PROVE  a.jobs[i].session # a.session /\ a.jobs[i].task # t
      <4>1. a.jobs[i].task \in Task /\ a.jobs[i].task # t
        BY <2>4, <2>5, <3>1, JobType DEF NoJobOfTask, TaskJobs
      <4> QED
        BY <1>2, <3>1, <4>1, FleetModelAssumption DEF Good, OwnPoll
    <3>2. ASSUME NEW u \in Task, polls[u] # None
          PROVE  polls[u].session # a.session /\ u # t
      BY <1>2, <2>4, <3>2, FleetModelAssumption DEF Good, OwnPoll
    <3> QED
      BY <2>6, <3>1, <3>2 DEF OwnPoll
  <2>10. StopIsQuiet(b, polls)
    BY <2>6 DEF Good, StopIsQuiet, IsQuiet
  <2>11. j \in MainJob /\ JobStands(j, Len(ss), edits)
    BY <2>4, <2>5 DEF MainJob, JobStands
  <2>12. Good(Enqueued(b, j), ss, polls, edits, sv)
    BY <2>4, <2>6, <2>8, <2>9, <2>10, <2>11, GoodPush
       DEF Good, EditJobs
  <2>13. Enqueued(b, j).pollTask # None
    BY <2>4, <2>6, FleetModelAssumption DEF Enqueued, Fields
  <2> QED
    BY <2>3, <2>7, <2>12, <2>13 DEF CanPoll
<1> QED
  BY <1>1, <1>2

-----------------------------------------------------------------------------
(***************************************************************************)
(* The steps.                                                              *)
(***************************************************************************)
Inv ==
    /\ Good(app, sessions, polls, edits, cache) /\ CanPoll(app, polls)
    /\ store \in Store /\ screen \in Host \cup {None}

LEMMA CanPollKept ==
    ASSUME NEW a, NEW pl, CanPoll(a, pl), NEW b, NEW p,
           b.session = a.session, b.pollTask = a.pollTask,
           Free(a, pl) \subseteq Free(b, p)
    PROVE  CanPoll(b, p)
BY DEF CanPoll

\* The head of the queue, and what is left once it is popped.
LEMMA HeadOfQueue ==
    ASSUME Inv, app.jobs # <<>>
    PROVE  /\ Good(Popped, sessions, polls, edits, cache)
           /\ Free(app, polls) \subseteq Free(Popped, polls)
           /\ CanPoll(Popped, polls)
           /\ Popped.session = app.session /\ Popped.pollTask = app.pollTask
           /\ Popped.connection = app.connection /\ Popped.config = app.config
           /\ Popped.jobs = Tail(app.jobs) /\ Popped.fleet = app.fleet
           /\ Popped.pollingState = app.pollingState
           /\ Popped.isSuspended = app.isSuspended
           /\ Popped.timers = app.timers
           /\ Job \in MainJob /\ JobStands(Job, Len(sessions), edits)
           /\ Job.job \in TaskJobs =>
                  /\ Job.task \in Task /\ polls[Job.task] = None
                  /\ NoJobOfTask(Popped.jobs, Job.task)
                  /\ Job.task \notin Free(app, polls)
           /\ Job.job \in EditJobs =>
                  Job.editor \in Editor /\ NoJobOfEditor(Popped.jobs, Job.editor)
           /\ Job.job \in {"body", "answer"} =>
                  (Job.session = app.session <=> Job.task = app.pollTask)
<1>1. /\ app \in Fields /\ Calls(app.jobs, Len(sessions), polls, edits)
      /\ app.jobs \in Seq(MainJob)
  BY DEF Inv, Good, Fit, Fields
<1>2. /\ Popped \in Fields /\ Popped.jobs = Tail(app.jobs)
      /\ Popped.session = app.session /\ Popped.pollTask = app.pollTask
      /\ Popped.connection = app.connection /\ Popped.config = app.config
      /\ Popped.fleet = app.fleet /\ Popped.pollingState = app.pollingState
      /\ Popped.isSuspended = app.isSuspended /\ Popped.timers = app.timers
  BY <1>1, PoppedQueue DEF Popped, Fields
<1>3. /\ Good(Popped, sessions, polls, edits, cache)
      /\ Free(app, polls) \subseteq Free(Popped, polls)
  BY GoodPop DEF Inv, Popped
<1>4. CanPoll(Popped, polls)
  BY <1>2, <1>3, CanPollKept DEF Inv
<1>5. /\ Job \in MainJob /\ JobStands(Job, Len(sessions), edits)
      /\ Job.job \in TaskJobs =>
             NoJobOfTask(Tail(app.jobs), Job.task) /\ polls[Job.task] = None
      /\ Job.job \in EditJobs => NoJobOfEditor(Tail(app.jobs), Job.editor)
  BY <1>1, CallsPop DEF Job
<1>6. Job = app.jobs[1] /\ 1 \in 1..Len(app.jobs)
  BY <1>1, PoppedQueue DEF Job
<1>7. Job.job \in TaskJobs => Job.task \notin Free(app, polls)
  BY <1>6 DEF Free, NoJobOfTask
<1>8. Job.job \in {"body", "answer"} =>
          (Job.session = app.session <=> Job.task = app.pollTask)
  BY <1>6 DEF Inv, Good, OwnPoll
<1> QED
  BY <1>2, <1>3, <1>4, <1>5, <1>7, <1>8, JobType

LEMMA RunBodyKeeps ==
    ASSUME Inv, RunBody
    PROVE  Inv'
<1> DEFINE b == [Popped EXCEPT !.pollingState = "polling"]
           call == [session |-> Job.session, at |-> "called", answer |-> None]
<1>1. /\ app.jobs # <<>> /\ Job.job = "body" /\ app' = b
      /\ polls' = [polls EXCEPT ![Job.task] = call]
      /\ UNCHANGED <<sessions, edits, store, cache, screen>>
  BY DEF RunBody, HeadIs
<1>2. /\ Good(Popped, sessions, polls, edits, cache)
      /\ Popped \in Fields
      /\ Free(app, polls) \subseteq Free(Popped, polls)
      /\ Job \in MainJob /\ Job.task \in Task
      /\ NoJobOfTask(Popped.jobs, Job.task) /\ Job.task \notin Free(app, polls)
      /\ Job.session \in 1..Len(sessions)
      /\ Job.session = app.session <=> Job.task = app.pollTask
      /\ Popped.session = app.session /\ Popped.pollTask = app.pollTask
  BY <1>1, HeadOfQueue DEF TaskJobs, JobStands, Good, Fit
<1> HIDE DEF b
<1>3. /\ Steady(Popped, b) /\ Clock(b) /\ b.pollingState = "polling"
      /\ b.jobs = Popped.jobs
  BY <1>2 DEF b, Steady, Clock, Good, Fields, PollingState
<1>4. /\ Good(b, sessions, polls, edits, cache)
      /\ Free(b, polls) = Free(Popped, polls)
  BY <1>2, <1>3, GoodClock
<1>5. /\ call \in PollCall /\ PollStands(call, Len(sessions))
      /\ call.session = Job.session
  BY <1>2, LenProperties DEF PollCall, PollStands
<1> HIDE DEF call
<1>6. Good(b, sessions, polls', edits, cache)
  BY <1>1, <1>2, <1>3, <1>4, <1>5, GoodPoll, ZenonT(60) DEF Steady
<1>7. Free(app, polls) \subseteq Free(app', polls')
  <2>1. \A t \in Task : t # Job.task => polls'[t] = polls[t]
    BY <1>1 DEF Inv, Good, Fit, Calls
  <2> QED
    BY <1>1, <1>2, <1>4, <2>1 DEF Free
<1>8. CanPoll(app', polls')
  BY <1>1, <1>2, <1>3, <1>7, CanPollKept DEF Inv, Steady
<1> QED
  BY <1>1, <1>6, <1>8 DEF Inv

LEMMA RunAnswerKeeps ==
    ASSUME Inv, RunAnswer
    PROVE  Inv'
<1> DEFINE current == Job.session = app.session
           shown == IF Job.answer.skipped
                    THEN Popped ELSE [Popped EXCEPT !.fleet = Job.answer.view]
           obeyed == Obey(shown, Job.answer.advice)
           b == IF current THEN obeyed ELSE Popped
           j == [job |-> "done", task |-> Job.task]
<1>1. /\ app.jobs # <<>> /\ Job.job = "answer" /\ app' = Enqueued(b, j)
      /\ cache' = cache \/ cache' = Persisted(app, sessions, cache)
      /\ UNCHANGED <<sessions, polls, edits, store, screen>>
  BY DEF RunAnswer, HeadIs
<1>2. /\ Good(Popped, sessions, polls, edits, cache)
      /\ Popped \in Fields
      /\ Free(app, polls) \subseteq Free(Popped, polls)
      /\ Job \in MainJob /\ Job.task \in Task /\ polls[Job.task] = None
      /\ NoJobOfTask(Popped.jobs, Job.task) /\ Job.task \notin Free(app, polls)
      /\ Job.session \in 1..Len(sessions)
      /\ Job.session = app.session <=> Job.task = app.pollTask
      /\ Popped.session = app.session /\ Popped.pollTask = app.pollTask
  BY <1>1, HeadOfQueue DEF TaskJobs, JobStands, Good, Fit
<1>3. Job.answer \in PollAnswer
  BY <1>1, <1>2, JobType
<1> HIDE DEF shown
<1>4. /\ Good(shown, sessions, polls, edits, cache)
      /\ Free(shown, polls) = Free(Popped, polls)
      /\ shown.session = app.session /\ shown.pollTask = app.pollTask
      /\ shown.jobs = Popped.jobs
  <2>1. CASE Job.answer.skipped
    BY <1>2, <2>1 DEF shown
  <2>2. CASE ~Job.answer.skipped
    <3>1. /\ Steady(Popped, shown) /\ Clock(shown)
          /\ shown.pollingState = Popped.pollingState
      BY <1>2, <1>3, <2>2 DEF shown, Steady, Clock, Good, Fields, PollAnswer
    <3>2. /\ Good(shown, sessions, polls, edits, cache)
          /\ Free(shown, polls) = Free(Popped, polls)
      BY <1>2, <3>1, GoodClock
    <3> QED
      BY <1>2, <3>1, <3>2 DEF Steady
  <2> QED
    BY <2>1, <2>2
<1>5. /\ Good(b, sessions, polls, edits, cache)
      /\ Free(b, polls) = Free(Popped, polls)
      /\ b.session = app.session /\ b.pollTask = app.pollTask
      /\ b.jobs = Popped.jobs
  <2>1. CASE ~current
    BY <1>2, <2>1
  <2>2. CASE current
    <3>1. IsQuiet(shown, polls)
      <4>1. Job.task = shown.pollTask
        BY <1>2, <1>4, <2>2
      <4>2. OwnPoll(shown, polls)
        BY <1>4 DEF Good
      <4> QED
        BY <1>2, <1>4, <4>1, <4>2 DEF OwnPoll, IsQuiet, NoJobOfTask, TaskJobs
    <3>2. shown.session # NoSession
      BY <1>2, <1>4, <2>2 DEF NoSession
    <3>3. Job.answer.advice \in Advice
      BY <1>3 DEF PollAnswer
    <3>4. /\ Good(obeyed, sessions, polls, edits, cache)
          /\ Free(obeyed, polls) = Free(shown, polls) /\ Kept(shown, obeyed)
      BY <1>4, <3>1, <3>2, <3>3, GoodObey
    <3> QED
      BY <1>4, <2>2, <3>4 DEF Kept
  <2> QED
    BY <2>1, <2>2
<1> HIDE DEF b
<1>6. j \in MainJob /\ JobStands(j, Len(sessions), edits)
  BY <1>2 DEF MainJob, JobStands
<1>7. /\ Good(app', sessions, polls, edits, cache)
      /\ \A t \in Free(b, polls) : t # Job.task => t \in Free(app', polls)
  BY <1>1, <1>2, <1>5, <1>6, GoodPush DEF EditJobs
<1>8. app'.session = app.session /\ app'.pollTask = app.pollTask
  BY <1>1, <1>5 DEF Enqueued, Good, Fit, Fields
<1>9. CanPoll(app', polls)
  BY <1>2, <1>5, <1>7, <1>8, CanPollKept DEF Inv
<1>10. Good(app', sessions, polls, edits, cache')
  <2>1. Persisted(app, sessions, cache) = Persisted(app', sessions, cache)
    BY <1>8 DEF Persisted
  <2> QED
    BY <1>1, <1>7, <2>1, GoodCache
<1> QED
  BY <1>1, <1>9, <1>10 DEF Inv

LEMMA RunDoneKeeps ==
    ASSUME Inv, RunDone
    PROVE  Inv'
<1> DEFINE w == IF app.pollTask = Job.task THEN None ELSE app.pollTask
<1>1. /\ app.jobs # <<>> /\ Job.job = "done"
      /\ app' = [Popped EXCEPT !.pollTask =
                    IF Popped.pollTask = Job.task THEN None ELSE Popped.pollTask]
      /\ UNCHANGED <<sessions, polls, edits, store, cache, screen>>
  BY DEF RunDone, HeadIs
<1>2. /\ Good(Popped, sessions, polls, edits, cache)
      /\ Popped \in Fields
      /\ Free(app, polls) \subseteq Free(Popped, polls)
      /\ Job.task \in Task /\ polls[Job.task] = None
      /\ NoJobOfTask(Popped.jobs, Job.task)
      /\ Popped.session = app.session /\ Popped.pollTask = app.pollTask
      /\ CanPoll(Popped, polls)
  BY <1>1, HeadOfQueue DEF TaskJobs, Good, Fit
<1>3. CASE Popped.pollTask # Job.task
  <2>1. app' = Popped
    BY <1>1, <1>2, <1>3 DEF Fields
  <2> QED
    BY <1>1, <1>2, <2>1 DEF Inv
<1>4. CASE Popped.pollTask = Job.task
  <2>1. /\ app' \in Fields /\ app'.pollTask = None /\ app'.jobs = Popped.jobs
        /\ app'.session = Popped.session
        /\ app'.connection = Popped.connection
        /\ app'.sessionState = Popped.sessionState
        /\ app'.pollingState = Popped.pollingState
        /\ app'.isSuspended = Popped.isSuspended
        /\ app'.timers = Popped.timers /\ app'.timerTask = Popped.timerTask
    BY <1>1, <1>2, <1>4 DEF Fields
  <2>2. /\ Fit(app', sessions, polls, edits, cache)
        /\ Clock(app') /\ Ready(app') /\ StopIsQuiet(app', polls)
    BY <1>2, <2>1
    DEF Good, Fit, Clock, Ready, Connected, Hosted, StopIsQuiet, IsQuiet
  <2>3. OwnPoll(app', polls)
    <3>1. ASSUME NEW i \in 1..Len(Popped.jobs),
                 Popped.jobs[i].job \in {"body", "answer"}
          PROVE  /\ Popped.jobs[i].session # Popped.session
                 /\ Popped.jobs[i].task # None
      <4>1. Popped.jobs[i].task # Job.task /\ Popped.jobs[i].task \in Task
        BY <1>2, <3>1, ElementOfSeq, JobType
        DEF NoJobOfTask, TaskJobs, Good, Fit, Calls
      <4> QED
        BY <1>2, <1>4, <3>1, <4>1, FleetModelAssumption DEF Good, OwnPoll
    <3>2. ASSUME NEW t \in Task, polls[t] # None
          PROVE  polls[t].session # Popped.session /\ t # None
      BY <1>2, <1>4, <3>2, FleetModelAssumption DEF Good, OwnPoll
    <3> QED
      BY <2>1, <3>1, <3>2 DEF OwnPoll
  <2>4. Job.task \in Free(app', polls)
    BY <1>2, <2>1, FleetModelAssumption DEF Free
  <2> QED
    BY <1>1, <2>2, <2>3, <2>4 DEF Inv, Good, CanPoll
<1> QED
  BY <1>3, <1>4

LEMMA RunTimerKeeps ==
    ASSUME Inv, RunTimer
    PROVE  Inv'
<1> DEFINE b == [Popped EXCEPT !.timers = @ \ {Job.timer}]
<1>1. /\ app.jobs # <<>>
      /\ app' = Popped \/ app' = Poll(b, FALSE)
      /\ UNCHANGED <<sessions, polls, edits, store, cache, screen>>
  BY DEF RunTimer, HeadIs
<1>2. /\ Good(Popped, sessions, polls, edits, cache) /\ CanPoll(Popped, polls)
      /\ Popped \in Fields
  BY <1>1, HeadOfQueue DEF Good, Fit
<1>3. Steady(Popped, b) /\ Clock(b) /\ b.pollingState = Popped.pollingState
  BY <1>2 DEF Steady, Clock, Good, Fields
<1> HIDE DEF b
<1>4. /\ Good(b, sessions, polls, edits, cache)
      /\ Free(b, polls) = Free(Popped, polls)
  BY <1>2, <1>3, GoodClock
<1>5. CanPoll(b, polls)
  BY <1>2, <1>3, <1>4, CanPollKept DEF Steady
<1>6. /\ Good(Poll(b, FALSE), sessions, polls, edits, cache)
      /\ CanPoll(Poll(b, FALSE), polls)
  BY <1>4, <1>5, GoodPollStarted
<1> QED
  BY <1>1, <1>2, <1>6 DEF Inv

\* The editor e calls setConfig of session n.
Called(e, op, config, n) ==
    edits' = [edits EXCEPT ![e] =
                 [op |-> op, at |-> "called", arg |-> config, session |-> n,
                  view |-> None]]

\* A change of the configuration is under way, or another session runs it.
Applied(a, ss, e, op, config) ==
    \/ app' = a /\ sessions' = ss /\ Called(e, op, config, a.session)
    \/ /\ config.liveness # a.config.liveness
       /\ edits' = [edits EXCEPT ![e] = None]
       /\ \E handle \in Handle :
             /\ sessions' = Append(ss, handle)
             /\ Renewed(a, app', Len(ss) + 1, handle)

\* `applyConfig` up to its await, by an editor whose call has none of its jobs
\* queued: the call into the session, or a new session.
LEMMA ApplyKeeps ==
    ASSUME NEW a, NEW ss, NEW st \in Store, NEW saved,
           Good(a, ss, polls, edits, saved), a.session # NoSession,
           NEW e \in Editor, NoJobOfEditor(a.jobs, e),
           NEW op \in {"save", "focus"}, NEW config \in Config,
           Apply(a, ss, st, saved, e, op, config)
    PROVE  /\ Good(app', sessions', polls, edits', cache') /\ store' \in Store
           /\ Free(a, polls) \subseteq Free(app', polls)
           /\ Applied(a, ss, e, op, config)
<1>1. /\ a \in Fields /\ a.session \in 1..Len(ss) /\ ss \in Seq(Handle)
      /\ Len(ss) \in Nat /\ Fit(a, ss, polls, edits, saved)
      /\ a.timers \subseteq {a.timerTask}
      /\ a.connection \in Url \ BadUrl /\ a.connection # None
      /\ saved \in Cached /\ Hosted(a, ss, saved)
  BY LenProperties, FleetModelAssumption
  DEF Good, Fit, Fields, NoSession, Connected
<1>2. CASE config.liveness = a.config.liveness
  <2> DEFINE call == [op |-> op, at |-> "called", arg |-> config,
                      session |-> a.session, view |-> None]
  <2>1. /\ app' = a /\ sessions' = ss /\ store' = st /\ cache' = saved
        /\ edits' = [edits EXCEPT ![e] = call]
    BY <1>2 DEF Apply
  <2>2. call \in EditCall /\ EditStands(call, Len(ss))
    BY <1>1 DEF EditCall, EditStands
  <2> HIDE DEF call
  <2>3. Good(a, ss, polls, edits', saved)
    BY <2>1, <2>2, GoodEdit
  <2>4. Called(e, op, config, a.session)
    BY <2>1 DEF Called, call
  <2> QED
    BY <2>1, <2>3, <2>4 DEF Applied
<1>3. CASE config.liveness # a.config.liveness
  <2> DEFINE h == [url |-> a.connection,
                   core |-> NewSession(config, HostsOf(a, ss, saved))]
             b == Adopt(a, Len(ss) + 1, h)
  <2>1. /\ app' = PollSoon(b) /\ sessions' = Append(ss, h)
        /\ cache' = Persisted(b, sessions', saved)
        /\ edits' = [edits EXCEPT ![e] = None] /\ store' = Saved(st, config)
    BY <1>3 DEF Apply
  <2>2. HostsOf(a, ss, saved) \in SUBSET Host
    BY <1>1, HostsOfType
  <2>3. HostsOf(a, ss, saved) \subseteq HostsAt(a.connection)
    BY <1>1, HandedOnHosts
  <2>4. /\ h \in Handle /\ h.url \in Url \ BadUrl
        /\ h.core.state.known \subseteq HostsAt(h.url)
    BY <1>1, <2>2, <2>3, NewSessionType DEF Handle
  <2>5. b.session = Len(ss) + 1
    BY <1>1, TimerCancelled DEF Adopt, Fields
  <2> HIDE DEF h, b
  <2>6. Renewed(a, app', Len(ss) + 1, h)
    BY <1>1, <2>1, <2>4, AdoptRenews DEF b
  <2>7. /\ Good(app', sessions', polls, edits, None)
        /\ Free(a, polls) \subseteq Free(app', polls)
    BY <1>1, <2>1, <2>4, <2>6, GoodRenew DEF Cached
  <2>8. Persisted(app', sessions', None) = cache'
    BY <1>1, <2>1, <2>5, <2>6 DEF Persisted, Renewed, NoSession
  <2>9. Good(app', sessions', polls, edits, cache')
    BY <2>7, <2>8, GoodCache
  <2>10. NoJobOfEditor(app'.jobs, e)
    BY <2>6 DEF Renewed
  <2>11. Good(app', sessions', polls, edits', cache')
    BY <2>1, <2>9, <2>10, GoodEdit DEF EditStands
  <2> QED
    BY <1>3, <2>1, <2>4, <2>6, <2>7, <2>11, SavedType DEF Applied
<1> QED
  BY <1>2, <1>3

LEMMA RunFocusKeeps ==
    ASSUME Inv, RunFocus
    PROVE  Inv'
<1> DEFINE e == Job.editor
           host == edits[e].arg
           moves == /\ app.config # None /\ app.connection # None
                    /\ app.config.focus # host
           config == [app.config EXCEPT !.focus = host]
<1>1. /\ app.jobs # <<>> /\ Job.job = "focus"
      /\ UNCHANGED <<polls, screen>>
  BY DEF RunFocus, HeadIs
<1>2. /\ Good(Popped, sessions, polls, edits, cache)
      /\ CanPoll(Popped, polls) /\ e \in Editor
      /\ NoJobOfEditor(Popped.jobs, e)
      /\ edits[e] # None /\ edits[e].at = "starting"
      /\ Popped.connection = app.connection /\ Popped.config = app.config
  BY <1>1, HeadOfQueue DEF EditJobs, JobStands
<1>3. host \in Host \cup {None}
  BY <1>2 DEF Good, Fit, Calls, EditStands
<1>4. CASE moves
  <2>1. Apply(Popped, sessions, store, cache, e, "focus", config)
    BY <1>4 DEF RunFocus
  <2>2. app.config \in Config
    BY <1>2, <1>4 DEF Good, Fit, Fields
  <2>3. config \in Config /\ config.liveness = app.config.liveness
    BY <1>3, <2>2, FleetModelAssumption
  <2>4. Popped.session # NoSession
    BY <1>2, <1>4 DEF Good, Ready
  <2> HIDE DEF config
  <2>5. /\ Good(app', sessions', polls, edits', cache') /\ store' \in Store
        /\ Applied(Popped, sessions, e, "focus", config)
    BY <1>2, <2>1, <2>3, <2>4, ApplyKeeps DEF Inv
  <2>6. app' = Popped
    BY <1>2, <2>3, <2>5 DEF Applied
  <2> QED
    BY <1>1, <1>2, <2>5, <2>6 DEF Inv
<1>5. CASE ~moves
  <2>1. /\ app' = Popped /\ edits' = [edits EXCEPT ![e] = None]
        /\ UNCHANGED <<sessions, store, cache>>
    BY <1>5 DEF RunFocus
  <2>2. Good(Popped, sessions, polls, edits', cache)
    BY <1>2, <2>1, GoodEdit DEF EditStands
  <2> QED
    BY <1>1, <1>2, <2>1, <2>2 DEF Inv
<1> QED
  BY <1>4, <1>5

LEMMA RunEditedKeeps ==
    ASSUME Inv, RunEdited
    PROVE  Inv'
<1> DEFINE e == Job.editor
           call == edits[e]
           b == IF call.op = "forget" THEN [Popped EXCEPT !.fleet = call.view]
                                      ELSE [Popped EXCEPT !.config = call.arg]
<1>1. /\ app.jobs # <<>> /\ Job.job = "edited"
      /\ app' = IF call.op = "forget" THEN b ELSE PollSoon(b)
      /\ store' = IF call.op = "forget" THEN store ELSE Saved(store, call.arg)
      /\ cache' = Persisted(app, sessions, cache)
      /\ edits' = [edits EXCEPT ![e] = None]
      /\ UNCHANGED <<sessions, polls, screen>>
  BY DEF RunEdited, HeadIs
<1>2. /\ Good(Popped, sessions, polls, edits, cache)
      /\ Popped \in Fields /\ CanPoll(Popped, polls) /\ e \in Editor
      /\ NoJobOfEditor(Popped.jobs, e)
      /\ call # None /\ call.at = "queued" /\ Popped.session = app.session
      /\ Popped.pollTask = app.pollTask
  BY <1>1, HeadOfQueue DEF EditJobs, JobStands, Good, Fit
<1>3. /\ call.view \in View
      /\ call.op # "forget" => call.arg \in Config
  BY <1>2 DEF Good, Fit, Calls, EditStands
<1> HIDE DEF call
<1>4. /\ Steady(Popped, b) /\ Clock(b)
      /\ b.pollingState = Popped.pollingState
  BY <1>2, <1>3 DEF Steady, Clock, Good, Fields
<1> HIDE DEF b
<1>5. /\ Good(b, sessions, polls, edits, cache)
      /\ Free(b, polls) = Free(Popped, polls)
  BY <1>2, <1>4, GoodClock
<1>6. /\ Good(app', sessions, polls, edits, cache)
      /\ Free(app', polls) = Free(Popped, polls)
      /\ app'.session = Popped.session /\ app'.pollTask = Popped.pollTask
      /\ app'.jobs = Popped.jobs
  BY <1>1, <1>4, <1>5, GoodPollSoon DEF Steady, Kept
<1>7. Good(app', sessions, polls, edits', cache)
  BY <1>1, <1>2, <1>6, GoodEdit DEF EditStands
<1>8. Persisted(app, sessions, cache) = Persisted(app', sessions, cache)
  BY <1>2, <1>6 DEF Persisted
<1>9. Good(app', sessions, polls, edits', cache')
  BY <1>1, <1>7, <1>8, GoodCache
<1>10. CanPoll(app', polls) /\ store' \in Store
  BY <1>1, <1>2, <1>3, <1>6, CanPollKept, SavedType DEF Inv
<1> QED
  BY <1>1, <1>9, <1>10 DEF Inv

\* The values of a session under its calls.
LEMMA ReleasedType ==
    ASSUME NEW core \in Session
    PROVE  /\ Released(core) \in Session /\ Released(core).state = core.state
           /\ Released(core).config = core.config
<1>1. core.waiting \in Seq(Caller)
  BY DEF Session
<1>2. core.waiting # <<>> =>
          Head(core.waiting) \in Caller /\ Tail(core.waiting) \in Seq(Caller)
  BY <1>1, HeadTailProperties
<1> QED
  BY <1>1, <1>2 DEF Session, Released

LEMMA RequestedType ==
    ASSUME NEW core \in Session, NEW c \in Caller
    PROVE  /\ Requested(core, c) \in Session
           /\ Requested(core, c).state = core.state
           /\ Requested(core, c).config = core.config
<1>1. Append(core.waiting, c) \in Seq(Caller)
  BY AppendProperties DEF Session
<1> QED
  BY <1>1 DEF Session, Requested

LEMMA FoldedHosts ==
    ASSUME NEW state \in FleetState, NEW seen \in Observation, NEW expired
    PROVE  /\ Fold(state, seen, expired) \in FleetState
           /\ Fold(state, seen, expired).known \subseteq state.known \cup seen.hosts
BY DEF FleetState, Observation, Fold

LEMMA AdviceType ==
    ASSUME NEW state \in FleetState
    PROVE  AdviceOf(state) \in Advice
BY DEF FleetState, AdviceOf, Advice

\* A task's call, and the session it is about.
LEMMA PollInHand ==
    ASSUME Inv, NEW t \in Task, polls[t] # None
    PROVE  /\ polls[t] \in PollCall /\ polls[t].session \in 1..Len(sessions)
           /\ sessions[polls[t].session] \in Handle
           /\ sessions[polls[t].session].core \in Session
           /\ NoJobOfTask(app.jobs, t)
           /\ polls[t].session = app.session <=> t = app.pollTask
           /\ app.pollingState = "stopped" => polls[t].session # app.session
<1>1. /\ Good(app, sessions, polls, edits, cache)
      /\ Calls(app.jobs, Len(sessions), polls, edits)
      /\ sessions \in Seq(Handle)
  BY DEF Inv, Good, Fit
<1>2. polls[t] \in PollCall /\ polls[t].session \in 1..Len(sessions)
  BY <1>1 DEF Calls, PollStands
<1>3. sessions[polls[t].session] \in Handle
  BY <1>1, <1>2, ElementOfSeq
<1>4. NoJobOfTask(app.jobs, t)
  BY <1>1, TaskHasNoJob
<1> QED
  BY <1>1, <1>2, <1>3, <1>4 DEF Good, OwnPoll, StopIsQuiet, IsQuiet, Handle

\* A task with a call goes on to another step of it, of the same session.
LEMMA PollGoesOn ==
    ASSUME Inv, NEW t \in Task, polls[t] # None,
           NEW call \in PollCall, call.session = polls[t].session,
           call.at = "answered" => /\ call.answer \in PollAnswer
                                   /\ call.answer.view.of = call.session
    PROVE  /\ Good(app, sessions, [polls EXCEPT ![t] = call], edits, cache)
           /\ CanPoll(app, [polls EXCEPT ![t] = call])
<1> DEFINE p == [polls EXCEPT ![t] = call]
<1>1. PollStands(call, Len(sessions))
  BY PollInHand DEF PollStands
<1>2. Good(app, sessions, p, edits, cache)
  BY <1>1, PollInHand, GoodPoll DEF Inv
<1>3. Free(app, polls) \subseteq Free(app, p)
  BY DEF Free, Inv, Good, Fit, Calls
<1> HIDE DEF p
<1> QED
  BY <1>2, <1>3, CanPollKept DEF Inv, p

\* An answer says which session it is of and what to do.
LEMMA AnswerType ==
    ASSUME NEW n \in Nat, NEW core \in Session, NEW skipped \in BOOLEAN
    PROVE  LET answer == [skipped |-> skipped, view |-> ViewOf(n, core),
                          advice |-> AdviceOf(core.state)]
           IN  answer \in PollAnswer /\ answer.view.of = n
<1>1. ViewOf(n, core) \in View /\ ViewOf(n, core).of = n
  BY ViewType
<1>2. AdviceOf(core.state) \in Advice
  BY AdviceType DEF Session
<1> QED
  BY <1>1, <1>2 DEF PollAnswer

LEMMA SkipPollKeeps ==
    ASSUME Inv, NEW t \in Task, SkipPoll(t)
    PROVE  Inv' /\ polls'[t] \in PollCall /\ polls'[t].session = polls[t].session
<1> DEFINE n == polls[t].session
           core == sessions[n].core
           answer == [skipped |-> TRUE, view |-> ViewOf(n, core),
                      advice |-> AdviceOf(core.state)]
           call == [polls[t] EXCEPT !.at = "answered", !.answer = answer]
<1>1. polls[t] # None /\ UNCHANGED <<app, sessions, edits, store, cache, screen>>
  BY DEF SkipPoll, PollAt
<1>2. polls[t] \in PollCall /\ core \in Session /\ n \in Nat
  BY <1>1, PollInHand DEF PollCall
<1>3. answer \in PollAnswer /\ answer.view.of = n
  BY <1>2, AnswerType
<1>4. polls' = [polls EXCEPT ![t] = call]
  BY DEF SkipPoll
<1> HIDE DEF answer
<1>5. call \in PollCall /\ call.session = n /\ call.answer = answer
  BY <1>2, <1>3 DEF PollCall
<1> HIDE DEF call
<1>6. Good(app, sessions, polls', edits, cache) /\ CanPoll(app, polls')
  BY <1>1, <1>3, <1>4, <1>5, PollGoesOn
<1>7. polls'[t] \in PollCall /\ polls'[t].session = polls[t].session
  BY <1>1, <1>2, <1>4, <1>5 DEF Inv, Good, Fit, Calls
<1> QED
  BY <1>1, <1>6, <1>7 DEF Inv

LEMMA BeginPollKeeps ==
    ASSUME Inv, NEW t \in Task, BeginPoll(t)
    PROVE  Inv' /\ polls'[t] \in PollCall /\ polls'[t].session = polls[t].session
<1> DEFINE n == polls[t].session
           core == [sessions[n].core EXCEPT !.holder = t]
           call == [polls[t] EXCEPT !.at = "fetch"]
<1>1. polls[t] # None /\ UNCHANGED <<app, edits, store, cache, screen>>
  BY DEF BeginPoll, PollAt
<1>2. /\ polls[t] \in PollCall /\ n \in 1..Len(sessions)
      /\ sessions[n] \in Handle /\ sessions[n].core \in Session
  BY <1>1, PollInHand
<1>3. core \in Session /\ core.state = sessions[n].core.state
  BY <1>2, FleetModelAssumption DEF Session
<1>4. /\ polls' = [polls EXCEPT ![t] = call]
      /\ sessions' = [sessions EXCEPT ![n].core = core]
  BY DEF BeginPoll
<1>5. call \in PollCall /\ call.session = n /\ call.at = "fetch"
  BY <1>2 DEF PollCall
<1> HIDE DEF call, core
<1>6. Good(app, sessions, polls', edits, cache) /\ CanPoll(app, polls')
  BY <1>1, <1>4, <1>5, PollGoesOn
<1>7. core.state.known \subseteq HostsAt(sessions[n].url)
  BY <1>2, <1>3 DEF Inv, Good, Fit, Hosted
<1>8. Good(app, sessions', polls', edits, cache)
  BY <1>2, <1>3, <1>4, <1>6, <1>7, GoodSession
<1>9. polls'[t] \in PollCall /\ polls'[t].session = polls[t].session
  BY <1>1, <1>2, <1>4, <1>5 DEF Inv, Good, Fit, Calls
<1> QED
  BY <1>1, <1>6, <1>8, <1>9 DEF Inv

LEMMA FoldPollKeeps ==
    ASSUME Inv, NEW t \in Task, FoldPoll(t)
    PROVE  Inv' /\ polls'[t] \in PollCall /\ polls'[t].session = polls[t].session
<1> DEFINE n == polls[t].session
           core == sessions[n].core
<1>1. polls[t] # None /\ UNCHANGED <<app, edits, store, cache, screen>>
  BY DEF FoldPoll, PollAt
<1>2. /\ polls[t] \in PollCall /\ n \in 1..Len(sessions) /\ n \in Nat
      /\ sessions[n] \in Handle /\ core \in Session
  BY <1>1, PollInHand DEF PollCall
<1>3. PICK seen \in Observation, expired \in SUBSET core.state.known :
        /\ seen.hosts \subseteq HostsAt(sessions[n].url)
        /\ LET next == Released([core EXCEPT
                          !.state = Fold(@, seen, expired \ seen.hosts)])
           IN  /\ sessions' = [sessions EXCEPT ![n].core = next]
               /\ polls' = [polls EXCEPT
                               ![t].at = "answered",
                               ![t].answer = [skipped |-> FALSE,
                                              view    |-> ViewOf(n, next),
                                              advice  |-> AdviceOf(next.state)]]
  BY DEF FoldPoll
<1> DEFINE folded == [core EXCEPT !.state = Fold(@, seen, expired \ seen.hosts)]
           next == Released(folded)
           answer == [skipped |-> FALSE, view |-> ViewOf(n, next),
                      advice |-> AdviceOf(next.state)]
           call == [polls[t] EXCEPT !.at = "answered", !.answer = answer]
<1>4. /\ polls' = [polls EXCEPT ![t] = call]
      /\ sessions' = [sessions EXCEPT ![n].core = next]
  BY <1>3
<1>5. /\ folded \in Session
      /\ folded.state.known \subseteq HostsAt(sessions[n].url)
  <2>1. core.state \in FleetState
    BY <1>2 DEF Session
  <2>2. /\ Fold(core.state, seen, expired \ seen.hosts) \in FleetState
        /\ Fold(core.state, seen, expired \ seen.hosts).known
               \subseteq core.state.known \cup seen.hosts
    BY <2>1, FoldedHosts
  <2>3. core.state.known \subseteq HostsAt(sessions[n].url)
    BY <1>2 DEF Inv, Good, Fit, Hosted
  <2> QED
    BY <1>2, <1>3, <2>2, <2>3 DEF Session
<1> HIDE DEF folded
<1>6. /\ next \in Session
      /\ next.state.known \subseteq HostsAt(sessions[n].url)
  BY <1>5, ReleasedType
<1> HIDE DEF next
<1>7. answer \in PollAnswer /\ answer.view.of = n
  BY <1>2, <1>6, AnswerType
<1> HIDE DEF answer
<1>8. call \in PollCall /\ call.session = n /\ call.answer = answer
  BY <1>2, <1>7 DEF PollCall
<1> HIDE DEF call
<1>9. Good(app, sessions, polls', edits, cache) /\ CanPoll(app, polls')
  BY <1>1, <1>4, <1>7, <1>8, PollGoesOn
<1>10. Good(app, sessions', polls', edits, cache)
  BY <1>2, <1>4, <1>6, <1>9, GoodSession
<1>11. polls'[t] \in PollCall /\ polls'[t].session = polls[t].session
  BY <1>1, <1>2, <1>4, <1>8 DEF Inv, Good, Fit, Calls
<1> QED
  BY <1>1, <1>9, <1>10, <1>11 DEF Inv

LEMMA DeliverPollKeeps ==
    ASSUME Inv, NEW t \in Task, DeliverPoll(t)
    PROVE  Inv'
<1> DEFINE j == [job |-> "answer", task |-> t, session |-> polls[t].session,
                 answer |-> polls[t].answer]
           p == [polls EXCEPT ![t] = None]
<1>1. /\ polls[t] # None /\ polls[t].at = "answered"
      /\ app' = Enqueued(app, j) /\ polls' = p
      /\ UNCHANGED <<sessions, edits, store, cache, screen>>
  BY DEF DeliverPoll, PollAt
<1>2. /\ Good(app, sessions, polls, edits, cache)
      /\ Calls(app.jobs, Len(sessions), polls, edits)
      /\ polls[t] \in PollCall /\ polls[t].session \in 1..Len(sessions)
      /\ NoJobOfTask(app.jobs, t)
      /\ polls[t].session = app.session <=> t = app.pollTask
      /\ app.pollingState = "stopped" => polls[t].session # app.session
  BY <1>1, PollInHand DEF Inv, Good, Fit
<1>3. polls[t].answer \in PollAnswer /\ polls[t].answer.view.of = polls[t].session
  BY <1>1, <1>2 DEF Calls, PollStands
<1>4. Good(app, sessions, p, edits, cache)
  BY <1>2, GoodPoll DEF PollStands
<1>5. p[t] = None /\ \A u \in Task : u # t => p[u] = polls[u]
  BY <1>2 DEF Calls
<1>6. j \in MainJob /\ JobStands(j, Len(sessions), edits)
  BY <1>2, <1>3 DEF MainJob, JobStands, PollCall
<1>7. /\ j.job = "answer" /\ j.task = t /\ j.session = polls[t].session
  OBVIOUS
<1> HIDE DEF j, p
<1>8. /\ Good(app', sessions, p, edits, cache)
      /\ \A u \in Free(app, p) : u # t => u \in Free(app', p)
  BY <1>1, <1>2, <1>4, <1>5, <1>6, <1>7, GoodPush DEF EditJobs
<1>9. Free(app, polls) \subseteq Free(app', p)
  BY <1>1, <1>5, <1>8 DEF Free
<1>10. app'.session = app.session /\ app'.pollTask = app.pollTask
  BY <1>1, <1>2 DEF Enqueued, Good, Fit, Fields
<1> QED
  BY <1>1, <1>8, <1>9, <1>10, CanPollKept DEF Inv

\* An editor's call into a session.
LEMMA EditInHand ==
    ASSUME Inv, NEW e \in Editor, edits[e] # None,
           edits[e].at \in {"called", "waiting", "stored"}
    PROVE  /\ edits[e] \in EditCall /\ edits[e].session \in 1..Len(sessions)
           /\ sessions[edits[e].session] \in Handle
           /\ sessions[edits[e].session].core \in Session
           /\ sessions[edits[e].session].core.state.known
                  \subseteq HostsAt(sessions[edits[e].session].url)
           /\ NoJobOfEditor(app.jobs, e)
           /\ edits[e].op = "forget" => edits[e].arg \in Host
           /\ edits[e].op # "forget" => edits[e].arg \in Config
           /\ edits[e].at = "stored" => edits[e].view \in View
<1>1. /\ Good(app, sessions, polls, edits, cache)
      /\ Calls(app.jobs, Len(sessions), polls, edits)
      /\ sessions \in Seq(Handle) /\ Hosted(app, sessions, cache)
  BY DEF Inv, Good, Fit
<1>2. /\ edits[e] \in EditCall /\ edits[e].session \in 1..Len(sessions)
      /\ edits[e].op = "forget" => edits[e].arg \in Host
      /\ edits[e].op # "forget" => edits[e].arg \in Config
      /\ edits[e].at = "stored" => edits[e].view \in View
  BY <1>1 DEF Calls, EditStands
<1>3. sessions[edits[e].session] \in Handle
  BY <1>1, <1>2, ElementOfSeq
<1>4. NoJobOfEditor(app.jobs, e)
  BY <1>1, EditorHasNoJob
<1> QED
  BY <1>1, <1>2, <1>3, <1>4 DEF Handle, Hosted

LEMMA RequestLockKeeps ==
    ASSUME Inv, NEW e \in Editor, RequestLock(e)
    PROVE  Inv'
<1> DEFINE n == edits[e].session
           core == Requested(sessions[n].core, e)
           call == [edits[e] EXCEPT !.at = "waiting"]
<1>1. /\ edits[e] # None /\ edits[e].at = "called"
      /\ edits' = [edits EXCEPT ![e] = call]
      /\ sessions' = [sessions EXCEPT ![n].core = core]
      /\ UNCHANGED <<app, polls, store, cache, screen>>
  BY DEF RequestLock, EditAt
<1>2. /\ edits[e] \in EditCall /\ n \in 1..Len(sessions)
      /\ sessions[n].core \in Session
      /\ sessions[n].core.state.known \subseteq HostsAt(sessions[n].url)
      /\ NoJobOfEditor(app.jobs, e)
      /\ edits[e].op = "forget" => edits[e].arg \in Host
      /\ edits[e].op # "forget" => edits[e].arg \in Config
  BY <1>1, EditInHand
<1>3. core \in Session /\ core.state = sessions[n].core.state
  BY <1>2, RequestedType, FleetModelAssumption
<1>4. call \in EditCall /\ EditStands(call, Len(sessions))
  BY <1>1, <1>2 DEF EditCall, EditStands
<1> HIDE DEF core, call
<1>5. Good(app, sessions, polls, edits', cache)
  BY <1>1, <1>2, <1>4, GoodEdit DEF Inv
<1>6. Good(app, sessions', polls, edits', cache)
  BY <1>1, <1>2, <1>3, <1>5, GoodSession
<1> QED
  BY <1>1, <1>6 DEF Inv

LEMMA StoreEditKeeps ==
    ASSUME Inv, NEW e \in Editor, StoreEdit(e)
    PROVE  Inv'
<1> DEFINE n == edits[e].session
           core == sessions[n].core
           next == IF edits[e].op = "forget"
                   THEN [core EXCEPT !.state = Forget(@, edits[e].arg)]
                   ELSE [core EXCEPT !.config = edits[e].arg]
           call == [edits[e] EXCEPT !.at = "stored", !.view = ViewOf(n, next)]
<1>1. /\ edits[e] # None /\ edits[e].at = "waiting"
      /\ edits' = [edits EXCEPT ![e] = call]
      /\ sessions' = [sessions EXCEPT ![n].core = Released(next)]
      /\ UNCHANGED <<app, polls, store, cache, screen>>
  BY DEF StoreEdit, EditAt
<1>2. /\ edits[e] \in EditCall /\ n \in 1..Len(sessions) /\ n \in Nat
      /\ core \in Session
      /\ core.state.known \subseteq HostsAt(sessions[n].url)
      /\ NoJobOfEditor(app.jobs, e)
      /\ edits[e].op = "forget" => edits[e].arg \in Host
      /\ edits[e].op # "forget" => edits[e].arg \in Config
  BY <1>1, EditInHand DEF EditCall
<1>3. /\ next \in Session
      /\ next.state.known \subseteq HostsAt(sessions[n].url)
  BY <1>2 DEF Session, FleetState, Forget
<1> HIDE DEF next
<1>4. /\ Released(next) \in Session
      /\ Released(next).state.known \subseteq HostsAt(sessions[n].url)
  BY <1>3, ReleasedType
<1>5. ViewOf(n, next) \in View
  BY <1>2, <1>3, ViewType
<1>6. call \in EditCall /\ EditStands(call, Len(sessions))
  BY <1>1, <1>2, <1>5 DEF EditCall, EditStands
<1> HIDE DEF call
<1>7. Good(app, sessions, polls, edits', cache)
  BY <1>1, <1>2, <1>6, GoodEdit DEF Inv
<1>8. Good(app, sessions', polls, edits', cache)
  BY <1>1, <1>2, <1>4, <1>7, GoodSession
<1> QED
  BY <1>1, <1>8 DEF Inv

LEMMA DeliverEditKeeps ==
    ASSUME Inv, NEW e \in Editor, DeliverEdit(e)
    PROVE  Inv'
<1> DEFINE j == [job |-> "edited", editor |-> e]
           call == [edits[e] EXCEPT !.at = "queued"]
<1>1. /\ edits[e] # None /\ edits[e].at = "stored"
      /\ edits' = [edits EXCEPT ![e] = call] /\ app' = Enqueued(app, j)
      /\ UNCHANGED <<sessions, polls, store, cache, screen>>
  BY DEF DeliverEdit, EditAt
<1>2. /\ edits[e] \in EditCall /\ edits[e].session \in 1..Len(sessions)
      /\ NoJobOfEditor(app.jobs, e) /\ edits[e].view \in View
      /\ edits[e].op = "forget" => edits[e].arg \in Host
      /\ edits[e].op # "forget" => edits[e].arg \in Config
  BY <1>1, EditInHand
<1>3. /\ call \in EditCall /\ EditStands(call, Len(sessions))
      /\ call.at = "queued"
  BY <1>1, <1>2 DEF EditCall, EditStands
<1> HIDE DEF call
<1>4. Good(app, sessions, polls, edits', cache)
  BY <1>1, <1>2, <1>3, GoodEdit DEF Inv
<1>5. edits'[e] = call /\ edits'[e] # None
  BY <1>1, <1>3, NoneIsNoRecord DEF Inv, Good, Fit, Calls
<1>6. j \in MainJob /\ JobStands(j, Len(sessions), edits')
  BY <1>3, <1>5 DEF MainJob, JobStands
<1>7. j.job = "edited" /\ j.editor = e
  OBVIOUS
<1> HIDE DEF j
<1>8. /\ Good(app', sessions, polls, edits', cache)
      /\ Free(app, polls) \subseteq Free(app', polls)
  BY <1>1, <1>2, <1>4, <1>6, <1>7, GoodPush DEF TaskJobs
<1>9. app'.session = app.session /\ app'.pollTask = app.pollTask
  BY <1>1 DEF Enqueued, Inv, Good, Fit, Fields
<1> QED
  BY <1>1, <1>8, <1>9, CanPollKept DEF Inv

LEMMA DeadlineKeeps ==
    ASSUME Inv, DeadlinePasses
    PROVE  Inv'
<1>1. /\ app' = [app EXCEPT !.nextPollAt = "due"]
      /\ UNCHANGED <<sessions, polls, edits, store, cache, screen>>
  BY DEF DeadlinePasses
<1>2. Steady(app, app') /\ Clock(app') /\ app'.pollingState = app.pollingState
  BY <1>1 DEF Inv, Good, Fit, Fields, Steady, Clock
<1>3. /\ Good(app', sessions, polls, edits, cache)
      /\ Free(app', polls) = Free(app, polls)
  BY <1>2, GoodClock DEF Inv
<1> QED
  BY <1>1, <1>2, <1>3, CanPollKept DEF Inv, Steady

LEMMA WakeTimerKeeps ==
    ASSUME Inv, WakeTimer
    PROVE  Inv'
<1>1. PICK i \in app.timers \ QueuedTimers(app) :
          app' = Enqueued(app, [job |-> "timer", timer |-> i])
  BY DEF WakeTimer
<1>2. UNCHANGED <<sessions, polls, edits, store, cache, screen>>
  BY DEF WakeTimer
<1> DEFINE j == [job |-> "timer", timer |-> i]
<1>3. j \in MainJob /\ JobStands(j, Len(sessions), edits) /\ j.job = "timer"
  BY DEF MainJob, JobStands, Inv, Good, Fit, Fields
<1> HIDE DEF j
<1>4. app' = Enqueued(app, j)
  BY <1>1 DEF j
<1>5. /\ Good(app', sessions, polls, edits, cache)
      /\ Free(app, polls) \subseteq Free(app', polls)
  BY <1>3, <1>4, GoodPush DEF Inv, TaskJobs, EditJobs
<1>6. app'.session = app.session /\ app'.pollTask = app.pollTask
  BY <1>4 DEF Enqueued, Inv, Good, Fit, Fields
<1> QED
  BY <1>2, <1>5, <1>6, CanPollKept DEF Inv

\* What the outside finds: a task identity is to be had.
LEMMA BetweenJobs ==
    ASSUME Inv, Between
    PROVE  /\ Free(app, polls) # {} /\ Good(app, sessions, polls, edits, cache)
           /\ Fit(app, sessions, polls, edits, cache) /\ app \in Fields
<1>1. FreeTasks(app) = Free(app, polls)
  BY DEF FreeTasks, Free, QueuedTasks, NoJobOfTask, TaskJobs
<1> QED
  BY <1>1 DEF Between, Inv, Good, Fit

LEMMA ReloadsKeep ==
    ASSUME Inv, Between, NEW st \in Store,
           NEW a, Fit(a, sessions, polls, edits, cache),
           a.session # NoSession => Good(a, sessions, polls, edits, cache),
           Free(app, polls) \subseteq Free(a, polls),
           Reloads(a, st), UNCHANGED <<polls, edits, screen>>
    PROVE  Inv'
<1>1. /\ app' = Reloaded(a, st) /\ sessions' = SessionsReloaded(a, st)
      /\ store' = st /\ cache' = CacheReloaded(a, st)
  BY DEF Reloads
<1>2. /\ Good(app', sessions', polls, edits, cache')
      /\ Free(a, polls) \subseteq Free(app', polls)
  BY <1>1, GoodReload
<1>3. CanPoll(app', polls)
  BY <1>2, BetweenJobs DEF CanPoll
<1> QED
  BY <1>1, <1>2, <1>3 DEF Inv

LEMMA ReloadKeeps ==
    ASSUME Inv, Reload
    PROVE  Inv'
<1>1. PICK st \in Retried(store) : Reloads(app, st)
  BY DEF Reload
<1>2. st \in Store /\ Between /\ UNCHANGED <<polls, edits, screen>>
  BY RetriedType DEF Inv, Reload
<1> QED
  BY <1>1, <1>2, BetweenJobs, ReloadsKeep

LEMMA SettingsChangeKeeps ==
    ASSUME Inv, SettingsChange
    PROVE  Inv'
<1>1. PICK edit \in Edit : Reloads(app, [store EXCEPT !.edit = edit])
  BY DEF SettingsChange
<1>2. /\ [store EXCEPT !.edit = edit] \in Store
      /\ Between /\ UNCHANGED <<polls, edits, screen>>
  BY DEF Inv, SettingsChange, Store
<1> QED
  BY <1>1, <1>2, BetweenJobs, ReloadsKeep

LEMMA ConsentChangeKeeps ==
    ASSUME Inv, ConsentChange
    PROVE  Inv'
<1> DEFINE a == [app EXCEPT !.session = NoSession]
<1>1. Between /\ Reloads(a, store) /\ UNCHANGED <<polls, edits, screen>>
  BY DEF ConsentChange
<1>2. Fit(app, sessions, polls, edits, cache) /\ app \in Fields
  BY <1>1, BetweenJobs
<1>3. /\ a \in Fields /\ a.session = NoSession /\ a.jobs = app.jobs
      /\ a.connection = app.connection /\ a.pollTask = app.pollTask
      /\ a.timers = app.timers /\ a.timerTask = app.timerTask
  BY <1>2 DEF Fields, NoSession
<1> HIDE DEF a
<1>4. Len(sessions) \in Nat
  BY <1>2, LenProperties DEF Fit
<1>5. Fit(a, sessions, polls, edits, cache)
  BY <1>2, <1>3, <1>4 DEF Fit, Connected, Hosted, NoSession
<1>6. Free(app, polls) \subseteq Free(a, polls)
  BY <1>3 DEF Free
<1> QED
  BY <1>1, <1>3, <1>5, <1>6, ReloadsKeep DEF Inv

LEMMA RefreshKeeps ==
    ASSUME Inv, Refresh
    PROVE  Inv'
<1>1. PICK st \in Retried(store) :
          /\ app' = Poll(Reloaded(app, st), TRUE)
          /\ sessions' = SessionsReloaded(app, st)
          /\ store' = st /\ cache' = CacheReloaded(app, st)
  BY DEF Refresh
<1>2. st \in Store /\ Between /\ UNCHANGED <<polls, edits, screen>>
  BY RetriedType DEF Inv, Refresh
<1>3. /\ Good(Reloaded(app, st), sessions', polls, edits, cache')
      /\ Free(app, polls) \subseteq Free(Reloaded(app, st), polls)
  BY <1>1, <1>2, BetweenJobs, GoodReload
<1>4. CanPoll(Reloaded(app, st), polls)
  BY <1>2, <1>3, BetweenJobs DEF CanPoll
<1>5. /\ Good(app', sessions', polls, edits, cache') /\ CanPoll(app', polls)
  BY <1>1, <1>3, <1>4, GoodPollStarted
<1> QED
  BY <1>1, <1>2, <1>5 DEF Inv

LEMMA BackgroundKeeps ==
    ASSUME Inv, Background
    PROVE  Inv'
<1>1. /\ app' = Suspend(app) /\ cache' = Persisted(app, sessions, cache)
      /\ UNCHANGED <<sessions, polls, edits, store, screen>>
  BY DEF Background
<1>2. /\ Good(app', sessions, polls, edits, cache)
      /\ Free(app', polls) = Free(app, polls)
  BY <1>1, GoodSuspend DEF Inv
<1>3. app'.session = app.session /\ app'.pollTask = app.pollTask
  <2>1. Kept(app, CancelTimer(app)) /\ CancelTimer(app) \in Fields
    BY TimerCancelled DEF Inv, Good, Fit
  <2> QED
    BY <1>1, <2>1 DEF Suspend, Kept, Fields
<1>4. Good(app', sessions, polls, edits, cache')
  <2>1. Persisted(app, sessions, cache) = Persisted(app', sessions, cache)
    BY <1>3 DEF Persisted
  <2> QED
    BY <1>1, <1>2, <2>1, GoodCache
<1> QED
  BY <1>1, <1>2, <1>3, <1>4, CanPollKept DEF Inv

LEMMA ForegroundKeeps ==
    ASSUME Inv, Foreground
    PROVE  Inv'
<1>1. PICK st \in Retried(store) :
          /\ app' = Resume(Reloaded(app, st))
          /\ sessions' = SessionsReloaded(app, st)
          /\ store' = st /\ cache' = CacheReloaded(app, st)
  BY DEF Foreground
<1>2. st \in Store /\ Between /\ UNCHANGED <<polls, edits, screen>>
  BY RetriedType DEF Inv, Foreground
<1>3. /\ Good(Reloaded(app, st), sessions', polls, edits, cache')
      /\ Free(app, polls) \subseteq Free(Reloaded(app, st), polls)
  BY <1>1, <1>2, BetweenJobs, GoodReload
<1>4. /\ Good(app', sessions', polls, edits, cache')
      /\ Free(app, polls) \subseteq Free(app', polls)
  BY <1>1, <1>3, GoodResume
<1>5. CanPoll(app', polls)
  BY <1>2, <1>4, BetweenJobs DEF CanPoll
<1> QED
  BY <1>1, <1>2, <1>4, <1>5 DEF Inv

LEMMA WakeKeeps ==
    ASSUME Inv, Wake
    PROVE  Inv'
<1>1. app' = Arm(app) /\ UNCHANGED <<sessions, polls, edits, store, cache, screen>>
  BY DEF Wake
<1>2. /\ Good(app', sessions, polls, edits, cache)
      /\ Free(app', polls) = Free(app, polls) /\ Kept(app, app')
  BY <1>1, GoodArm DEF Inv
<1> QED
  BY <1>1, <1>2, CanPollKept DEF Inv, Kept

LEMMA SaveKeeps ==
    ASSUME Inv, Save
    PROVE  Inv'
<1> DEFINE base == IF app.config # None THEN app.config ELSE StoredConfig(store)
<1>1. PICK url \in Url, edit \in Edit, policy \in Policy :
          SaveTyped(url, [base EXCEPT !.edit = edit, !.liveness = policy])
  BY DEF Save
<1>2. /\ Between /\ edits[Saver] = None /\ UNCHANGED <<polls, screen>>
      /\ Saver \in Editor
  BY DEF Save, Editor
<1>3. /\ Good(app, sessions, polls, edits, cache)
      /\ Fit(app, sessions, polls, edits, cache)
      /\ app \in Fields /\ Free(app, polls) # {}
      /\ Calls(app.jobs, Len(sessions), polls, edits)
  BY <1>2, BetweenJobs DEF Fit
<1> DEFINE config == [base EXCEPT !.edit = edit, !.liveness = policy]
<1>4. config \in Config
  <2>1. base \in Config
    BY <1>3, StoredConfigType DEF Inv, Fields
  <2> QED
    BY <2>1, FleetModelAssumption
<1> HIDE DEF config
<1> DEFINE first == app.sessionState # "ready"
           reloads == first \/ url # store.url
           moved == [store EXCEPT !.url = url]
           st == IF first THEN Saved(moved, config) ELSE moved
           a == IF reloads THEN Reloaded(app, st) ELSE app
           ss == IF reloads THEN SessionsReloaded(app, st) ELSE sessions
           saved == IF reloads THEN CacheReloaded(app, st) ELSE cache
<1>5. \/ /\ app' = a /\ sessions' = ss /\ store' = st /\ cache' = saved
         /\ UNCHANGED edits
      \/ /\ a.sessionState = "ready"
         /\ Apply(a, ss, st, saved, Saver, "save", config)
  BY <1>1 DEF SaveTyped, config
<1>6. st \in Store
  <2>1. moved \in Store
    BY DEF Inv, Store
  <2> QED
    BY <1>4, <2>1, SavedType
<1> HIDE DEF st
<1>7. /\ Good(a, ss, polls, edits, saved)
      /\ Free(app, polls) \subseteq Free(a, polls)
  BY <1>3, <1>6, GoodReload
<1> HIDE DEF a, ss, saved
<1>8. CASE /\ app' = a /\ sessions' = ss /\ store' = st /\ cache' = saved
           /\ UNCHANGED edits
  BY <1>2, <1>3, <1>6, <1>7, <1>8 DEF Inv, CanPoll
<1>9. CASE /\ a.sessionState = "ready"
           /\ Apply(a, ss, st, saved, Saver, "save", config)
  <2>1. a.session # NoSession
    BY <1>7, <1>9 DEF Good, Ready
  <2>2. NoJobOfEditor(a.jobs, Saver)
    <3>1. Calls(a.jobs, Len(ss), polls, edits)
      BY <1>7 DEF Good, Fit
    <3> QED
      BY <1>2, <3>1, EditorHasNoJob
  <2>3. /\ Good(app', sessions', polls, edits', cache') /\ store' \in Store
        /\ Free(a, polls) \subseteq Free(app', polls)
    BY <1>2, <1>4, <1>6, <1>7, <1>9, <2>1, <2>2, ApplyKeeps
  <2> QED
    BY <1>2, <1>3, <1>7, <2>3 DEF Inv, CanPoll
<1> QED
  BY <1>5, <1>8, <1>9

LEMMA ScreenChangeKeeps ==
    ASSUME Inv, NEW host \in Host \cup {None}, ScreenChange(host)
    PROVE  Inv'
<1>1. PICK e \in ScreenTask :
        /\ Between /\ edits[e] = None /\ screen' = host
        /\ edits' = [edits EXCEPT ![e] =
                        [op |-> "focus", at |-> "starting", arg |-> host,
                         session |-> NoSession, view |-> None]]
        /\ app' = Enqueued(app, [job |-> "focus", editor |-> e])
        /\ UNCHANGED <<sessions, polls, store, cache>>
  BY DEF ScreenChange
<1> DEFINE call == [op |-> "focus", at |-> "starting", arg |-> host,
                    session |-> NoSession, view |-> None]
           j == [job |-> "focus", editor |-> e]
<1>2. e \in Editor
  BY DEF Editor
<1>3. /\ Good(app, sessions, polls, edits, cache)
      /\ Calls(app.jobs, Len(sessions), polls, edits)
  BY DEF Inv, Good, Fit
<1>4. NoJobOfEditor(app.jobs, e)
  BY <1>1, <1>2, <1>3, EditorHasNoJob
<1>5. /\ call \in EditCall /\ EditStands(call, Len(sessions))
      /\ call.at = "starting"
  BY DEF EditCall, EditStands, NoSession
<1> HIDE DEF call
<1>6. Good(app, sessions, polls, edits', cache)
  BY <1>1, <1>2, <1>3, <1>4, <1>5, GoodEdit DEF call
<1>7. edits'[e] = call /\ edits'[e] # None
  BY <1>1, <1>2, <1>3, <1>5, NoneIsNoRecord DEF Calls, call
<1>8. /\ j \in MainJob /\ JobStands(j, Len(sessions), edits')
      /\ j.job = "focus" /\ j.editor = e
  BY <1>2, <1>5, <1>7 DEF MainJob, JobStands
<1> HIDE DEF j
<1>9. /\ Good(app', sessions, polls, edits', cache)
      /\ Free(app, polls) \subseteq Free(app', polls)
  BY <1>1, <1>4, <1>6, <1>8, GoodPush DEF TaskJobs, j
<1>10. app'.session = app.session /\ app'.pollTask = app.pollTask
  BY <1>1, <1>3 DEF Enqueued, Good, Fit, Fields
<1> QED
  BY <1>1, <1>9, <1>10, CanPollKept DEF Inv

LEMMA OpenScreenKeeps ==
    ASSUME Inv, OpenScreen
    PROVE  Inv'
<1>1. PICK host \in app.fleet.known : ScreenChange(host)
  BY DEF OpenScreen
<1>2. app.fleet.known \subseteq Host
  BY DEF OpenScreen, Inv, Good, Fit, Fields, View
<1> QED
  BY <1>1, <1>2, ScreenChangeKeeps

LEMMA ForgetHostKeeps ==
    ASSUME Inv, ForgetHost
    PROVE  Inv'
<1>1. PICK e \in ScreenTask :
        /\ edits[e] = None /\ screen # None /\ app.session # NoSession
        /\ edits' = [edits EXCEPT ![e] =
                        [op |-> "forget", at |-> "called", arg |-> screen,
                         session |-> app.session, view |-> None]]
        /\ UNCHANGED <<app, sessions, polls, store, cache, screen>>
  BY DEF ForgetHost
<1> DEFINE call == [op |-> "forget", at |-> "called", arg |-> screen,
                    session |-> app.session, view |-> None]
<1>2. e \in Editor
  BY DEF Editor
<1>3. /\ Good(app, sessions, polls, edits, cache)
      /\ Calls(app.jobs, Len(sessions), polls, edits)
      /\ app.session \in 1..Len(sessions) /\ app.session \in Nat
  BY <1>1 DEF Inv, Good, Fit, Fields, NoSession
<1>4. NoJobOfEditor(app.jobs, e)
  BY <1>1, <1>2, <1>3, EditorHasNoJob
<1>5. call \in EditCall /\ EditStands(call, Len(sessions))
  BY <1>1, <1>3 DEF EditCall, EditStands, Inv
<1> HIDE DEF call
<1>6. Good(app, sessions, polls, edits', cache)
  BY <1>1, <1>2, <1>3, <1>4, <1>5, GoodEdit DEF call
<1> QED
  BY <1>1, <1>6 DEF Inv

\* A launch: nothing but what is on disk.
LEMMA LaunchedIsGood ==
    ASSUME NEW saved \in Cached,
           saved # None => saved.known \subseteq HostsAt(saved.url)
    PROVE  LET pl == [t \in Task |-> None]
               ed == [e \in Editor |-> None]
           IN  Good(Launched, <<>>, pl, ed, saved) /\ CanPoll(Launched, pl)
<1> DEFINE pl == [t \in Task |-> None]
           ed == [e \in Editor |-> None]
<1>1. /\ Launched \in Fields /\ Launched.session = NoSession
      /\ Launched.jobs = <<>> /\ Launched.timers = {}
      /\ Launched.connection = None /\ Launched.pollingState = "idle"
      /\ Launched.sessionState = "unconfigured"
  BY DEF Launched, Fields, PollingState, NoSession
<1>2. Calls(<<>>, 0, pl, ed)
  BY DEF Calls, Apart, PollStands, EditStands
<1>3. Fit(Launched, <<>>, pl, ed, saved)
  BY <1>1, <1>2 DEF Fit, Connected, Hosted, NoSession
<1> QED
  BY <1>1, <1>3
  DEF Good, Clock, Ready, OwnPoll, StopIsQuiet, CanPoll

LEMMA RelaunchKeeps ==
    ASSUME Inv, Relaunch
    PROVE  Inv'
<1>1. /\ app' = Launched /\ sessions' = <<>> /\ polls' = [t \in Task |-> None]
      /\ edits' = [e \in Editor |-> None] /\ screen' = None
      /\ cache' = cache \/ cache' = Persisted(app, sessions, cache)
  BY DEF Relaunch
<1>2. store' \in Store
  BY DEF Relaunch, Inv, Store
<1>3. Good(app, sessions, polls, edits, cache')
  BY <1>1, GoodCache DEF Inv
<1>4. /\ cache' \in Cached
      /\ cache' # None => cache'.known \subseteq HostsAt(cache'.url)
  BY <1>3 DEF Good, Fit, Hosted
<1> QED
  BY <1>1, <1>2, <1>4, LaunchedIsGood DEF Inv

LEMMA InitGood ==
    ASSUME Init
    PROVE  Inv
<1>1. /\ app = Launched /\ sessions = <<>> /\ polls = [t \in Task |-> None]
      /\ edits = [e \in Editor |-> None] /\ screen = None
  BY DEF Init
<1>2. store \in Store
  BY DEF Init, Store
<1>3. /\ cache \in Cached
      /\ cache # None => cache.known \subseteq HostsAt(cache.url)
  BY FleetModelAssumption DEF Init, Cached
<1> QED
  BY <1>1, <1>2, <1>3, LaunchedIsGood DEF Inv

LEMMA NextKeeps ==
    ASSUME Inv, [Next]_vars
    PROVE  Inv'
<1>1. CASE RunMain
  BY <1>1, RunBodyKeeps, RunAnswerKeeps, RunDoneKeeps, RunTimerKeeps,
     RunFocusKeeps, RunEditedKeeps DEF RunMain
<1>2. CASE CallStep
  BY <1>2, SkipPollKeeps, BeginPollKeeps, FoldPollKeeps, DeliverPollKeeps,
     RequestLockKeeps, StoreEditKeeps, DeliverEditKeeps DEF CallStep
<1>3. CASE DeadlinePasses \/ WakeTimer
  BY <1>3, DeadlineKeeps, WakeTimerKeeps
<1>4. CASE Outside
  <2>1. CASE CloseScreen
    BY <2>1, ScreenChangeKeeps DEF CloseScreen
  <2> QED
    BY <1>4, <2>1, ReloadKeeps, SettingsChangeKeeps, ConsentChangeKeeps,
       RefreshKeeps, BackgroundKeeps, ForegroundKeeps, WakeKeeps, SaveKeeps,
       OpenScreenKeeps, ForgetHostKeeps, RelaunchKeeps DEF Outside
<1>5. CASE UNCHANGED vars
  BY <1>5 DEF Inv, vars
<1> QED
  BY <1>1, <1>2, <1>3, <1>4, <1>5 DEF Next

-----------------------------------------------------------------------------
(***************************************************************************)
(* What follows.                                                           *)
(***************************************************************************)

\* Two polls of the session in force are one.
LEMMA AtMostOne ==
    ASSUME NEW S, \A x, y \in S : x = y
    PROVE  Cardinality(S) <= 1
<1>1. CASE S = {}
  BY <1>1, FS_EmptySet
<1>2. CASE S # {}
  <2>1. PICK x \in S : TRUE
    BY <1>2
  <2>2. S = {x}
    BY <2>1
  <2> QED
    BY <2>2, FS_Singleton
<1> QED
  BY <1>1, <1>2

LEMMA InvOneLoop ==
    ASSUME Inv
    PROVE  OneLoop
<1>1. /\ Good(app, sessions, polls, edits, cache)
      /\ Fit(app, sessions, polls, edits, cache)
      /\ Calls(app.jobs, Len(sessions), polls, edits)
  BY DEF Inv, Good, Fit
<1>2. TypeOK
  BY <1>1 DEF TypeOK, Inv, Fit, Calls, Cached
<1>3. OneClock
  <2>1. \A x, y \in app.timers : x = y
    BY <1>1 DEF Good, Clock
  <2> QED
    BY <1>1, <2>1, AtMostOne DEF OneClock, Good, Clock
<1>4. ASSUME app.session # NoSession
      PROVE  Cardinality(PollsOf(app.session)) <= 1
  <2>1. ASSUME NEW i \in 1..Len(app.jobs),
               app.jobs[i].job \in {"body", "answer"},
               app.jobs[i].session = app.session
        PROVE  app.jobs[i].task = app.pollTask /\ polls[app.pollTask] = None
    BY <1>1, <2>1 DEF Good, OwnPoll, Calls, Apart, TaskJobs
  <2>2. ASSUME NEW t \in Task, polls[t] # None, polls[t].session = app.session
        PROVE  t = app.pollTask
    BY <1>1, <2>2 DEF Good, OwnPoll
  <2>3. ASSUME NEW i \in 1..Len(app.jobs), NEW k \in 1..Len(app.jobs),
               app.jobs[i].job \in {"body", "answer"},
               app.jobs[i].session = app.session,
               app.jobs[k].job \in {"body", "answer"},
               app.jobs[k].session = app.session
        PROVE  i = k
    BY <1>1, <2>1, <2>3 DEF Calls, Apart, TaskJobs
  <2>4. \A x, y \in PollsOf(app.session) : x = y
    BY <2>1, <2>2, <2>3 DEF PollsOf, Jobs
  <2> QED
    BY <2>4, AtMostOne
<1> QED
  BY <1>2, <1>3, <1>4 DEF OneLoop, OnePollAtATime

LEMMA InvHosts ==
    ASSUME Inv
    PROVE  HostsOfTheBackend
<1>1. Hosted(app, sessions, cache) /\ Connected(app)
  BY DEF Inv, Good, Fit
<1>2. app.session # NoSession => app.connection # None
  BY <1>1, FleetModelAssumption DEF Connected
<1> QED
  BY <1>1, <1>2
  DEF Hosted, HostsOfTheBackend, NoForeignHosts, CacheIsOfTheBackend

LEMMA SpecInv == Spec => []Inv
BY InitGood, NextKeeps, PTL DEF Spec

\* There is one loop: whatever the main actor runs, the system calls and the
\* user presses, the model keeps one timer, polls its session once at a time,
\* and never holds a value of another kind (`arm`, `poll`, `adopt`).
THEOREM OneLoopAlways == Spec => []OneLoop
BY SpecInv, InvOneLoop, PTL

\* Hosts stay with their backend: across every rebuild, fold, forgotten host and
\* relaunch, no session and no cache in use lists a host its backend never had
\* (`reloadSettings`, `applyConfig`, `persistState`).
THEOREM HostsStayWithTheirBackend == Spec => []HostsOfTheBackend
BY SpecInv, InvHosts, PTL

-----------------------------------------------------------------------------
(***************************************************************************)
(* A stop is the user's to lift.                                           *)
(***************************************************************************)

\* A stop of a is still one in b, has been lifted by a poll, or went with the
\* session.
Stands(a, b) ==
    a.pollingState = "stopped" /\ b.session = a.session
        => b.pollingState \in {"stopped", "polling"}

\* A method that leaves the session alone leaves a stop alone.
LEMMA PollLeavesState ==
    ASSUME NEW a \in Fields, NEW resuming
    PROVE  /\ Poll(a, resuming).pollingState = a.pollingState
           /\ Poll(a, resuming).session = a.session
BY DEF Poll, Fields

\* What a reload or a Save leaves of the fields a: the same, no session, or
\* one that no call and no job is about.
Reset(a, b) ==
    \/ b = a /\ a.session # NoSession
    \/ TornDown(a, b)
    \/ \E m \in Nat, handle \in Handle :
           m > Len(sessions) /\ Renewed(a, b, m, handle)

\* With a session, that is the same fields or another session or none.
LEMMA ResetMovesOn ==
    ASSUME NEW a, NEW b, Reset(a, b), Len(sessions) \in Nat,
           NEW n \in 1..Len(sessions)
    PROVE  b = a \/ b.session # n
BY DEF Reset, TornDown, Renewed, NoSession

LEMMA ReloadResets ==
    ASSUME NEW a, Fit(a, sessions, polls, edits, cache), NEW st \in Store
    PROVE  Reset(a, Reloaded(a, st)) /\ Reloaded(a, st) \in Fields
<1>1. /\ a \in Fields /\ a.session \in 0..Len(sessions)
      /\ a.timers \subseteq {a.timerTask} /\ Connected(a)
      /\ sessions \in Seq(Handle) /\ cache \in Cached
      /\ Len(sessions) + 1 \in Nat /\ Len(sessions) + 1 > Len(sessions)
  BY LenProperties DEF Fit
<1>2. Stayed(a, st) \/ WentDown(a, st) \/ WasReplaced(a, st)
  BY <1>1, ReloadCases
<1>3. CASE Stayed(a, st)
  BY <1>1, <1>3 DEF Stayed, Reset
<1>4. CASE WentDown(a, st)
  BY <1>4 DEF WentDown, TornDown, Reset
<1>5. CASE WasReplaced(a, st)
  BY <1>1, <1>5 DEF WasReplaced, Renewed, Reset
<1> QED
  BY <1>2, <1>3, <1>4, <1>5

LEMMA SaveResets ==
    ASSUME Inv, Save
    PROVE  Reset(app, app')
<1> DEFINE base == IF app.config # None THEN app.config ELSE StoredConfig(store)
<1>1. PICK url \in Url, edit \in Edit, policy \in Policy :
          SaveTyped(url, [base EXCEPT !.edit = edit, !.liveness = policy])
  BY DEF Save
<1>2. /\ Good(app, sessions, polls, edits, cache)
      /\ Fit(app, sessions, polls, edits, cache)
      /\ app \in Fields /\ Len(sessions) \in Nat /\ sessions \in Seq(Handle)
      /\ Saver \in Editor /\ edits[Saver] = None
  BY LenProperties DEF Inv, Good, Fit, NoSession, Save, Editor
<1> DEFINE config == [base EXCEPT !.edit = edit, !.liveness = policy]
<1>3. config \in Config
  <2>1. base \in Config
    BY <1>2, StoredConfigType DEF Inv, Fields
  <2> QED
    BY <2>1, FleetModelAssumption
<1> HIDE DEF config
<1> DEFINE first == app.sessionState # "ready"
           reloads == first \/ url # store.url
           moved == [store EXCEPT !.url = url]
           st == IF first THEN Saved(moved, config) ELSE moved
           a == IF reloads THEN Reloaded(app, st) ELSE app
           ss == IF reloads THEN SessionsReloaded(app, st) ELSE sessions
           saved == IF reloads THEN CacheReloaded(app, st) ELSE cache
<1>4. \/ app' = a
      \/ /\ a.sessionState = "ready"
         /\ Apply(a, ss, st, saved, Saver, "save", config)
  BY <1>1 DEF SaveTyped, config
<1>5. st \in Store
  <2>1. moved \in Store
    BY DEF Inv, Store
  <2> QED
    BY <1>3, <2>1, SavedType
<1> HIDE DEF st
<1>6. /\ Reset(app, a) /\ a.jobs = app.jobs /\ a.isSuspended = app.isSuspended
      /\ Good(a, ss, polls, edits, saved)
  <2>1. Good(a, ss, polls, edits, saved)
    BY <1>2, <1>5, GoodReload
  <2>2. Reset(app, a)
    BY <1>2, <1>5, ReloadResets DEF Reset, Good, Ready
  <2> QED
    BY <2>1, <2>2 DEF Reset, TornDown, Renewed
<1>7. Len(ss) \in Nat /\ Len(ss) >= Len(sessions)
  <2>1. ss = sessions \/ ss = Append(sessions, Rebuilt(app, st))
    BY DEF SessionsReloaded
  <2> QED
    BY <1>2, <1>6, <2>1, AppendProperties, LenProperties DEF Good, Fit
<1> HIDE DEF a, ss, saved
<1>8. CASE /\ a.sessionState = "ready"
           /\ Apply(a, ss, st, saved, Saver, "save", config)
  <2>1. a.session # NoSession
    BY <1>6, <1>8 DEF Good, Ready
  <2>2. NoJobOfEditor(a.jobs, Saver)
    BY <1>2, <1>6, EditorHasNoJob DEF Good, Fit
  <2>3. Applied(a, ss, Saver, "save", config)
    BY <1>2, <1>3, <1>5, <1>6, <1>8, <2>1, <2>2, ApplyKeeps
  <2>4. ASSUME NEW handle \in Handle, Renewed(a, app', Len(ss) + 1, handle)
        PROVE  Reset(app, app')
    <3>1. QueuedTimers(a) = QueuedTimers(app)
      BY <1>6 DEF QueuedTimers
    <3>2. Renewed(app, app', Len(ss) + 1, handle)
      BY <1>6, <2>4, <3>1 DEF Renewed, FreshTimers
    <3>3. Len(ss) + 1 \in Nat /\ Len(ss) + 1 > Len(sessions)
      BY <1>2, <1>7
    <3> QED
      BY <3>2, <3>3 DEF Reset
  <2> QED
    BY <1>6, <2>3, <2>4 DEF Applied
<1> QED
  BY <1>4, <1>6, <1>8

LEMMA StoppedHasSession ==
    ASSUME Inv, app.pollingState = "stopped"
    PROVE  /\ app.session \in 1..Len(sessions) /\ app.session # NoSession
           /\ app.session \in Nat /\ Len(sessions) \in Nat
           /\ IsQuiet(app, polls) /\ app \in Fields
           /\ Good(app, sessions, polls, edits, cache)
           /\ Fit(app, sessions, polls, edits, cache)
BY LenProperties DEF Inv, Good, Fit, StopIsQuiet, NoSession, Fields

LEMMA JobsLeaveStop ==
    ASSUME Inv, RunMain
    PROVE  Stands(app, app')
<1> SUFFICES ASSUME app.pollingState = "stopped", app'.session = app.session
             PROVE  app'.pollingState \in {"stopped", "polling"}
  BY DEF Stands
<1>1. /\ app.session \in 1..Len(sessions) /\ IsQuiet(app, polls)
      /\ app \in Fields /\ Len(sessions) \in Nat
  BY StoppedHasSession
<1>2. app.jobs # <<>>
  BY DEF RunMain, RunBody, RunAnswer, RunDone, RunTimer, RunFocus, RunEdited,
         HeadIs
<1>3. /\ Popped \in Fields /\ Popped.pollingState = "stopped"
      /\ Popped.session = app.session /\ Popped.connection = app.connection
      /\ Good(Popped, sessions, polls, edits, cache)
      /\ app.jobs \in Seq(MainJob) /\ Popped.config = app.config
  BY <1>1, <1>2, HeadOfQueue DEF Good, Fit, Fields
<1>4. CASE RunBody
  BY <1>3, <1>4 DEF RunBody, Fields
<1>5. CASE RunAnswer
  <2>1. Job = app.jobs[1] /\ 1 \in 1..Len(app.jobs)
    BY <1>2, <1>3, PoppedQueue DEF Job
  <2>2. Job.session # app.session
    BY <1>1, <1>5, <2>1 DEF IsQuiet, RunAnswer, HeadIs
  <2>3. app' = Enqueued(Popped, [job |-> "done", task |-> Job.task])
    BY <1>5, <2>2 DEF RunAnswer
  <2> QED
    BY <1>3, <2>3 DEF Enqueued, Fields
<1>6. CASE RunDone
  BY <1>3, <1>6 DEF RunDone, Fields
<1>7. CASE RunTimer
  <2> DEFINE b == [Popped EXCEPT !.timers = @ \ {Job.timer}]
  <2>1. app' = Popped \/ app' = Poll(b, FALSE)
    BY <1>7 DEF RunTimer
  <2>2. b \in Fields /\ b.pollingState = "stopped"
    BY <1>3 DEF Fields
  <2> HIDE DEF b
  <2> QED
    BY <1>3, <2>1, <2>2, PollLeavesState
<1>8. CASE RunFocus
  <2> DEFINE e == Job.editor
             config == [app.config EXCEPT !.focus = edits[e].arg]
  <2>1. \/ app' = Popped
        \/ /\ app.config # None
           /\ Apply(Popped, sessions, store, cache, e, "focus", config)
    BY <1>8 DEF RunFocus
  <2>2. CASE app' = Popped
    BY <1>3, <2>2
  <2>3. CASE /\ app.config # None
             /\ Apply(Popped, sessions, store, cache, e, "focus", config)
    <3>1. app.config \in Config
      BY <1>1, <2>3 DEF Fields
    <3>2. config.liveness = Popped.config.liveness
      BY <1>3, <3>1, FleetModelAssumption
    <3> QED
      BY <1>3, <2>3, <3>2 DEF Apply
  <2> QED
    BY <2>1, <2>2, <2>3
<1>9. CASE RunEdited
  <2> DEFINE call == edits[Job.editor]
             f == [Popped EXCEPT !.fleet = call.view]
             c == [Popped EXCEPT !.config = call.arg]
  <2>1. app' = f \/ app' = PollSoon(c)
    BY <1>9 DEF RunEdited
  <2>2. f.pollingState = "stopped" /\ c.pollingState = "stopped"
    BY <1>3 DEF Fields
  <2> HIDE DEF f, c
  <2> QED
    BY <2>1, <2>2 DEF PollSoon
<1> QED
  BY <1>4, <1>5, <1>6, <1>7, <1>8, <1>9 DEF RunMain

LEMMA CallsLeaveStop ==
    ASSUME Inv, CallStep \/ DeadlinePasses \/ WakeTimer
    PROVE  Stands(app, app')
<1>1. app \in Fields
  BY DEF Inv, Good, Fit
<1>2. app'.pollingState = app.pollingState
  BY <1>1 DEF CallStep, SkipPoll, BeginPoll, FoldPoll, DeliverPoll,
     RequestLock, StoreEdit, DeliverEdit, DeadlinePasses, WakeTimer,
     Enqueued, Fields
<1> QED
  BY <1>2 DEF Stands

LEMMA OutsideLeavesStop ==
    ASSUME Inv, Outside
    PROVE  Stands(app, app')
<1> SUFFICES ASSUME app.pollingState = "stopped", app'.session = app.session
             PROVE  app'.pollingState \in {"stopped", "polling"}
  BY DEF Stands
<1>1. /\ app.session \in 1..Len(sessions) /\ app.session # NoSession
      /\ app \in Fields /\ Len(sessions) \in Nat
      /\ Good(app, sessions, polls, edits, cache)
      /\ Fit(app, sessions, polls, edits, cache)
  BY StoppedHasSession
<1>2. ASSUME NEW st \in Store
      PROVE  /\ Reloaded(app, st) \in Fields
             /\ Reloaded(app, st) = app
                   \/ Reloaded(app, st).session # app.session
  BY <1>1, ReloadResets, ResetMovesOn
<1>3. CASE Reload
  BY <1>2, <1>3, RetriedType DEF Reload, Reloads, Inv
<1>4. CASE SettingsChange
  <2>1. PICK edit \in Edit : Reloads(app, [store EXCEPT !.edit = edit])
    BY <1>4 DEF SettingsChange
  <2>2. [store EXCEPT !.edit = edit] \in Store
    BY DEF Inv, Store
  <2> QED
    BY <1>2, <2>1, <2>2 DEF Reloads
<1>5. CASE ConsentChange
  <2> DEFINE a == [app EXCEPT !.session = NoSession]
  <2>1. app' = Reloaded(a, store)
    BY <1>5 DEF ConsentChange, Reloads
  <2>2. /\ a \in Fields /\ a.session = NoSession /\ a.jobs = app.jobs
        /\ a.connection = app.connection
        /\ a.timers = app.timers /\ a.timerTask = app.timerTask
    BY <1>1 DEF Fields, NoSession
  <2> HIDE DEF a
  <2>3. Fit(a, sessions, polls, edits, cache)
    BY <1>1, <2>2 DEF Fit, Connected, Hosted, NoSession
  <2> QED
    BY <1>1, <2>1, <2>2, <2>3, ReloadResets, ResetMovesOn DEF Inv
<1>6. CASE Refresh
  <2>1. PICK st \in Retried(store) : app' = Poll(Reloaded(app, st), TRUE)
    BY <1>6 DEF Refresh
  <2>2. st \in Store
    BY RetriedType DEF Inv
  <2> QED
    BY <1>2, <2>1, <2>2, PollLeavesState
<1>7. CASE Background
  <2>1. CancelTimer(app).pollingState = "stopped" /\ CancelTimer(app) \in Fields
    BY <1>1, TimerCancelled DEF Fit
  <2> QED
    BY <1>7, <2>1 DEF Background, Suspend, Fields
<1>8. CASE Foreground
  <2>1. PICK st \in Retried(store) : app' = Resume(Reloaded(app, st))
    BY <1>8 DEF Foreground
  <2>2. st \in Store
    BY RetriedType DEF Inv
  <2> DEFINE a == Reloaded(app, st)
  <2>3. a \in Fields /\ (a = app \/ a.session # app.session)
    BY <1>2, <2>2
  <2> HIDE DEF a
  <2>4. app' = Resume(a)
    BY <2>1 DEF a
  <2>5. CASE a = app
    BY <1>1, <2>4, <2>5 DEF Resume, Fields
  <2>6. CASE a.session # app.session
    <3>1. Resume(a).session = a.session
      BY <2>3 DEF Resume, Arm, CancelTimer, Fields
    <3> QED
      BY <2>4, <2>6, <3>1
  <2> QED
    BY <2>3, <2>5, <2>6
<1>9. CASE Wake
  BY <1>9 DEF Wake, Arm
<1>10. CASE Save
  BY <1>1, <1>10, SaveResets, ResetMovesOn
<1>11. CASE OpenScreen \/ CloseScreen \/ ForgetHost
  BY <1>1, <1>11
  DEF OpenScreen, CloseScreen, ScreenChange, ForgetHost, Enqueued, Fields
<1>12. CASE Relaunch
  BY <1>1, <1>12 DEF Relaunch, Launched
<1> QED
  BY <1>3, <1>4, <1>5, <1>6, <1>7, <1>8, <1>9, <1>10, <1>11, <1>12 DEF Outside

\* A stop outlives every timer, answer, wake, resume, save and notice: only the
\* poll a user asks for, or another session, lifts it (`arm`, `pollNow`,
\* `resume`, `reloadSettings`).
THEOREM StopOutlivesEverythingElse == Spec => StopIsTheUsersToLift
<1>1. ASSUME Inv, [Next]_vars
      PROVE  [Stands(app, app')]_vars
  BY <1>1, JobsLeaveStop, CallsLeaveStop, OutsideLeavesStop DEF Next
<1>2. Stands(app, app') =>
          (app.pollingState = "stopped" /\ app'.session = app.session
               => app'.pollingState \in {"stopped", "polling"})
  BY DEF Stands
<1> QED
  BY <1>1, <1>2, SpecInv, PTL DEF Spec, StopIsTheUsersToLift

-----------------------------------------------------------------------------
(***************************************************************************)
(* The macOS app, which is never suspended and edits nothing but by a      *)
(* Save: its clock never runs dry, and its screen shows the session in     *)
(* force.                                                                  *)
(***************************************************************************)

\* The job at i is a poll of the session in force, or the end of its task.
Own(a, i) == a.jobs[i].job \in {"body", "answer"} /\ a.jobs[i].session = a.session
Ends(a, i) == a.jobs[i].job = "done" /\ a.jobs[i].task = a.pollTask

HasPoll(a, pl) ==
    \/ \E i \in 1..Len(a.jobs) : Own(a, i)
    \/ \E t \in Task : pl[t] # None /\ pl[t].session = a.session

\* A model that should be polling has a poll of its session under way, or a
\* timer and the time it is set for.
Waits(a, pl) ==
    a.session # NoSession /\ a.pollingState # "stopped"
        => HasPoll(a, pl) \/ (a.timers # {} /\ a.nextPollAt # None)

\* The task to join has its poll under way, or is about to be cleared.
TaskLives(a, pl) ==
    a.session # NoSession /\ a.pollTask # None
        => HasPoll(a, pl) \/ \E i \in 1..Len(a.jobs) : Ends(a, i)

\* A timer that woke before its task ended is not the one that is alive: the
\* one alive was set since, or the task would have been cleared before it.
TimersInOrder(a) ==
    \A i, k \in 1..Len(a.jobs) :
        i < k /\ a.jobs[i].job = "timer" /\ Ends(a, k)
            => a.jobs[i].timer \notin a.timers

\* A body of a session that has been replaced, which will say "polling" of the
\* session in force, runs before any body of that one: so that one has not
\* answered, and has not stopped.
OldBody(a, i) == a.jobs[i].job = "body" /\ a.jobs[i].session # a.session

OldBodiesFirst(a, pl) ==
    a.session # NoSession =>
        \A i \in 1..Len(a.jobs) : OldBody(a, i) =>
            /\ a.pollingState # "stopped"
            /\ \A t \in Task : pl[t] # None => pl[t].session # a.session
            /\ \A k \in 1..Len(a.jobs) :
                   Own(a, k) => a.jobs[k].job = "body" /\ i < k

Clocked(a, pl) ==
    Waits(a, pl) /\ TaskLives(a, pl) /\ TimersInOrder(a) /\ OldBodiesFirst(a, pl)

\* The clock moves.
LEMMA ClockedTick ==
    ASSUME NEW a, NEW pl, Clocked(a, pl), NEW b,
           b.jobs = a.jobs, b.session = a.session, b.pollTask = a.pollTask,
           b.pollingState = "stopped" =>
               a.pollingState = "stopped" \/ \A i \in 1..Len(a.jobs) : ~OldBody(a, i),
           b.timers \subseteq a.timers \/ FreshTimers(a, b),
           Waits(b, pl)
    PROVE  Clocked(b, pl)
<1>1. HasPoll(b, pl) = HasPoll(a, pl)
  BY DEF HasPoll, Own
<1>2. \A i \in 1..Len(a.jobs) :
          /\ Ends(b, i) = Ends(a, i) /\ OldBody(b, i) = OldBody(a, i)
          /\ Own(b, i) = Own(a, i)
  BY DEF Ends, OldBody, Own
<1>3. TimersInOrder(b)
  BY <1>2 DEF Clocked, TimersInOrder, FreshTimers, QueuedTimers
<1>4. TaskLives(b, pl)
  BY <1>1, <1>2 DEF Clocked, TaskLives
<1>5. OldBodiesFirst(b, pl)
  BY <1>2 DEF Clocked, OldBodiesFirst
<1> QED
  BY <1>3, <1>4, <1>5 DEF Clocked

\* The head leaves, and is no poll of the session in force.
LEMMA ClockedPop ==
    ASSUME NEW a \in Fields, NEW pl, a.jobs # <<>>,
           TimersInOrder(a), OldBodiesFirst(a, pl),
           NEW b, b.jobs = Tail(a.jobs), b.session = a.session,
           b.pollTask = a.pollTask, b.pollingState = a.pollingState,
           b.timers \subseteq a.timers
    PROVE  /\ TimersInOrder(b) /\ OldBodiesFirst(b, pl)
           /\ ~Own(a, 1) => HasPoll(b, pl) = HasPoll(a, pl)
           /\ \A i \in 1..Len(a.jobs) :
                  Ends(a, i) => i = 1 \/ \E k \in 1..Len(b.jobs) : Ends(b, k)
           /\ a.session # NoSession /\ Own(a, 1) =>
                  \A i \in 1..Len(b.jobs) : ~OldBody(b, i)
<1> DEFINE n == Len(a.jobs)
           m == Len(b.jobs)
<1>1. /\ a.jobs \in Seq(MainJob) /\ n \in Nat \ {0} /\ m = n - 1
      /\ \A i \in 1..m : i + 1 \in 1..n /\ b.jobs[i] = a.jobs[i + 1]
  BY PoppedQueue DEF Fields
<1>2. 1 \in 1..n /\ \A i \in 1..n : i = 1 \/ (i - 1 \in 1..m /\ (i - 1) + 1 = i)
  BY <1>1
<1>3. \A i \in 1..m : /\ Own(b, i) = Own(a, i + 1)
                      /\ OldBody(b, i) = OldBody(a, i + 1)
                      /\ Ends(b, i) = Ends(a, i + 1)
  BY <1>1 DEF Own, OldBody, Ends
<1>4. TimersInOrder(b)
  <2>1. ASSUME NEW i \in 1..m, NEW k \in 1..m, i < k,
               b.jobs[i].job = "timer", Ends(b, k)
        PROVE  b.jobs[i].timer \notin b.timers
    <3>1. i + 1 \in 1..n /\ k + 1 \in 1..n /\ i + 1 < k + 1
      BY <1>1, <2>1
    <3> QED
      BY <1>1, <1>3, <2>1, <3>1 DEF TimersInOrder
  <2> QED
    BY <2>1 DEF TimersInOrder
<1>5. OldBodiesFirst(b, pl)
  <2>1. ASSUME NEW i \in 1..m, OldBody(b, i), a.session # NoSession
        PROVE  /\ b.pollingState # "stopped"
               /\ \A t \in Task : pl[t] # None => pl[t].session # b.session
               /\ \A k \in 1..m : Own(b, k) => b.jobs[k].job = "body" /\ i < k
    <3>1. i + 1 \in 1..n /\ OldBody(a, i + 1)
      BY <1>1, <1>3, <2>1
    <3>2. ASSUME NEW k \in 1..m, Own(b, k)
          PROVE  b.jobs[k].job = "body" /\ i < k
      <4>1. /\ k + 1 \in 1..n /\ Own(a, k + 1) /\ b.jobs[k] = a.jobs[k + 1]
        BY <1>1, <1>3, <3>2
      <4>2. a.jobs[k + 1].job = "body" /\ i + 1 < k + 1
        BY <2>1, <3>1, <4>1 DEF OldBodiesFirst
      <4> QED
        BY <4>1, <4>2
    <3> QED
      BY <2>1, <3>1, <3>2 DEF OldBodiesFirst
  <2> QED
    BY <2>1 DEF OldBodiesFirst
<1>6. ~Own(a, 1) => HasPoll(b, pl) = HasPoll(a, pl)
  <2>1. ASSUME ~Own(a, 1)
        PROVE  (\E i \in 1..n : Own(a, i)) <=> (\E i \in 1..m : Own(b, i))
    <3>1. ASSUME NEW i \in 1..n, Own(a, i)
          PROVE  \E k \in 1..m : Own(b, k)
      <4>1. i - 1 \in 1..m /\ (i - 1) + 1 = i
        BY <1>2, <2>1, <3>1
      <4> QED
        BY <1>3, <3>1, <4>1
    <3> QED
      BY <1>1, <1>3, <3>1
  <2> QED
    BY <2>1 DEF HasPoll
<1>7. ASSUME NEW i \in 1..n, Ends(a, i), i # 1
      PROVE  \E k \in 1..m : Ends(b, k)
  <2>1. i - 1 \in 1..m /\ (i - 1) + 1 = i
    BY <1>2, <1>7
  <2> QED
    BY <1>3, <1>7, <2>1
<1>8. ASSUME a.session # NoSession, Own(a, 1), NEW i \in 1..m
      PROVE  ~OldBody(b, i)
  <2>1. i + 1 \in 1..n /\ ~(i + 1 < 1)
    BY <1>1, <1>8
  <2> QED
    BY <1>2, <1>3, <1>8, <2>1 DEF OldBodiesFirst
<1> QED
  BY <1>4, <1>5, <1>6, <1>7, <1>8

\* A job that joins the queue leaves the polls and the ends already there.
LEMMA PushedPolls ==
    ASSUME NEW a \in Fields, NEW j \in MainJob, NEW b, NEW pl,
           b.jobs = Append(a.jobs, j), b.session = a.session
    PROVE  /\ HasPoll(a, pl) => HasPoll(b, pl)
           /\ j.job \in {"body", "answer"} /\ j.session = a.session
                  => HasPoll(b, pl)
           /\ b.pollTask = a.pollTask =>
                  \A i \in 1..Len(a.jobs) : i \in 1..Len(b.jobs)
                                            /\ Ends(b, i) = Ends(a, i)
           /\ j.job = "done" /\ j.task = b.pollTask =>
                  \E i \in 1..Len(b.jobs) : Ends(b, i)
<1> DEFINE n == Len(a.jobs)
<1>1. /\ n \in Nat /\ Len(b.jobs) = n + 1
      /\ \A i \in 1..n : i \in 1..(n + 1) /\ b.jobs[i] = a.jobs[i]
      /\ b.jobs[n + 1] = j /\ n + 1 \in 1..(n + 1)
  BY PushedQueue DEF Fields
<1>2. \A i \in 1..n : Own(b, i) = Own(a, i)
  BY <1>1 DEF Own
<1>3. HasPoll(a, pl) => HasPoll(b, pl)
  BY <1>1, <1>2 DEF HasPoll
<1>4. j.job \in {"body", "answer"} /\ j.session = a.session => HasPoll(b, pl)
  BY <1>1 DEF HasPoll, Own
<1> QED
  BY <1>1, <1>3, <1>4 DEF Ends

\* A job joins the queue: no end of the task to join, no answer of the session
\* in force, no body of another.
LEMMA ClockedPush ==
    ASSUME NEW a \in Fields, NEW pl, NEW j \in MainJob, NEW b,
           TimersInOrder(a), OldBodiesFirst(a, pl),
           Waits(b, pl), TaskLives(b, pl),
           b.jobs = Append(a.jobs, j), b.session = a.session,
           b.pollingState = a.pollingState, b.timers = a.timers,
           b.pollTask = a.pollTask \/ \A i \in 1..Len(a.jobs) : ~Ends(b, i),
           j.job = "done" => \/ j.task # b.pollTask
                             \/ \A i \in a.timers : i \notin QueuedTimers(a),
           j.job = "answer" => \/ j.session # a.session
                               \/ \A i \in 1..Len(a.jobs) : ~OldBody(a, i),
           j.job = "body" => j.session = a.session
    PROVE  Clocked(b, pl)
<1> DEFINE n == Len(a.jobs)
<1>1. /\ a.jobs \in Seq(MainJob) /\ n \in Nat /\ Len(b.jobs) = n + 1
      /\ \A i \in 1..n : i \in 1..(n + 1) /\ b.jobs[i] = a.jobs[i]
      /\ b.jobs[n + 1] = j
      /\ \A i \in 1..Len(b.jobs) : i \in 1..n \/ i = n + 1
  BY PushedQueue DEF Fields
<1>2. \A i \in 1..n : Own(b, i) = Own(a, i) /\ OldBody(b, i) = OldBody(a, i)
  BY <1>1 DEF Own, OldBody
<1>3. ~OldBody(b, n + 1)
  BY <1>1 DEF OldBody
<1>4. TimersInOrder(b)
  <2>1. ASSUME NEW i \in 1..Len(b.jobs), NEW k \in 1..Len(b.jobs), i < k,
               b.jobs[i].job = "timer", Ends(b, k)
        PROVE  b.jobs[i].timer \notin b.timers
    <3>1. i \in 1..n /\ b.jobs[i] = a.jobs[i]
      BY <1>1, <2>1
    <3>2. CASE k \in 1..n
      <4>1. b.pollTask = a.pollTask /\ Ends(a, k)
        BY <1>1, <2>1, <3>2 DEF Ends
      <4> QED
        BY <2>1, <3>1, <3>2, <4>1 DEF TimersInOrder
    <3>3. CASE k = n + 1
      BY <1>1, <2>1, <3>1, <3>3 DEF Ends, QueuedTimers
    <3> QED
      BY <1>1, <3>2, <3>3
  <2> QED
    BY <2>1 DEF TimersInOrder
<1>5. OldBodiesFirst(b, pl)
  <2>1. ASSUME NEW i \in 1..Len(b.jobs), OldBody(b, i), a.session # NoSession
        PROVE  /\ b.pollingState # "stopped"
               /\ \A t \in Task : pl[t] # None => pl[t].session # b.session
               /\ \A k \in 1..Len(b.jobs) :
                      Own(b, k) => b.jobs[k].job = "body" /\ i < k
    <3>1. i \in 1..n /\ OldBody(a, i)
      BY <1>1, <1>2, <1>3, <2>1
    <3>2. ASSUME NEW k \in 1..Len(b.jobs), Own(b, k)
          PROVE  b.jobs[k].job = "body" /\ i < k
      <4>1. CASE k \in 1..n
        BY <1>1, <1>2, <2>1, <3>1, <3>2, <4>1 DEF OldBodiesFirst
      <4>2. CASE k = n + 1
        BY <1>1, <3>1, <3>2, <4>2 DEF Own
      <4> QED
        BY <1>1, <4>1, <4>2
    <3> QED
      BY <2>1, <3>1, <3>2 DEF OldBodiesFirst
  <2> QED
    BY <2>1 DEF OldBodiesFirst
<1> QED
  BY <1>4, <1>5 DEF Clocked

\* A call goes on, of the same session.
LEMMA ClockedCall ==
    ASSUME NEW a, NEW pl, Clocked(a, pl), NEW p, NEW t \in Task,
           pl[t] # None, p[t] # None, p[t].session = pl[t].session,
           \A u \in Task : u # t => p[u] = pl[u]
    PROVE  Clocked(a, p)
<1>1. \A u \in Task : /\ pl[u] # None <=> p[u] # None
                      /\ pl[u] # None => p[u].session = pl[u].session
  OBVIOUS
<1>2. HasPoll(a, p) = HasPoll(a, pl)
  BY <1>1 DEF HasPoll
<1>3. OldBodiesFirst(a, p)
  BY <1>1 DEF Clocked, OldBodiesFirst
<1> QED
  BY <1>2, <1>3 DEF Clocked, Waits, TaskLives

\* `arm` and `pollNow`.
LEMMA ClockedArm ==
    ASSUME NEW a \in Fields, Clock(a), NEW pl, Clocked(a, pl), ~a.isSuspended
    PROVE  Clocked(Arm(a), pl) /\ Clocked(PollSoon(a), pl)
<1>1. Clocked(Arm(a), pl)
  <2> DEFINE b == Arm(a)
  <2>1. /\ Kept(a, b) /\ b.nextPollAt = a.nextPollAt
        /\ b.pollingState = "stopped" <=> a.pollingState = "stopped"
        /\ a.pollingState # "stopped" => FreshTimers(a, b) /\ OnItsWay(b)
        /\ a.pollingState = "stopped" => b = a
    BY ArmSets
  <2> HIDE DEF b
  <2>2. HasPoll(b, pl) = HasPoll(a, pl)
    BY <2>1 DEF HasPoll, Own, Kept
  <2>3. Waits(b, pl)
    BY <2>1, <2>2 DEF Waits, Clocked, OnItsWay, Kept
  <2> QED
    BY <2>1, <2>3, ClockedTick DEF Kept, b
<1>2. Clocked(PollSoon(a), pl)
  <2> DEFINE b == PollSoon(a)
  <2>1. /\ Kept(a, b)
        /\ b.pollingState = "stopped" <=> a.pollingState = "stopped"
        /\ a.pollingState # "stopped" =>
               b.nextPollAt # None /\ FreshTimers(a, b) /\ OnItsWay(b)
        /\ a.pollingState = "stopped" => b = a
    BY PollSoonSets
  <2> HIDE DEF b
  <2>2. Waits(b, pl)
    BY <2>1 DEF Waits, Clocked, OnItsWay, Kept
  <2> QED
    BY <2>1, <2>2, ClockedTick DEF Kept, b
<1> QED
  BY <1>1, <1>2

\* No job is the end of no task.
LEMMA NoTaskEnds ==
    ASSUME NEW a \in Fields, NEW b, b.jobs = a.jobs, b.pollTask = None
    PROVE  \A i \in 1..Len(b.jobs) : ~Ends(b, i)
<1>1. \A i \in 1..Len(a.jobs) : a.jobs[i] \in MainJob
  BY ElementOfSeq DEF Fields
<1> QED
  BY <1>1, JobType, FleetModelAssumption DEF Ends, TaskJobs

\* `poll`, which starts one where there is none to join.
LEMMA ClockedStarted ==
    ASSUME NEW a, NEW ss, NEW sv, Good(a, ss, polls, edits, sv),
           CanPoll(a, polls), NEW resuming,
           TaskLives(a, polls), TimersInOrder(a), OldBodiesFirst(a, polls),
           \/ Waits(a, polls)
           \/ /\ a.pollTask = None /\ a.session # NoSession
              /\ a.pollingState # "stopped"
    PROVE  Clocked(Poll(a, resuming), polls)
<1>1. a \in Fields
  BY DEF Good, Fit
<1>2. CASE \/ a.pollTask # None
           \/ a.session = NoSession
           \/ a.pollingState = "stopped" /\ ~resuming
  <2>1. Poll(a, resuming) = a
    BY <1>2 DEF Poll
  <2>2. Waits(a, polls)
    BY <1>2 DEF Waits
  <2> QED
    BY <2>1, <2>2 DEF Clocked
<1>3. CASE ~(\/ a.pollTask # None
             \/ a.session = NoSession
             \/ a.pollingState = "stopped" /\ ~resuming)
  <2> DEFINE t == CHOOSE t \in FreeTasks(a) : TRUE
             j == [job |-> "body", task |-> t, session |-> a.session]
             b == Poll(a, resuming)
  <2>1. FreeTasks(a) = Free(a, polls)
    BY DEF FreeTasks, Free, QueuedTasks, NoJobOfTask, TaskJobs
  <2>2. t \in Task /\ NoJobOfTask(a.jobs, t)
    BY <1>3, <2>1 DEF CanPoll, Free
  <2>3. b = [a EXCEPT !.pollTask = t, !.jobs = Append(@, j)]
    BY <1>3 DEF Poll
  <2> HIDE DEF t, b
  <2>4. /\ b.jobs = Append(a.jobs, j) /\ b.session = a.session
        /\ b.pollingState = a.pollingState /\ b.timers = a.timers
        /\ b.pollTask = t
    BY <1>1, <2>2, <2>3 DEF Fields
  <2>5. j \in MainJob
    BY <1>1, <2>2 DEF MainJob, Fields
  <2>6. HasPoll(b, polls)
    BY <1>1, <2>4, <2>5, PushedPolls
  <2>7. \A i \in 1..Len(a.jobs) : ~Ends(b, i)
    <3>1. a.jobs \in Seq(MainJob)
      BY <1>1 DEF Fields
    <3> QED
      BY <2>2, <2>4, <2>5, <3>1, PushedQueue DEF Ends, NoJobOfTask, TaskJobs
  <2> QED
    BY <1>1, <2>4, <2>5, <2>6, <2>7, ClockedPush DEF Waits, TaskLives, b
<1> QED
  BY <1>2, <1>3

\* The session is gone, or another has taken its place.
LEMMA ClockedReset ==
    ASSUME NEW a, Fit(a, sessions, polls, edits, cache),
           a.session # NoSession => Clocked(a, polls), ~a.isSuspended,
           NEW b, Reset(a, b)
    PROVE  Clocked(b, polls) /\ ~b.isSuspended
<1>1. /\ a \in Fields /\ Calls(a.jobs, Len(sessions), polls, edits)
      /\ Len(sessions) \in Nat
  BY LenProperties DEF Fit
<1>2. CASE TornDown(a, b)
  <2>1. b.session = NoSession /\ b.pollTask = None /\ b.jobs = a.jobs
    BY <1>2 DEF TornDown
  <2>2. \A i \in 1..Len(b.jobs) : ~Ends(b, i)
    BY <1>1, <2>1, NoTaskEnds
  <2> QED
    BY <1>2, <2>1, <2>2
    DEF Clocked, Waits, TaskLives, TimersInOrder, OldBodiesFirst, TornDown
<1>3. ASSUME NEW m \in Nat, NEW handle \in Handle, m > Len(sessions),
             Renewed(a, b, m, handle)
      PROVE  Clocked(b, polls) /\ ~b.isSuspended
  <2>1. /\ b.session = m /\ b.pollTask = None /\ b.jobs = a.jobs
        /\ ~b.isSuspended /\ b.pollingState # "stopped" /\ b.nextPollAt # None
        /\ b.timers # {}
    BY <1>1, <1>3 DEF Renewed, OnItsWay, NoSession
  <2>2. \A i \in 1..Len(b.jobs) : ~Ends(b, i)
    BY <1>1, <2>1, NoTaskEnds
  <2>3. \A i \in 1..Len(b.jobs) : ~Own(b, i)
    BY <1>1, <1>3, <2>1 DEF Own, Calls, JobStands
  <2>4. \A t \in Task : polls[t] # None => polls[t].session # b.session
    BY <1>1, <1>3, <2>1 DEF Calls, PollStands
  <2> QED
    BY <2>1, <2>2, <2>3, <2>4
    DEF Clocked, Waits, TaskLives, TimersInOrder, OldBodiesFirst
<1> QED
  BY <1>2, <1>3 DEF Reset

\* The fleet on screen is of the session in force.
Showing(a) ==
    IF a.session = NoSession
    THEN a.fleet = None
    ELSE a.fleet # None /\ a.fleet.of = a.session

SavesOnly(ed) == \A e \in Editor : ed[e] # None => ed[e].op = "save"

MacInv ==
    /\ Inv /\ Clocked(app, polls)
    /\ Showing(app) /\ ~app.isSuspended /\ SavesOnly(edits)

\* The head of the queue, seen from the clock.
LEMMA HeadOnTheClock ==
    ASSUME MacInv, app.jobs # <<>>
    PROVE  /\ TimersInOrder(Popped) /\ OldBodiesFirst(Popped, polls)
           /\ Popped \in Fields /\ Clock(Popped) /\ Clock(app)
           /\ Good(Popped, sessions, polls, edits, cache)
           /\ CanPoll(Popped, polls)
           /\ Own(app, 1) <=>
                  Job.job \in {"body", "answer"} /\ Job.session = app.session
           /\ Ends(app, 1) <=> Job.job = "done" /\ Job.task = app.pollTask
           /\ ~Own(app, 1) => HasPoll(Popped, polls) = HasPoll(app, polls)
           /\ ~Own(app, 1) => Waits(Popped, polls)
           /\ ~Own(app, 1) /\ ~Ends(app, 1) => TaskLives(Popped, polls)
           /\ app.session # NoSession /\ Own(app, 1) =>
                  \A i \in 1..Len(Popped.jobs) : ~OldBody(Popped, i)
           /\ 1 \in 1..Len(app.jobs) /\ app.jobs[1] = Job
<1>1. /\ app \in Fields /\ app.jobs \in Seq(MainJob) /\ Clock(app)
      /\ Clocked(app, polls)
  BY DEF MacInv, Inv, Good, Fit, Fields
<1>2. app.jobs[1] = Job /\ 1 \in 1..Len(app.jobs)
  BY <1>1, PoppedQueue DEF Job
<1>3. /\ Good(Popped, sessions, polls, edits, cache) /\ CanPoll(Popped, polls)
      /\ Popped.jobs = Tail(app.jobs) /\ Popped.session = app.session
      /\ Popped.pollTask = app.pollTask
      /\ Popped.pollingState = app.pollingState
      /\ Popped.timers = app.timers
  BY HeadOfQueue DEF MacInv
<1>4. Popped.nextPollAt = app.nextPollAt
  BY <1>1 DEF Popped, Fields
<1>5. /\ TimersInOrder(Popped) /\ OldBodiesFirst(Popped, polls)
      /\ ~Own(app, 1) => HasPoll(Popped, polls) = HasPoll(app, polls)
      /\ \A i \in 1..Len(app.jobs) :
             Ends(app, i) =>
                 i = 1 \/ \E k \in 1..Len(Popped.jobs) : Ends(Popped, k)
      /\ app.session # NoSession /\ Own(app, 1) =>
             \A i \in 1..Len(Popped.jobs) : ~OldBody(Popped, i)
  BY <1>1, <1>3, ClockedPop DEF Clocked
<1>6. ~Own(app, 1) => Waits(Popped, polls)
  BY <1>1, <1>3, <1>4, <1>5 DEF Clocked, Waits
<1>7. ~Own(app, 1) /\ ~Ends(app, 1) => TaskLives(Popped, polls)
  BY <1>1, <1>3, <1>5 DEF Clocked, TaskLives
<1> QED
  BY <1>1, <1>2, <1>3, <1>5, <1>6, <1>7 DEF Own, Ends, Good, Fit

LEMMA RunBodyClocks ==
    ASSUME MacInv, RunBody
    PROVE  Clocked(app', polls')
<1> DEFINE t == Job.task
           call == [session |-> Job.session, at |-> "called", answer |-> None]
<1>1. /\ app.jobs # <<>> /\ Job.job = "body"
      /\ app' = [Popped EXCEPT !.pollingState = "polling"]
      /\ polls' = [polls EXCEPT ![t] = call]
  BY DEF RunBody, HeadIs
<1>2. /\ t \in Task /\ polls[t] = None /\ Job.session \in Nat
      /\ Popped.session = app.session /\ Popped.pollTask = app.pollTask
      /\ Popped.timers = app.timers
  BY <1>1, HeadOfQueue, JobType DEF MacInv, TaskJobs
<1>3. /\ TimersInOrder(Popped) /\ OldBodiesFirst(Popped, polls)
      /\ Popped \in Fields /\ ~Ends(app, 1)
      /\ Own(app, 1) <=> Job.session = app.session
      /\ ~Own(app, 1) => HasPoll(Popped, polls) = HasPoll(app, polls)
      /\ ~Own(app, 1) => Waits(Popped, polls) /\ TaskLives(Popped, polls)
      /\ app.session # NoSession /\ Own(app, 1) =>
             \A i \in 1..Len(Popped.jobs) : ~OldBody(Popped, i)
      /\ 1 \in 1..Len(app.jobs) /\ app.jobs[1] = Job
  BY <1>1, HeadOnTheClock
<1>4. /\ app'.jobs = Popped.jobs /\ app'.session = app.session
      /\ app'.pollTask = app.pollTask /\ app'.timers = app.timers
      /\ app'.nextPollAt = Popped.nextPollAt /\ app'.pollingState = "polling"
  BY <1>1, <1>2, <1>3 DEF Fields
<1>5. /\ \A i \in 1..Len(app'.jobs) :
             /\ Own(app', i) = Own(Popped, i)
             /\ OldBody(app', i) = OldBody(Popped, i)
             /\ Ends(app', i) = Ends(Popped, i)
      /\ TimersInOrder(app')
  BY <1>2, <1>3, <1>4 DEF Own, OldBody, Ends, TimersInOrder
<1>6. call # None
  <2>1. call \in PollCall
    BY <1>2 DEF PollCall
  <2> QED
    BY <2>1, NoneIsNoRecord
<1>7. /\ polls'[t] = call /\ polls'[t] # None
      /\ polls'[t].session = Job.session
      /\ \A u \in Task : u # t => polls'[u] = polls[u]
  BY <1>1, <1>2, <1>6 DEF MacInv, Inv, Good, Fit, Calls
<1> HIDE DEF call
<1>8. CASE app.session = NoSession
  BY <1>4, <1>5, <1>8 DEF Clocked, Waits, TaskLives, OldBodiesFirst
<1>9. CASE app.session # NoSession /\ Job.session = app.session
  <2>1. HasPoll(app', polls')
    BY <1>2, <1>4, <1>7, <1>9 DEF HasPoll
  <2>2. OldBodiesFirst(app', polls')
    BY <1>3, <1>4, <1>5, <1>9 DEF OldBodiesFirst
  <2> QED
    BY <1>5, <2>1, <2>2 DEF Clocked, Waits, TaskLives
<1>10. CASE app.session # NoSession /\ Job.session # app.session
  <2>1. app.pollingState # "stopped"
    BY <1>1, <1>3, <1>10 DEF MacInv, Clocked, OldBodiesFirst, OldBody
  <2>2. HasPoll(Popped, polls) => HasPoll(app', polls')
    BY <1>2, <1>4, <1>5, <1>7 DEF HasPoll
  <2>3. Waits(app', polls')
    BY <1>1, <1>2, <1>3, <1>4, <1>10, <2>1, <2>2, HeadOfQueue
    DEF MacInv, Waits
  <2>4. TaskLives(app', polls')
    BY <1>2, <1>3, <1>4, <1>5, <1>10, <2>2 DEF TaskLives
  <2>5. OldBodiesFirst(app', polls')
    BY <1>2, <1>3, <1>4, <1>5, <1>7, <1>10 DEF OldBodiesFirst
  <2> QED
    BY <1>5, <2>3, <2>4, <2>5 DEF Clocked
<1> QED
  BY <1>8, <1>9, <1>10

LEMMA RunAnswerClocks ==
    ASSUME MacInv, RunAnswer
    PROVE  Clocked(app', polls')
<1> DEFINE current == Job.session = app.session
           shown == IF Job.answer.skipped
                    THEN Popped ELSE [Popped EXCEPT !.fleet = Job.answer.view]
           obeyed == Obey(shown, Job.answer.advice)
           j == [job |-> "done", task |-> Job.task]
<1>1. /\ app.jobs # <<>> /\ Job.job = "answer"
      /\ app' = Enqueued(IF current THEN obeyed ELSE Popped, j)
      /\ polls' = polls
  BY DEF RunAnswer, HeadIs
<1>2. /\ Job \in MainJob /\ Job.task \in Task /\ Job.session \in 1..Len(sessions)
      /\ Job.session = app.session <=> Job.task = app.pollTask
      /\ Popped.session = app.session /\ Popped.pollTask = app.pollTask
      /\ Popped.isSuspended = app.isSuspended
  BY <1>1, HeadOfQueue DEF MacInv, TaskJobs, JobStands
<1>3. /\ TimersInOrder(Popped) /\ OldBodiesFirst(Popped, polls)
      /\ Popped \in Fields /\ Clock(Popped) /\ ~Ends(app, 1)
      /\ Own(app, 1) <=> Job.session = app.session
      /\ ~Own(app, 1) => Waits(Popped, polls) /\ TaskLives(Popped, polls)
      /\ app.session # NoSession /\ Own(app, 1) =>
             \A i \in 1..Len(Popped.jobs) : ~OldBody(Popped, i)
  BY <1>1, HeadOnTheClock
<1>4. j \in MainJob /\ j.job = "done" /\ j.task = Job.task
  BY <1>2 DEF MainJob
<1> HIDE DEF j
<1>5. CASE ~current
  <2>1. app' = Enqueued(Popped, j)
    BY <1>1, <1>5
  <2>2. /\ app'.jobs = Append(Popped.jobs, j) /\ app'.session = Popped.session
        /\ app'.pollTask = Popped.pollTask /\ app'.timers = Popped.timers
        /\ app'.pollingState = Popped.pollingState
        /\ app'.nextPollAt = Popped.nextPollAt
    BY <1>3, <2>1 DEF Enqueued, Fields
  <2>3. Waits(app', polls) /\ TaskLives(app', polls)
    BY <1>3, <1>4, <1>5, <2>2, PushedPolls DEF Waits, TaskLives
  <2> QED
    BY <1>1, <1>2, <1>3, <1>4, <1>5, <2>2, <2>3, ClockedPush
<1>6. CASE current
  <2> HIDE DEF shown
  <2>1. Job.answer \in PollAnswer
    BY <1>1, <1>2, JobType
  <2>2. /\ shown \in Fields /\ Clock(shown) /\ shown.jobs = Popped.jobs
        /\ shown.session = app.session /\ shown.pollTask = app.pollTask
        /\ ~shown.isSuspended
    BY <1>2, <1>3, <2>1 DEF shown, Fields, Clock, PollAnswer, MacInv
  <2>3. Obeyed(shown, obeyed, Job.answer.advice)
    BY <2>1, <2>2, ObeySets DEF PollAnswer
  <2> HIDE DEF obeyed
  <2>4. /\ obeyed \in Fields /\ obeyed.jobs = Popped.jobs
        /\ obeyed.session = app.session /\ obeyed.pollTask = app.pollTask
        /\ ~obeyed.isSuspended
        /\ \A i \in obeyed.timers : i \notin QueuedTimers(obeyed)
        /\ obeyed.pollingState # "stopped" =>
               obeyed.nextPollAt # None /\ OnItsWay(obeyed)
    BY <2>2, <2>3 DEF Obeyed, Kept, FreshTimers, QueuedTimers
  <2>5. app' = Enqueued(obeyed, j)
    BY <1>1, <1>6
  <2>6. /\ app'.jobs = Append(obeyed.jobs, j) /\ app'.session = obeyed.session
        /\ app'.pollTask = obeyed.pollTask /\ app'.timers = obeyed.timers
        /\ app'.pollingState = obeyed.pollingState
        /\ app'.nextPollAt = obeyed.nextPollAt
    BY <2>4, <2>5 DEF Enqueued, Fields
  <2>7. Waits(app', polls)
    BY <2>4, <2>6 DEF Waits, OnItsWay
  <2>8. TaskLives(app', polls)
    BY <1>2, <1>4, <1>6, <2>4, <2>6, PushedPolls DEF TaskLives
  <2>9. TimersInOrder(obeyed)
    BY <2>4 DEF TimersInOrder, QueuedTimers
  <2>10. app.session # NoSession
    BY <1>2, <1>6 DEF NoSession
  <2>11. \A i \in 1..Len(obeyed.jobs) : ~OldBody(obeyed, i)
    BY <1>2, <1>3, <1>6, <2>4, <2>10 DEF OldBody
  <2>12. OldBodiesFirst(obeyed, polls)
    BY <2>11 DEF OldBodiesFirst
  <2> QED
    BY <1>1, <1>4, <2>4, <2>6, <2>7, <2>8, <2>9, <2>11, <2>12, ClockedPush
<1> QED
  BY <1>5, <1>6

LEMMA RunDoneClocks ==
    ASSUME MacInv, RunDone
    PROVE  Clocked(app', polls')
<1>1. /\ app.jobs # <<>> /\ Job.job = "done" /\ polls' = polls
      /\ app' = [Popped EXCEPT !.pollTask = IF @ = Job.task THEN None ELSE @]
  BY DEF RunDone, HeadIs
<1>2. /\ TimersInOrder(Popped) /\ OldBodiesFirst(Popped, polls)
      /\ Popped \in Fields /\ Waits(Popped, polls) /\ ~Own(app, 1)
      /\ Ends(app, 1) <=> Job.task = app.pollTask
      /\ ~Ends(app, 1) => TaskLives(Popped, polls)
      /\ Popped.pollTask = app.pollTask
  BY <1>1, HeadOnTheClock, HeadOfQueue DEF MacInv
<1>3. CASE Job.task # app.pollTask
  <2>1. app' = Popped
    BY <1>1, <1>2, <1>3 DEF Fields
  <2> QED
    BY <1>1, <1>2, <1>3, <2>1 DEF Clocked
<1>4. CASE Job.task = app.pollTask
  <2>1. /\ app'.pollTask = None /\ app'.jobs = Popped.jobs
        /\ app'.session = Popped.session /\ app'.timers = Popped.timers
        /\ app'.nextPollAt = Popped.nextPollAt
        /\ app'.pollingState = Popped.pollingState
    BY <1>1, <1>2, <1>4 DEF Fields
  <2>2. \A i \in 1..Len(app'.jobs) : ~Ends(app', i)
    BY <1>2, <2>1, NoTaskEnds
  <2>3. Waits(app', polls)
    BY <1>2, <2>1 DEF Waits, HasPoll, Own
  <2>4. OldBodiesFirst(app', polls)
    BY <1>2, <2>1 DEF OldBodiesFirst, OldBody, Own
  <2> QED
    BY <1>1, <2>1, <2>2, <2>3, <2>4 DEF Clocked, TaskLives, TimersInOrder
<1> QED
  BY <1>3, <1>4

LEMMA RunTimerClocks ==
    ASSUME MacInv, RunTimer
    PROVE  Clocked(app', polls')
<1> DEFINE b == [Popped EXCEPT !.timers = @ \ {Job.timer}]
<1>1. /\ app.jobs # <<>> /\ Job.job = "timer" /\ polls' = polls
      /\ app' = IF Job.timer \in app.timers THEN Poll(b, FALSE) ELSE Popped
  BY DEF RunTimer, HeadIs
<1>2. /\ TimersInOrder(Popped) /\ OldBodiesFirst(Popped, polls)
      /\ Popped \in Fields /\ Waits(Popped, polls) /\ TaskLives(Popped, polls)
      /\ Good(Popped, sessions, polls, edits, cache) /\ CanPoll(Popped, polls)
      /\ ~Own(app, 1) /\ HasPoll(Popped, polls) = HasPoll(app, polls)
      /\ 1 \in 1..Len(app.jobs) /\ app.jobs[1] = Job /\ Clock(app)
      /\ Popped.pollTask = app.pollTask /\ Popped.session = app.session
      /\ Popped.pollingState = app.pollingState
  BY <1>1, HeadOnTheClock, HeadOfQueue DEF MacInv
<1>3. CASE Job.timer \notin app.timers
  BY <1>1, <1>2, <1>3 DEF Clocked
<1>4. CASE Job.timer \in app.timers
  <2>1. /\ Steady(Popped, b) /\ Clock(b)
        /\ b.pollingState = Popped.pollingState
        /\ b.timers \subseteq Popped.timers
    BY <1>2 DEF Steady, Clock, Good, Fields
  <2> HIDE DEF b
  <2>2. /\ Good(b, sessions, polls, edits, cache)
        /\ Free(b, polls) = Free(Popped, polls)
    BY <1>2, <2>1, GoodClock
  <2>3. CanPoll(b, polls)
    BY <1>2, <2>1, <2>2, CanPollKept DEF Steady
  <2>4. TimersInOrder(b) /\ OldBodiesFirst(b, polls) /\ TaskLives(b, polls)
        /\ HasPoll(b, polls) = HasPoll(Popped, polls)
    BY <1>2, <2>1, SMTT(60)
    DEF Steady, TimersInOrder, OldBodiesFirst, TaskLives, Own, OldBody, Ends,
        HasPoll
  <2>5. app.session # NoSession /\ app.pollingState # "stopped"
    BY <1>2, <1>4 DEF Clock
  <2>6. app.pollTask # None => HasPoll(app, polls)
    <3>1. ASSUME NEW i \in 1..Len(app.jobs), Ends(app, i)
          PROVE  FALSE
      <4>1. i # 1 /\ 1 < i
        BY <1>1, <1>2, <3>1 DEF Ends
      <4> QED
        BY <1>1, <1>2, <1>4, <3>1, <4>1 DEF MacInv, Clocked, TimersInOrder
    <3> QED
      BY <2>5, <3>1 DEF MacInv, Clocked, TaskLives
  <2>7. \/ Waits(b, polls)
        \/ /\ b.pollTask = None /\ b.session # NoSession
           /\ b.pollingState # "stopped"
    BY <1>2, <2>1, <2>4, <2>5, <2>6 DEF Waits, Steady
  <2>8. Clocked(Poll(b, FALSE), polls)
    BY <2>2, <2>3, <2>4, <2>7, ClockedStarted
  <2> QED
    BY <1>1, <1>4, <2>8
<1> QED
  BY <1>3, <1>4

\* On macOS no host's screen has a task of its own: what an editor awaits is a
\* Save, and no focus starts.
LEMMA NoFocusStarts ==
    ASSUME MacInv
    PROVE  ~RunFocus
<1> SUFFICES ASSUME RunFocus
             PROVE  FALSE
  OBVIOUS
<1>1. app.jobs # <<>> /\ Job.job = "focus"
  BY DEF RunFocus, HeadIs
<1>2. /\ Job.editor \in Editor /\ edits[Job.editor] # None
      /\ edits[Job.editor].at = "starting"
  BY <1>1, HeadOfQueue DEF MacInv, EditJobs, JobStands
<1>3. edits[Job.editor].op = "focus"
  BY <1>2 DEF MacInv, Inv, Good, Fit, Calls, EditStands
<1> QED
  BY <1>2, <1>3 DEF MacInv, SavesOnly

LEMMA RunEditedClocks ==
    ASSUME MacInv, RunEdited
    PROVE  Clocked(app', polls') /\ Showing(app') /\ ~app'.isSuspended
           /\ SavesOnly(edits')
<1> DEFINE e == Job.editor
           b == [Popped EXCEPT !.config = edits[e].arg]
<1>1. app.jobs # <<>> /\ Job.job = "edited" /\ polls' = polls
  BY DEF RunEdited, HeadIs
<1>2. /\ e \in Editor /\ edits[e] # None /\ edits[e].at = "queued"
      /\ Popped.session = app.session /\ Popped.fleet = app.fleet
      /\ Popped.isSuspended = app.isSuspended
  BY <1>1, HeadOfQueue DEF MacInv, EditJobs, JobStands
<1>3. edits[e].op = "save"
  BY <1>2 DEF MacInv, SavesOnly
<1>4. app' = PollSoon(b) /\ edits' = [edits EXCEPT ![e] = None]
  BY <1>3 DEF RunEdited
<1>5. edits[e].arg \in Config
  BY <1>2, <1>3 DEF MacInv, Inv, Good, Fit, Calls, EditStands
<1>6. /\ TimersInOrder(Popped) /\ OldBodiesFirst(Popped, polls)
      /\ Popped \in Fields /\ Waits(Popped, polls) /\ TaskLives(Popped, polls)
      /\ Clock(Popped)
  BY <1>1, HeadOnTheClock
<1>7. /\ b \in Fields /\ b.jobs = Popped.jobs /\ b.session = Popped.session
      /\ b.pollTask = Popped.pollTask /\ b.timers = Popped.timers
      /\ b.timerTask = Popped.timerTask /\ b.nextPollAt = Popped.nextPollAt
      /\ b.pollingState = Popped.pollingState /\ b.fleet = app.fleet
      /\ ~b.isSuspended
  BY <1>2, <1>5, <1>6 DEF Fields, MacInv
<1> HIDE DEF b
<1>8. Clock(b) /\ Waits(b, polls)
  BY <1>6, <1>7 DEF Clock, Waits, HasPoll, Own
<1>9. Clocked(b, polls)
  BY <1>6, <1>7, <1>8, ClockedTick DEF Clocked
<1>10. Clocked(app', polls) /\ Kept(b, app')
  BY <1>4, <1>7, <1>8, <1>9, ClockedArm, PollSoonSets
<1>11. Showing(app') /\ ~app'.isSuspended
  BY <1>2, <1>7, <1>10 DEF MacInv, Showing, Kept
<1>12. SavesOnly(edits')
  BY <1>2, <1>4 DEF MacInv, SavesOnly, Inv, Good, Fit, Calls
<1> QED
  BY <1>1, <1>10, <1>11, <1>12

LEMMA DeliverPollClocks ==
    ASSUME MacInv, NEW t \in Task, DeliverPoll(t)
    PROVE  Clocked(app', polls')
<1> DEFINE j == [job |-> "answer", task |-> t, session |-> polls[t].session,
                 answer |-> polls[t].answer]
<1>1. /\ polls[t] # None /\ polls[t].at = "answered"
      /\ app' = Enqueued(app, j) /\ polls' = [polls EXCEPT ![t] = None]
  BY DEF DeliverPoll, PollAt
<1>2. /\ app \in Fields /\ Clocked(app, polls) /\ polls[t] \in PollCall
      /\ Calls(app.jobs, Len(sessions), polls, edits)
      /\ polls[t].session \in 1..Len(sessions)
  BY <1>1, PollInHand DEF MacInv, Inv, Good, Fit
<1>3. j \in MainJob /\ j.job = "answer" /\ j.session = polls[t].session
  BY <1>1, <1>2 DEF MainJob, PollCall, Calls, PollStands
<1> HIDE DEF j
<1>4. /\ app'.jobs = Append(app.jobs, j) /\ app'.session = app.session
      /\ app'.pollTask = app.pollTask /\ app'.timers = app.timers
      /\ app'.pollingState = app.pollingState
      /\ app'.nextPollAt = app.nextPollAt
  BY <1>1, <1>2 DEF Enqueued, Fields
<1>5. polls'[t] = None /\ \A u \in Task : u # t => polls'[u] = polls[u]
  BY <1>1, <1>2 DEF Calls
<1>6. HasPoll(app, polls) => HasPoll(app', polls')
  <2>1. CASE polls[t].session = app.session
    BY <1>2, <1>3, <1>4, <2>1, PushedPolls
  <2>2. CASE polls[t].session # app.session
    <3>1. HasPoll(app, polls) => HasPoll(app, polls')
      BY <1>5, <2>2 DEF HasPoll
    <3> QED
      BY <1>2, <1>3, <1>4, <3>1, PushedPolls
  <2> QED
    BY <2>1, <2>2
<1>7. Waits(app', polls')
  BY <1>2, <1>4, <1>6 DEF Clocked, Waits
<1>8. TaskLives(app', polls')
  BY <1>2, <1>3, <1>4, <1>6, PushedPolls DEF Clocked, TaskLives
<1>9. OldBodiesFirst(app, polls')
  BY <1>2, <1>5 DEF Clocked, OldBodiesFirst
<1>10. CASE app.session = NoSession
  BY <1>2, <1>3, <1>4, <1>7, <1>8, <1>9, <1>10, ClockedPush DEF Clocked, NoSession
<1>11. CASE app.session # NoSession
  <2>1. j.session # app.session \/ \A i \in 1..Len(app.jobs) : ~OldBody(app, i)
    BY <1>1, <1>2, <1>3, <1>11 DEF Clocked, OldBodiesFirst, OldBody
  <2> QED
    BY <1>2, <1>3, <1>4, <1>7, <1>8, <1>9, <2>1, ClockedPush DEF Clocked
<1> QED
  BY <1>10, <1>11

\* A job that is no poll's joins the queue.
LEMMA ClockedOther ==
    ASSUME MacInv, NEW j \in MainJob, j.job \in {"timer", "edited"},
           app' = Enqueued(app, j)
    PROVE  Clocked(app', polls) /\ Showing(app') /\ ~app'.isSuspended
<1>1. app \in Fields /\ Clocked(app, polls)
  BY DEF MacInv, Inv, Good, Fit
<1>2. /\ app'.jobs = Append(app.jobs, j) /\ app'.session = app.session
      /\ app'.pollTask = app.pollTask /\ app'.timers = app.timers
      /\ app'.pollingState = app.pollingState
      /\ app'.nextPollAt = app.nextPollAt
      /\ app'.fleet = app.fleet /\ app'.isSuspended = app.isSuspended
  BY <1>1 DEF Enqueued, Fields
<1>3. Waits(app', polls) /\ TaskLives(app', polls)
  BY <1>1, <1>2, PushedPolls DEF Clocked, Waits, TaskLives
<1>4. Clocked(app', polls)
  BY <1>1, <1>2, <1>3, ClockedPush DEF Clocked
<1> QED
  BY <1>2, <1>4 DEF MacInv, Showing

LEMMA CallsClock ==
    ASSUME MacInv, CallStep \/ DeadlinePasses \/ WakeTimer
    PROVE  /\ Clocked(app', polls') /\ Showing(app') /\ ~app'.isSuspended
           /\ SavesOnly(edits')
<1>1. /\ app \in Fields /\ Clocked(app, polls)
      /\ polls \in [Task -> PollCall \cup {None}]
      /\ edits \in [Editor -> EditCall \cup {None}]
  BY DEF MacInv, Inv, Good, Fit, Calls
<1>2. ASSUME NEW t \in Task, SkipPoll(t) \/ BeginPoll(t) \/ FoldPoll(t)
      PROVE  /\ Clocked(app', polls') /\ Showing(app') /\ ~app'.isSuspended
             /\ SavesOnly(edits')
  <2>1. polls[t] # None /\ app' = app /\ edits' = edits
    BY <1>2 DEF SkipPoll, BeginPoll, FoldPoll, PollAt
  <2>2. \A u \in Task : u # t => polls'[u] = polls[u]
    BY <1>1, <1>2 DEF SkipPoll, BeginPoll, FoldPoll
  <2>3. polls'[t] # None /\ polls'[t].session = polls[t].session
    BY <1>2, SkipPollKeeps, BeginPollKeeps, FoldPollKeeps, NoneIsNoRecord
    DEF MacInv
  <2>4. Clocked(app, polls')
    BY <1>1, <2>1, <2>2, <2>3, ClockedCall
  <2> QED
    BY <2>1, <2>4 DEF MacInv
<1>3. ASSUME NEW t \in Task, DeliverPoll(t)
      PROVE  /\ Clocked(app', polls') /\ Showing(app') /\ ~app'.isSuspended
             /\ SavesOnly(edits')
  <2>1. /\ edits' = edits /\ app'.session = app.session
        /\ app'.fleet = app.fleet /\ app'.isSuspended = app.isSuspended
    BY <1>1, <1>3 DEF DeliverPoll, Enqueued, Fields
  <2> QED
    BY <1>3, <2>1, DeliverPollClocks DEF MacInv, Showing
<1>4. ASSUME NEW e \in Editor, RequestLock(e) \/ StoreEdit(e)
      PROVE  /\ Clocked(app', polls') /\ Showing(app') /\ ~app'.isSuspended
             /\ SavesOnly(edits')
  <2>1. edits[e] # None /\ app' = app /\ polls' = polls
    BY <1>4 DEF RequestLock, StoreEdit, EditAt
  <2>2. edits[e] \in EditCall /\ edits[e].op = "save"
    BY <1>1, <2>1 DEF MacInv, SavesOnly
  <2>3. \A d \in Editor : d # e => edits'[d] = edits[d]
    BY <1>1, <1>4 DEF RequestLock, StoreEdit
  <2>4. edits'[e].op = "save"
    BY <1>1, <1>4, <2>2 DEF RequestLock, StoreEdit, EditCall
  <2> QED
    BY <2>1, <2>3, <2>4 DEF MacInv, SavesOnly
<1>5. ASSUME NEW e \in Editor, DeliverEdit(e)
      PROVE  /\ Clocked(app', polls') /\ Showing(app') /\ ~app'.isSuspended
             /\ SavesOnly(edits')
  <2> DEFINE j == [job |-> "edited", editor |-> e]
  <2>1. /\ edits[e] # None /\ app' = Enqueued(app, j) /\ polls' = polls
        /\ edits' = [edits EXCEPT ![e].at = "queued"]
    BY <1>5 DEF DeliverEdit, EditAt
  <2>2. edits[e] \in EditCall /\ edits[e].op = "save"
    BY <1>1, <2>1 DEF MacInv, SavesOnly
  <2>3. SavesOnly(edits')
    BY <1>1, <2>1, <2>2 DEF MacInv, SavesOnly, EditCall
  <2>4. j \in MainJob /\ j.job = "edited"
    BY DEF MainJob
  <2> HIDE DEF j
  <2> QED
    BY <2>1, <2>3, <2>4, ClockedOther
<1>6. CASE DeadlinePasses
  <2>1. /\ polls' = polls /\ edits' = edits
        /\ app' = [app EXCEPT !.nextPollAt = "due"]
    BY <1>6 DEF DeadlinePasses
  <2>2. /\ app'.jobs = app.jobs /\ app'.session = app.session
        /\ app'.pollTask = app.pollTask /\ app'.timers = app.timers
        /\ app'.pollingState = app.pollingState /\ app'.nextPollAt # None
        /\ app'.fleet = app.fleet /\ app'.isSuspended = app.isSuspended
    BY <1>1, <2>1, FleetModelAssumption DEF Fields
  <2>3. Waits(app', polls)
    BY <1>1, <2>2 DEF Clocked, Waits, HasPoll, Own
  <2>4. Clocked(app', polls)
    BY <1>1, <2>2, <2>3, ClockedTick
  <2> QED
    BY <2>1, <2>2, <2>4 DEF MacInv, Showing
<1>7. CASE WakeTimer
  <2>1. PICK i \in app.timers \ QueuedTimers(app) :
            app' = Enqueued(app, [job |-> "timer", timer |-> i])
    BY <1>7 DEF WakeTimer
  <2>2. polls' = polls /\ edits' = edits
    BY <1>7 DEF WakeTimer
  <2> DEFINE j == [job |-> "timer", timer |-> i]
  <2>3. j \in MainJob /\ j.job = "timer"
    BY <1>1 DEF MainJob, Fields
  <2> HIDE DEF j
  <2>4. Clocked(app', polls) /\ Showing(app') /\ ~app'.isSuspended
    BY <2>1, <2>3, ClockedOther DEF j
  <2> QED
    BY <2>2, <2>4 DEF MacInv
<1> QED
  BY <1>2, <1>3, <1>4, <1>5, <1>6, <1>7 DEF CallStep

\* `poll` changes nothing of what is on screen.
LEMMA PollShows ==
    ASSUME NEW a \in Fields, NEW resuming
    PROVE  /\ Poll(a, resuming).session = a.session
           /\ Poll(a, resuming).fleet = a.fleet
           /\ Poll(a, resuming).isSuspended = a.isSuspended
BY DEF Poll, Fields

LEMMA JobsShow ==
    ASSUME MacInv, RunMain
    PROVE  /\ Clocked(app', polls') /\ Showing(app') /\ ~app'.isSuspended
           /\ SavesOnly(edits')
<1>1. app.jobs # <<>>
  BY DEF RunMain, RunBody, RunAnswer, RunDone, RunTimer, RunFocus, RunEdited,
         HeadIs
<1>2. /\ Popped.session = app.session /\ Popped.fleet = app.fleet
      /\ Popped.isSuspended = app.isSuspended /\ Popped \in Fields
      /\ Clock(Popped) /\ Job \in MainJob /\ JobStands(Job, Len(sessions), edits)
  BY <1>1, HeadOfQueue, HeadOnTheClock DEF MacInv
<1>3. Showing(Popped) /\ ~Popped.isSuspended
  BY <1>2 DEF MacInv, Showing
<1>4. CASE RunBody
  <2>1. /\ app'.session = Popped.session /\ app'.fleet = Popped.fleet
        /\ app'.isSuspended = Popped.isSuspended /\ edits' = edits
    BY <1>2, <1>4 DEF RunBody, Fields
  <2> QED
    BY <1>3, <1>4, <2>1, RunBodyClocks DEF MacInv, Showing
<1>5. CASE RunAnswer
  <2> DEFINE current == Job.session = app.session
             shown == IF Job.answer.skipped
                      THEN Popped ELSE [Popped EXCEPT !.fleet = Job.answer.view]
             obeyed == Obey(shown, Job.answer.advice)
             b == IF current THEN obeyed ELSE Popped
             j == [job |-> "done", task |-> Job.task]
  <2>1. app' = Enqueued(b, j) /\ edits' = edits /\ Job.job = "answer"
    BY <1>5 DEF RunAnswer, HeadIs
  <2>2. /\ Job.answer \in PollAnswer /\ Job.answer.view.of = Job.session
        /\ Job.answer.view # None /\ Job.answer.view \in View
    BY <1>2, <2>1, JobType, NoneIsNoRecord DEF JobStands, PollAnswer
  <2> HIDE DEF shown
  <2>3. /\ shown \in Fields /\ Clock(shown) /\ ~shown.isSuspended
        /\ shown.session = app.session
        /\ current => Showing(shown)
    <3>1. CASE Job.answer.skipped
      BY <1>2, <1>3, <3>1 DEF shown
    <3>2. CASE ~Job.answer.skipped
      <4>1. /\ shown \in Fields /\ shown.fleet = Job.answer.view
            /\ shown.session = app.session /\ ~shown.isSuspended
            /\ shown.timers = Popped.timers
            /\ shown.timerTask = Popped.timerTask
            /\ shown.pollingState = Popped.pollingState
        BY <1>2, <1>3, <2>2, <3>2 DEF shown, Fields
      <4>2. current => app.session # NoSession
        BY <1>2, <2>1 DEF JobStands, NoSession
      <4> QED
        BY <1>2, <1>3, <2>2, <4>1, <4>2 DEF Showing, Clock
    <3> QED
      BY <3>1, <3>2
  <2>4. Obeyed(shown, obeyed, Job.answer.advice)
    BY <2>2, <2>3, ObeySets DEF PollAnswer
  <2> HIDE DEF obeyed, j
  <2>5. b \in Fields /\ Showing(b) /\ ~b.isSuspended
    BY <1>2, <1>3, <2>3, <2>4 DEF Obeyed, Kept, Showing
  <2> HIDE DEF b
  <2>6. /\ app'.session = b.session /\ app'.fleet = b.fleet
        /\ app'.isSuspended = b.isSuspended
    BY <2>1, <2>5 DEF Enqueued, Fields
  <2> QED
    BY <1>5, <2>1, <2>5, <2>6, RunAnswerClocks DEF MacInv, Showing
<1>6. CASE RunDone
  <2>1. /\ app'.session = Popped.session /\ app'.fleet = Popped.fleet
        /\ app'.isSuspended = Popped.isSuspended /\ edits' = edits
    BY <1>2, <1>6 DEF RunDone, Fields
  <2> QED
    BY <1>3, <1>6, <2>1, RunDoneClocks DEF MacInv, Showing
<1>7. CASE RunTimer
  <2> DEFINE b == [Popped EXCEPT !.timers = @ \ {Job.timer}]
  <2>1. (app' = Popped \/ app' = Poll(b, FALSE)) /\ edits' = edits
    BY <1>7 DEF RunTimer
  <2>2. /\ b \in Fields /\ b.session = Popped.session
        /\ b.fleet = Popped.fleet /\ b.isSuspended = Popped.isSuspended
    BY <1>2 DEF Fields
  <2> HIDE DEF b
  <2>3. /\ app'.session = Popped.session /\ app'.fleet = Popped.fleet
        /\ app'.isSuspended = Popped.isSuspended
    BY <2>1, <2>2, PollShows
  <2> QED
    BY <1>3, <1>7, <2>1, <2>3, RunTimerClocks DEF MacInv, Showing
<1>8. CASE RunEdited
  BY <1>8, RunEditedClocks
<1> QED
  BY <1>4, <1>5, <1>6, <1>7, <1>8, NoFocusStarts DEF RunMain

\* The fields a reload or a Save leaves.
LEMMA ResetShows ==
    ASSUME NEW a, NEW b, Reset(a, b), a.session # NoSession => Showing(a),
           Len(sessions) \in Nat
    PROVE  Showing(b)
<1>1. CASE TornDown(a, b)
  BY <1>1 DEF TornDown, Showing
<1>2. ASSUME NEW m \in Nat, NEW handle \in Handle, m > Len(sessions),
             Renewed(a, b, m, handle)
      PROVE  Showing(b)
  <2>1. handle.core \in Session
    BY DEF Handle
  <2>2. ViewOf(m, handle.core) \in View /\ ViewOf(m, handle.core).of = m
    BY <2>1, ViewType
  <2> QED
    BY <1>2, <2>2, NoneIsNoRecord DEF Renewed, Showing, NoSession
<1> QED
  BY <1>1, <1>2 DEF Reset

\* A Save's edit is a Save's.
LEMMA SaveSaves ==
    ASSUME MacInv, Save
    PROVE  SavesOnly(edits')
<1> DEFINE base == IF app.config # None THEN app.config ELSE StoredConfig(store)
<1>1. PICK url \in Url, edit \in Edit, policy \in Policy :
          SaveTyped(url, [base EXCEPT !.edit = edit, !.liveness = policy])
  BY DEF Save
<1>2. /\ SavesOnly(edits) /\ edits \in [Editor -> EditCall \cup {None}]
      /\ Saver \in Editor
  BY DEF MacInv, Inv, Good, Fit, Calls, Editor
<1>3. \/ edits' = edits
      \/ edits' = [edits EXCEPT ![Saver] = None]
      \/ \E call : edits' = [edits EXCEPT ![Saver] = call] /\ call.op = "save"
  BY <1>1 DEF SaveTyped, Apply
<1> QED
  BY <1>2, <1>3 DEF SavesOnly

LEMMA LaunchedShows ==
    /\ Clocked(Launched, [t \in Task |-> None]) /\ Showing(Launched)
    /\ ~Launched.isSuspended /\ SavesOnly([e \in Editor |-> None])
<1>1. /\ Launched.session = NoSession /\ Launched.jobs = <<>>
      /\ Launched.fleet = None /\ Launched.isSuspended = FALSE
  BY DEF Launched
<1>2. SavesOnly([e \in Editor |-> None])
  BY DEF SavesOnly
<1> QED
  BY <1>1, <1>2 DEF Clocked, Waits, TaskLives, TimersInOrder, OldBodiesFirst,
                    Showing

LEMMA OutsideShows ==
    ASSUME MacInv, ~Mobile, Outside
    PROVE  /\ Clocked(app', polls') /\ Showing(app') /\ ~app'.isSuspended
           /\ SavesOnly(edits')
<1>1. /\ app \in Fields /\ Len(sessions) \in Nat /\ Clock(app)
      /\ Good(app, sessions, polls, edits, cache)
      /\ Fit(app, sessions, polls, edits, cache)
      /\ Clocked(app, polls) /\ Showing(app) /\ ~app.isSuspended
  BY LenProperties DEF MacInv, Inv, Good, Fit
<1>2. ASSUME NEW st \in Store
      PROVE  /\ Reloaded(app, st) \in Fields /\ Showing(Reloaded(app, st))
             /\ Clocked(Reloaded(app, st), polls)
             /\ ~Reloaded(app, st).isSuspended
  BY <1>1, ReloadResets, ResetShows, ClockedReset
<1>3. CASE Reload
  BY <1>2, <1>3, RetriedType DEF Reload, Reloads, MacInv, Inv
<1>4. CASE SettingsChange
  <2>1. PICK edit \in Edit : Reloads(app, [store EXCEPT !.edit = edit])
    BY <1>4 DEF SettingsChange
  <2>2. [store EXCEPT !.edit = edit] \in Store
    BY DEF MacInv, Inv, Store
  <2>3. polls' = polls /\ edits' = edits
    BY <1>4 DEF SettingsChange
  <2> QED
    BY <1>2, <2>1, <2>2, <2>3 DEF Reloads, MacInv
<1>5. CASE ConsentChange
  <2> DEFINE a == [app EXCEPT !.session = NoSession]
  <2>1. app' = Reloaded(a, store) /\ polls' = polls /\ edits' = edits
    BY <1>5 DEF ConsentChange, Reloads
  <2>2. /\ a \in Fields /\ a.session = NoSession /\ a.jobs = app.jobs
        /\ a.connection = app.connection /\ ~a.isSuspended
        /\ a.timers = app.timers /\ a.timerTask = app.timerTask
    BY <1>1 DEF Fields, NoSession
  <2> HIDE DEF a
  <2>3. Fit(a, sessions, polls, edits, cache)
    BY <1>1, <2>2 DEF Fit, Connected, Hosted, NoSession
  <2>4. store \in Store
    BY DEF MacInv, Inv
  <2> QED
    BY <1>1, <2>1, <2>2, <2>3, <2>4, ReloadResets, ResetShows, ClockedReset
    DEF MacInv
<1>6. CASE Refresh
  <2>1. PICK st \in Retried(store) :
            /\ app' = Poll(Reloaded(app, st), TRUE)
            /\ sessions' = SessionsReloaded(app, st)
            /\ cache' = CacheReloaded(app, st)
    BY <1>6 DEF Refresh
  <2>2. st \in Store /\ Between /\ polls' = polls /\ edits' = edits
    BY <1>6, RetriedType DEF Refresh, MacInv, Inv
  <2> DEFINE a == Reloaded(app, st)
  <2>3. /\ Good(a, SessionsReloaded(app, st), polls, edits,
                CacheReloaded(app, st))
        /\ Free(app, polls) \subseteq Free(a, polls)
    BY <1>1, <2>2, GoodReload
  <2>4. CanPoll(a, polls)
    BY <2>2, <2>3, BetweenJobs DEF CanPoll, MacInv
  <2>5. a \in Fields /\ Showing(a) /\ Clocked(a, polls) /\ ~a.isSuspended
    BY <1>2, <2>2
  <2>6. app' = Poll(a, TRUE)
    BY <2>1
  <2> HIDE DEF a
  <2>7. Clocked(app', polls)
    BY <2>3, <2>4, <2>5, <2>6, ClockedStarted DEF Clocked
  <2> QED
    BY <2>2, <2>5, <2>6, <2>7, PollShows DEF MacInv, Showing
<1>7. CASE Wake
  <2>1. app' = Arm(app) /\ polls' = polls /\ edits' = edits
    BY <1>7 DEF Wake
  <2>2. Kept(app, Arm(app)) /\ Clocked(Arm(app), polls)
    BY <1>1, ArmSets, ClockedArm
  <2> QED
    BY <1>1, <2>1, <2>2 DEF MacInv, Kept, Showing
<1>8. CASE Save
  <2>1. Reset(app, app') /\ polls' = polls
    BY <1>8, SaveResets DEF MacInv, Save
  <2> QED
    BY <1>1, <1>8, <2>1, ResetShows, ClockedReset, SaveSaves
<1>9. CASE Relaunch
  <2>1. /\ app' = Launched /\ polls' = [t \in Task |-> None]
        /\ edits' = [e \in Editor |-> None]
    BY <1>9 DEF Relaunch
  <2> QED
    BY <2>1, LaunchedShows
<1> QED
  BY <1>3, <1>4, <1>5, <1>6, <1>7, <1>8, <1>9
  DEF Outside, Background, Foreground, OpenScreen, CloseScreen, ScreenChange,
      ForgetHost

LEMMA MacHolds ==
    ASSUME ~Mobile
    PROVE  Spec => []MacInv
<1>1. Init => MacInv
  <2> SUFFICES ASSUME Init PROVE MacInv
    OBVIOUS
  <2>1. /\ app = Launched /\ polls = [t \in Task |-> None]
        /\ edits = [e \in Editor |-> None]
    BY DEF Init
  <2> QED
    BY <2>1, InitGood, LaunchedShows DEF MacInv
<1>2. MacInv /\ [Next]_vars => MacInv'
  <2> SUFFICES ASSUME MacInv, [Next]_vars PROVE MacInv'
    OBVIOUS
  <2>1. Inv'
    BY NextKeeps DEF MacInv
  <2>2. CASE UNCHANGED vars
    BY <2>1, <2>2 DEF MacInv, vars
  <2> QED
    BY <2>1, <2>2, JobsShow, CallsClock, OutsideShows DEF Next, MacInv
<1> QED
  BY <1>1, <1>2, PTL DEF Spec

\* In the macOS app the screen shows the session in force and nothing else,
\* whatever answers come late from a session that has been replaced
\* (`execute`'s identity check, `adopt`, `teardown`).
THEOREM MacShowsItsSession ==
    ASSUME ~Mobile
    PROVE  Spec => []ShownIsCurrent
<1>1. MacInv => ShownIsCurrent
  BY DEF MacInv, Showing, ShownIsCurrent
<1> QED
  BY <1>1, MacHolds, PTL

\* In the macOS app the clock never runs dry: a model that should be polling has
\* a timer or a poll of its session, across every replacement, join, cleared
\* task, save and wake (`adopt`, `poll`, `execute`, `arm`).
THEOREM MacKeepsItsClock ==
    ASSUME ~Mobile
    PROVE  Spec => []ClockKeepsRunning
<1>1. MacInv => ClockKeepsRunning
  <2> SUFFICES ASSUME MacInv, app.session # NoSession,
                      app.pollingState # "stopped", app.timers = {}
               PROVE  PollsOf(app.session) # {}
    BY DEF ClockKeepsRunning
  <2>1. HasPoll(app, polls)
    BY DEF MacInv, Clocked, Waits
  <2> QED
    BY <2>1 DEF HasPoll, Own, PollsOf, Jobs
<1> QED
  BY <1>1, MacHolds, PTL

-----------------------------------------------------------------------------
(***************************************************************************)
(* The configuration the model names is the one its session runs.          *)
(***************************************************************************)

\* `Applying` and `NamesWhatRuns`, of the fields a, the sessions ss and the
\* calls ed.
Applies(ed, n) ==
    \E e \in Editor : ed[e] # None /\ ed[e].op # "forget" /\ ed[e].session = n

Names(a, ss, ed) ==
    a.session # NoSession /\ ~Applies(ed, a.session)
        => a.config = ss[a.session].core.config

\* The sessions there were are there, and run the configurations they ran.
Grown(ss, tt) ==
    /\ Len(ss) \in Nat /\ Len(tt) \in Nat /\ Len(ss) <= Len(tt)
    /\ \A n \in 1..Len(ss) : tt[n].core.config = ss[n].core.config

\* The macOS app changes a configuration by its one Save: what a session has
\* accepted is what it runs.
Taken(ss, ed) ==
    \A e \in Editor :
        ed[e] # None =>
            /\ e = Saver /\ ed[e].op = "save"
            /\ ed[e].at \in {"stored", "queued"} =>
                   ed[e].arg = ss[ed[e].session].core.config

NameInv == Inv /\ (~Mobile => Taken(sessions, edits))

\* What a step must show: the name is kept but for a change that was overtaken,
\* and on macOS none is.
Told ==
    /\ Names(app, sessions, edits) =>
           \/ Names(app', sessions', edits')
           \/ \E e \in Editor : Overtaken(e)
    /\ ~Mobile => Taken(sessions', edits')

LEMMA NamesIsNames == NamesWhatRuns <=> Names(app, sessions, edits)
BY DEF NamesWhatRuns, Names, Applying, Applies, Forgetting

LEMMA InHand ==
    ASSUME NameInv
    PROVE  /\ app \in Fields /\ sessions \in Seq(Handle) /\ Len(sessions) \in Nat
           /\ Grown(sessions, sessions) /\ app.session \in 0..Len(sessions)
           /\ edits \in [Editor -> EditCall \cup {None}]
           /\ \A e \in Editor : EditStands(edits[e], Len(sessions))
           /\ Good(app, sessions, polls, edits, cache)
           /\ Fit(app, sessions, polls, edits, cache)
BY LenProperties DEF NameInv, Inv, Good, Fit, Calls, Grown

LEMMA SetSessionGrows ==
    ASSUME NEW ss \in Seq(Handle), NEW n \in 1..Len(ss), NEW core \in Session,
           core.config = ss[n].core.config
    PROVE  Grown(ss, [ss EXCEPT ![n].core = core])
<1> DEFINE s == [ss EXCEPT ![n].core = core]
<1>1. ss[n] \in Handle
  BY ElementOfSeq
<1>2. [ss[n] EXCEPT !.core = core] \in Handle
  BY <1>1 DEF Handle
<1>3. /\ Len(s) = Len(ss) /\ s[n].core = core
      /\ \A m \in 1..Len(ss) : m # n => s[m] = ss[m]
  BY <1>1, <1>2, ExceptSeq DEF Handle
<1> HIDE DEF s
<1> QED
  BY <1>3, LenProperties DEF Grown, s

LEMMA PushedGrows ==
    ASSUME NEW ss \in Seq(Handle), NEW handle \in Handle
    PROVE  Grown(ss, Append(ss, handle))
BY PushedSession DEF Grown

\* A step that leaves the session, the name and the changes on their way.
LEMMA NamesKept ==
    ASSUME NEW a, NEW ss, NEW ed, Names(a, ss, ed), a.session \in 0..Len(ss),
           NEW b, b.session = a.session, b.config = a.config,
           NEW tt, Grown(ss, tt),
           NEW fd, Applies(ed, a.session) => Applies(fd, a.session)
    PROVE  Names(b, tt, fd)
BY DEF Names, Grown, NoSession

\* A change that starts, or goes on, in the session n.
LEMMA AppliesOn ==
    ASSUME NEW ed \in [Editor -> EditCall \cup {None}], NEW e \in Editor,
           NEW call \in EditCall, call.op # "forget"
    PROVE  Applies([ed EXCEPT ![e] = call], call.session)
<1>1. [ed EXCEPT ![e] = call][e] = call /\ call # None
  BY NoneIsNoRecord
<1> QED
  BY <1>1 DEF Applies

\* A call that goes on, or the end of one that changes no configuration.
LEMMA AppliesKept ==
    ASSUME NEW ed \in [Editor -> EditCall \cup {None}], NEW e \in Editor, NEW n,
           NEW call \in EditCall \cup {None},
           \/ ed[e] = None \/ ed[e].op = "forget" \/ ed[e].session # n
           \/ call # None /\ call.op = ed[e].op /\ call.session = ed[e].session,
           Applies(ed, n)
    PROVE  Applies([ed EXCEPT ![e] = call], n)
<1>1. PICK d \in Editor : /\ ed[d] # None /\ ed[d].op # "forget"
                          /\ ed[d].session = n
  BY DEF Applies
<1>2. CASE d = e
  BY <1>1, <1>2 DEF Applies
<1>3. CASE d # e
  <2>1. [ed EXCEPT ![e] = call][d] = ed[d]
    BY <1>3
  <2> QED
    BY <1>1, <2>1 DEF Applies
<1> QED
  BY <1>2, <1>3

\* What was accepted stays so while sessions only join, and changes end.
LEMMA TakenKept ==
    ASSUME NEW ss, NEW ed \in [Editor -> EditCall \cup {None}], Taken(ss, ed),
           \A e \in Editor : EditStands(ed[e], Len(ss)),
           NEW tt, Grown(ss, tt)
    PROVE  Taken(tt, ed) /\ \A e \in Editor : Taken(tt, [ed EXCEPT ![e] = None])
<1>1. ASSUME NEW e \in Editor, ed[e] # None, ed[e].at \in {"stored", "queued"}
      PROVE  ed[e].arg = tt[ed[e].session].core.config
  BY <1>1 DEF Taken, EditStands, Grown
<1> QED
  BY <1>1 DEF Taken

\* A Save that starts, or one that goes on without its answer.
LEMMA TakenCalled ==
    ASSUME NEW ss, NEW ed \in [Editor -> EditCall \cup {None}], Taken(ss, ed),
           NEW e \in Editor, e = Saver, NEW call \in EditCall, call.op = "save",
           call.at \in {"stored", "queued"} =>
               call.arg = ss[call.session].core.config
    PROVE  Taken(ss, [ed EXCEPT ![e] = call])
BY DEF Taken

\* A setConfig that is called is on its way.
LEMMA CalledApplies ==
    ASSUME edits \in [Editor -> EditCall \cup {None}], NEW e \in Editor,
           NEW op \in {"save", "focus"}, NEW config \in Config, NEW n \in Nat,
           Called(e, op, config, n)
    PROVE  Applies(edits', n)
<1> DEFINE call == [op |-> op, at |-> "called", arg |-> config, session |-> n,
                    view |-> None]
<1>1. /\ call \in EditCall /\ call.op = op /\ call.session = n
      /\ call.at = "called" /\ op # "forget"
  BY DEF EditCall
<1>2. edits' = [edits EXCEPT ![e] = call]
  BY DEF Called
<1> HIDE DEF call
<1> QED
  BY <1>1, <1>2, AppliesOn

\* The main actor's jobs.
LEMMA JobsTell ==
    ASSUME NameInv, RunMain
    PROVE  Told
<1> USE DEF NoSession
<1>1. /\ app \in Fields /\ Grown(sessions, sessions)
      /\ app.session \in 0..Len(sessions) /\ sessions \in Seq(Handle)
      /\ edits \in [Editor -> EditCall \cup {None}]
      /\ \A e \in Editor : EditStands(edits[e], Len(sessions))
  BY InHand
<1>2. app.jobs # <<>> /\ Inv
  BY DEF RunMain, RunBody, RunAnswer, RunDone, RunTimer, RunFocus, RunEdited,
         HeadIs, NameInv
<1>3. /\ Popped.session = app.session /\ Popped.config = app.config
      /\ Good(Popped, sessions, polls, edits, cache)
      /\ Popped \in Fields /\ Clock(Popped) /\ Job \in MainJob
      /\ JobStands(Job, Len(sessions), edits)
      /\ Job.job \in EditJobs =>
             Job.editor \in Editor /\ NoJobOfEditor(Popped.jobs, Job.editor)
  BY <1>2, HeadOfQueue DEF Good, Fit
<1>4. ASSUME app'.session = app.session, app'.config = app.config,
             sessions' = sessions, edits' = edits
      PROVE  Told
  BY <1>1, <1>4, NamesKept DEF Told, NameInv
<1>5. CASE RunBody
  BY <1>3, <1>4, <1>5 DEF RunBody, Fields
<1>6. CASE RunAnswer
  <2> DEFINE shown == IF Job.answer.skipped
                      THEN Popped ELSE [Popped EXCEPT !.fleet = Job.answer.view]
             obeyed == Obey(shown, Job.answer.advice)
             b == IF Job.session = app.session THEN obeyed ELSE Popped
             j == [job |-> "done", task |-> Job.task]
  <2>1. /\ app' = Enqueued(b, j) /\ sessions' = sessions /\ edits' = edits
        /\ Job.job = "answer"
    BY <1>6 DEF RunAnswer, HeadIs
  <2>2. Job.answer \in PollAnswer /\ Job.answer.view \in View
    BY <1>3, <2>1, JobType DEF PollAnswer
  <2>3. /\ shown \in Fields /\ shown.session = app.session
        /\ shown.config = app.config /\ Clock(shown)
    BY <1>3, <2>2 DEF Fields, Clock
  <2> HIDE DEF shown
  <2>4. Obeyed(shown, obeyed, Job.answer.advice)
    BY <2>2, <2>3, ObeySets DEF PollAnswer
  <2> HIDE DEF obeyed, j
  <2>5. b \in Fields /\ b.session = app.session /\ b.config = app.config
    BY <1>3, <2>3, <2>4 DEF Obeyed, Kept
  <2> HIDE DEF b
  <2>6. app'.session = app.session /\ app'.config = app.config
    BY <2>1, <2>5 DEF Enqueued, Fields
  <2> QED
    BY <1>4, <2>1, <2>6
<1>7. CASE RunDone
  BY <1>3, <1>4, <1>7 DEF RunDone, Fields
<1>8. CASE RunTimer
  <2> DEFINE b == [Popped EXCEPT !.timers = @ \ {Job.timer}]
  <2>1. /\ app' = Popped \/ app' = Poll(b, FALSE)
        /\ sessions' = sessions /\ edits' = edits
    BY <1>8 DEF RunTimer
  <2>2. b \in Fields /\ b.session = app.session /\ b.config = app.config
    BY <1>3 DEF Fields
  <2> HIDE DEF b
  <2>3. Poll(b, FALSE).session = b.session /\ Poll(b, FALSE).config = b.config
    BY <2>2 DEF Poll, Fields
  <2> QED
    BY <1>3, <1>4, <2>1, <2>2, <2>3
<1>9. CASE RunFocus
  <2> DEFINE e == Job.editor
             host == edits[e].arg
             config == [app.config EXCEPT !.focus = host]
             moves == /\ app.config # None /\ app.connection # None
                      /\ app.config.focus # host
  <2>1. /\ e \in Editor /\ NoJobOfEditor(Popped.jobs, e)
        /\ edits[e] # None /\ edits[e].at = "starting"
    BY <1>3, <1>9 DEF RunFocus, HeadIs, EditJobs, JobStands
  <2>2. /\ host \in Host \cup {None} /\ edits[e].session = NoSession
        /\ edits[e].op = "focus"
    BY <1>1, <2>1 DEF EditStands
  <2>3. Mobile
    BY <2>1, <2>2 DEF NameInv, Taken
  <2>4. app.session # NoSession => edits[e].session # app.session
    BY <2>2
  <2>5. CASE ~moves
    <3>1. /\ app' = Popped /\ edits' = [edits EXCEPT ![e] = None]
          /\ sessions' = sessions
      BY <1>9, <2>5 DEF RunFocus
    <3>2. app.session # NoSession =>
              (Applies(edits, app.session) => Applies(edits', app.session))
      BY <1>1, <2>1, <2>4, <3>1, AppliesKept
    <3>3. Names(app, sessions, edits) => Names(app', sessions', edits')
      BY <1>3, <3>1, <3>2 DEF Names
    <3> QED
      BY <2>3, <3>3 DEF Told
  <2>6. CASE moves
    <3>1. Apply(Popped, sessions, store, cache, e, "focus", config)
      BY <1>9, <2>6 DEF RunFocus
    <3>2. app.config \in Config
      BY <1>1, <2>6 DEF Fields
    <3>3. config \in Config /\ config.liveness = app.config.liveness
      BY <2>2, <3>2, FleetModelAssumption
    <3>4. Popped.session # NoSession
      BY <1>3, <2>6, HeadOfQueue, <1>2 DEF Good, Ready
    <3> HIDE DEF config
    <3>5. Applied(Popped, sessions, e, "focus", config)
      BY <1>2, <1>3, <2>1, <3>1, <3>3, <3>4, ApplyKeeps DEF Inv
    <3>6. app' = Popped /\ Called(e, "focus", config, Popped.session)
      BY <1>3, <3>3, <3>5 DEF Applied
    <3>7. Applies(edits', app'.session)
      BY <1>1, <1>3, <2>1, <3>3, <3>6, CalledApplies
    <3> QED
      BY <2>3, <3>7 DEF Told, Names
  <2> QED
    BY <2>5, <2>6
<1>10. CASE RunEdited
  <2> DEFINE e == Job.editor
             call == edits[e]
  <2>1. /\ e \in Editor /\ call # None /\ call.at = "queued"
        /\ edits' = [edits EXCEPT ![e] = None] /\ sessions' = sessions
    BY <1>3, <1>10 DEF RunEdited, HeadIs, EditJobs, JobStands
  <2>2. ~Mobile => Taken(sessions', edits')
    BY <1>1, <2>1, TakenKept DEF NameInv
  <2>3. call.session \in 1..Len(sessions) /\ call.view \in View
    BY <1>1, <2>1 DEF EditStands
  <2>4. CASE call.op = "forget"
    <3>1. app' = [Popped EXCEPT !.fleet = call.view]
      BY <1>10, <2>4 DEF RunEdited
    <3>2. app'.session = app.session /\ app'.config = app.config
      BY <1>3, <2>3, <3>1 DEF Fields
    <3>3. Applies(edits, app.session) => Applies(edits', app.session)
      BY <1>1, <2>1, <2>4, AppliesKept
    <3> QED
      BY <1>1, <2>1, <2>2, <3>2, <3>3, NamesKept DEF Told
  <2>5. CASE call.op # "forget"
    <3> DEFINE c == [Popped EXCEPT !.config = call.arg]
    <3>1. app' = PollSoon(c)
      BY <1>10, <2>5 DEF RunEdited
    <3>2. call.arg \in Config
      BY <1>1, <2>1, <2>5 DEF EditStands
    <3>3. /\ c \in Fields /\ Clock(c) /\ c.session = app.session
          /\ c.config = call.arg
      BY <1>3, <3>2 DEF Fields, Clock
    <3> HIDE DEF c
    <3>4. app'.session = app.session /\ app'.config = call.arg
      BY <3>1, <3>3, PollSoonSets DEF Kept
    <3>5. ~Overtaken(e) =>
              /\ call.session = app.session
              /\ call.arg = sessions[app.session].core.config
      BY <2>1, <2>5
      DEF Overtaken, EditAt, Forgetting, NameInv, Taken
    <3>6. ~Overtaken(e) => Names(app', sessions', edits')
      BY <2>1, <3>4, <3>5 DEF Names
    <3> QED
      BY <2>1, <2>2, <3>6 DEF Told
  <2> QED
    BY <2>4, <2>5
<1> QED
  BY <1>5, <1>6, <1>7, <1>8, <1>9, <1>10 DEF RunMain

\* The calls inside the sessions, and the clock.
LEMMA CallsTell ==
    ASSUME NameInv, CallStep \/ DeadlinePasses \/ WakeTimer
    PROVE  Told
<1>1. /\ app \in Fields /\ Grown(sessions, sessions)
      /\ app.session \in 0..Len(sessions) /\ sessions \in Seq(Handle)
      /\ edits \in [Editor -> EditCall \cup {None}]
      /\ \A e \in Editor : EditStands(edits[e], Len(sessions))
      /\ Inv /\ (~Mobile => Taken(sessions, edits))
  BY InHand DEF NameInv
<1>2. app'.session = app.session /\ app'.config = app.config
  BY <1>1 DEF CallStep, SkipPoll, BeginPoll, FoldPoll, DeliverPoll,
     RequestLock, StoreEdit, DeliverEdit, DeadlinePasses, WakeTimer,
     Enqueued, Fields
<1>3. ASSUME Grown(sessions, sessions'), edits' = edits
      PROVE  Told
  BY <1>1, <1>2, <1>3, NamesKept, TakenKept DEF Told
<1>4. ASSUME NEW t \in Task, SkipPoll(t) \/ DeliverPoll(t)
      PROVE  Told
  BY <1>1, <1>3, <1>4 DEF SkipPoll, DeliverPoll
<1>5. ASSUME NEW t \in Task, BeginPoll(t)
      PROVE  Told
  <2> DEFINE n == polls[t].session
             core == [sessions[n].core EXCEPT !.holder = t]
  <2>1. n \in 1..Len(sessions) /\ sessions[n].core \in Session
    BY <1>1, <1>5, PollInHand DEF BeginPoll, PollAt
  <2>2. core \in Session /\ core.config = sessions[n].core.config
    BY <2>1, FleetModelAssumption DEF Session
  <2>3. sessions' = [sessions EXCEPT ![n].core = core] /\ edits' = edits
    BY <1>5 DEF BeginPoll
  <2> HIDE DEF core
  <2> QED
    BY <1>1, <1>3, <2>1, <2>2, <2>3, SetSessionGrows
<1>6. ASSUME NEW t \in Task, FoldPoll(t)
      PROVE  Told
  <2> DEFINE n == polls[t].session
             core == sessions[n].core
  <2>1. n \in 1..Len(sessions) /\ core \in Session
    BY <1>1, <1>6, PollInHand DEF FoldPoll, PollAt
  <2>2. PICK seen \in Observation, expired \in SUBSET core.state.known :
            sessions' = [sessions EXCEPT ![n].core =
                Released([core EXCEPT
                             !.state = Fold(@, seen, expired \ seen.hosts)])]
    BY <1>6 DEF FoldPoll
  <2> DEFINE folded == [core EXCEPT
                           !.state = Fold(@, seen, expired \ seen.hosts)]
             next == Released(folded)
  <2>3. core.state \in FleetState
    BY <2>1 DEF Session
  <2>4. Fold(core.state, seen, expired \ seen.hosts) \in FleetState
    BY <2>3, FoldedHosts
  <2>5. folded \in Session /\ folded.config = core.config
    BY <2>1, <2>4 DEF Session
  <2> HIDE DEF folded
  <2>6. next \in Session /\ next.config = core.config
    BY <2>5, ReleasedType
  <2>7. sessions' = [sessions EXCEPT ![n].core = next] /\ edits' = edits
    BY <1>6, <2>2 DEF FoldPoll, folded
  <2> HIDE DEF next
  <2> QED
    BY <1>1, <1>3, <2>1, <2>6, <2>7, SetSessionGrows
<1>7. ASSUME NEW e \in Editor, RequestLock(e)
      PROVE  Told
  <2> DEFINE n == edits[e].session
             core == Requested(sessions[n].core, e)
             call == [edits[e] EXCEPT !.at = "waiting"]
  <2>1. /\ edits[e] # None /\ edits[e].at = "called"
        /\ edits' = [edits EXCEPT ![e] = call]
        /\ sessions' = [sessions EXCEPT ![n].core = core]
    BY <1>7 DEF RequestLock, EditAt
  <2>2. /\ edits[e] \in EditCall /\ n \in 1..Len(sessions)
        /\ sessions[n].core \in Session
    BY <1>1, <2>1, EditInHand
  <2>3. core \in Session /\ core.config = sessions[n].core.config
    BY <2>2, RequestedType, FleetModelAssumption
  <2>4. /\ call \in EditCall /\ call.op = edits[e].op /\ call.session = n
        /\ call.at = "waiting" /\ call # None
    BY <2>2, NoneIsNoRecord DEF EditCall
  <2> HIDE DEF core, call
  <2>5. Grown(sessions, sessions')
    BY <1>1, <2>1, <2>2, <2>3, SetSessionGrows
  <2>6. Applies(edits, app.session) => Applies(edits', app.session)
    BY <1>1, <2>1, <2>4, AppliesKept
  <2>7. Names(app, sessions, edits) => Names(app', sessions', edits')
    BY <1>1, <1>2, <2>5, <2>6, NamesKept
  <2>8. ASSUME ~Mobile
        PROVE  Taken(sessions', edits')
    <3>1. Taken(sessions', edits)
      BY <1>1, <2>5, <2>8, TakenKept
    <3>2. e = Saver /\ call.op = "save"
      BY <1>1, <2>1, <2>4, <2>8 DEF Taken
    <3> QED
      BY <1>1, <2>1, <2>4, <3>1, <3>2, TakenCalled
  <2> QED
    BY <2>7, <2>8 DEF Told
<1>8. ASSUME NEW e \in Editor, StoreEdit(e)
      PROVE  Told
  <2> DEFINE n == edits[e].session
             core == sessions[n].core
             next == IF edits[e].op = "forget"
                     THEN [core EXCEPT !.state = Forget(@, edits[e].arg)]
                     ELSE [core EXCEPT !.config = edits[e].arg]
             call == [edits[e] EXCEPT !.at = "stored", !.view = ViewOf(n, next)]
  <2>1. /\ edits[e] # None /\ edits[e].at = "waiting"
        /\ edits' = [edits EXCEPT ![e] = call]
        /\ sessions' = [sessions EXCEPT ![n].core = Released(next)]
    BY <1>8 DEF StoreEdit, EditAt
  <2>2. /\ edits[e] \in EditCall /\ n \in 1..Len(sessions) /\ n \in Nat
        /\ core \in Session /\ sessions[n] \in Handle
        /\ edits[e].op = "forget" => edits[e].arg \in Host
        /\ edits[e].op # "forget" => edits[e].arg \in Config
    BY <1>1, <2>1, EditInHand DEF EditCall
  <2>3. /\ next \in Session
        /\ next.config = IF edits[e].op = "forget"
                         THEN core.config ELSE edits[e].arg
    BY <2>2 DEF Session, FleetState, Forget
  <2>4. ViewOf(n, next) \in View
    BY <2>2, <2>3, ViewType
  <2> HIDE DEF next
  <2>5. /\ Released(next) \in Session
        /\ Released(next).config = next.config
    BY <2>3, ReleasedType
  <2>6. /\ call \in EditCall /\ call.op = edits[e].op /\ call.session = n
        /\ call.arg = edits[e].arg /\ call # None
    BY <2>2, <2>4, NoneIsNoRecord DEF EditCall
  <2> HIDE DEF call
  <2>7. /\ Len(sessions') = Len(sessions)
        /\ sessions'[n].core.config = next.config
        /\ \A m \in 1..Len(sessions) : m # n => sessions'[m] = sessions[m]
    <3>1. [sessions[n] EXCEPT !.core = Released(next)] \in Handle
      BY <2>2, <2>5 DEF Handle
    <3> QED
      BY <1>1, <2>1, <2>2, <2>5, <3>1, ExceptSeq DEF Handle
  <2>8. Names(app, sessions, edits) => Names(app', sessions', edits')
    <3>1. CASE edits[e].op # "forget" /\ n = app.session
      <4>1. Applies(edits', app.session)
        BY <1>1, <2>1, <2>6, <3>1, AppliesOn
      <4> QED
        BY <1>2, <4>1 DEF Names
    <3>2. CASE edits[e].op = "forget" \/ n # app.session
      <4>1. Applies(edits, app.session) => Applies(edits', app.session)
        BY <1>1, <2>1, <2>6, AppliesKept
      <4>2. app.session # NoSession =>
                sessions'[app.session].core.config
                    = sessions[app.session].core.config
        BY <1>1, <2>3, <2>7, <3>2 DEF NoSession
      <4> QED
        BY <1>2, <4>1, <4>2 DEF Names
    <3> QED
      BY <3>1, <3>2
  <2>9. ASSUME ~Mobile
        PROVE  Taken(sessions', edits')
    <3>1. e = Saver /\ edits[e].op = "save"
      BY <1>1, <2>1, <2>9 DEF Taken
    <3>2. call.arg = sessions'[call.session].core.config
      BY <2>3, <2>6, <2>7, <3>1
    <3>3. \A d \in Editor : edits[d] # None => d = e
      BY <1>1, <2>9, <3>1 DEF Taken
    <3> QED
      BY <1>1, <2>1, <2>6, <3>1, <3>2, <3>3 DEF Taken
  <2> QED
    BY <2>8, <2>9 DEF Told
<1>9. ASSUME NEW e \in Editor, DeliverEdit(e)
      PROVE  Told
  <2> DEFINE call == [edits[e] EXCEPT !.at = "queued"]
  <2>1. /\ edits[e] # None /\ edits[e].at = "stored" /\ sessions' = sessions
        /\ edits' = [edits EXCEPT ![e] = call]
    BY <1>9 DEF DeliverEdit, EditAt
  <2>2. edits[e] \in EditCall
    BY <1>1, <2>1
  <2>3. /\ call \in EditCall /\ call.op = edits[e].op /\ call # None
        /\ call.session = edits[e].session /\ call.arg = edits[e].arg
    BY <2>2, NoneIsNoRecord DEF EditCall
  <2> HIDE DEF call
  <2>4. Names(app, sessions, edits) => Names(app', sessions', edits')
    <3>1. Applies(edits, app.session) => Applies(edits', app.session)
      BY <1>1, <2>1, <2>3, AppliesKept
    <3> QED
      BY <1>1, <1>2, <2>1, <3>1, NamesKept
  <2>5. ~Mobile => Taken(sessions', edits')
    BY <1>1, <2>1, <2>3, TakenCalled DEF Taken
  <2> QED
    BY <2>4, <2>5 DEF Told
<1>10. CASE DeadlinePasses \/ WakeTimer
  BY <1>1, <1>3, <1>10 DEF DeadlinePasses, WakeTimer
<1> QED
  BY <1>4, <1>5, <1>6, <1>7, <1>8, <1>9, <1>10 DEF CallStep

\* A Save that is called is on its way, in sessions ss.
LEMMA SavedTaken ==
    ASSUME edits \in [Editor -> EditCall \cup {None}], Saver \in Editor,
           NEW config \in Config, NEW n \in Nat, NEW ss, Taken(ss, edits),
           Called(Saver, "save", config, n)
    PROVE  Taken(ss, edits')
<1> DEFINE call == [op |-> "save", at |-> "called", arg |-> config,
                    session |-> n, view |-> None]
<1>1. call \in EditCall /\ call.op = "save" /\ call.at = "called"
  BY DEF EditCall
<1>2. edits' = [edits EXCEPT ![Saver] = call]
  BY DEF Called
<1> HIDE DEF call
<1> QED
  BY <1>1, <1>2, TakenCalled

\* A screen's task is started, or forgets a host.
LEMMA ScreenCalls ==
    ASSUME Inv, OpenScreen \/ CloseScreen
    PROVE  \E e \in Editor, call \in EditCall :
              /\ edits[e] = None /\ edits' = [edits EXCEPT ![e] = call]
              /\ sessions' = sessions /\ Mobile
              /\ app'.session = app.session /\ app'.config = app.config
<1>1. PICK host \in Host \cup {None} : ScreenChange(host)
  BY DEF OpenScreen, CloseScreen, Inv, Good, Fit, Fields, View
<1>2. PICK e \in ScreenTask :
        /\ edits[e] = None /\ Mobile
        /\ edits' = [edits EXCEPT ![e] =
                        [op |-> "focus", at |-> "starting", arg |-> host,
                         session |-> NoSession, view |-> None]]
        /\ app' = Enqueued(app, [job |-> "focus", editor |-> e])
        /\ UNCHANGED <<sessions, polls, store, cache>>
  BY <1>1 DEF ScreenChange
<1> DEFINE call == [op |-> "focus", at |-> "starting", arg |-> host,
                    session |-> NoSession, view |-> None]
<1>3. call \in EditCall /\ e \in Editor
  BY DEF EditCall, NoSession, Editor
<1>4. app'.session = app.session /\ app'.config = app.config
  BY <1>2 DEF Enqueued, Inv, Good, Fit, Fields
<1> QED
  BY <1>2, <1>3, <1>4

LEMMA ForgetHostCalls ==
    ASSUME Inv, ForgetHost
    PROVE  \E e \in Editor, call \in EditCall :
              /\ edits[e] = None /\ edits' = [edits EXCEPT ![e] = call]
              /\ sessions' = sessions /\ Mobile
              /\ app'.session = app.session /\ app'.config = app.config
<1>1. PICK e \in ScreenTask :
        /\ edits[e] = None /\ screen # None /\ Mobile
        /\ edits' = [edits EXCEPT ![e] =
                        [op |-> "forget", at |-> "called", arg |-> screen,
                         session |-> app.session, view |-> None]]
        /\ UNCHANGED <<app, sessions, polls, store, cache, screen>>
  BY DEF ForgetHost
<1> DEFINE call == [op |-> "forget", at |-> "called", arg |-> screen,
                    session |-> app.session, view |-> None]
<1>2. call \in EditCall /\ e \in Editor
  BY <1>1 DEF EditCall, Editor, Inv, Good, Fit, Fields
<1> QED
  BY <1>1, <1>2

\* A reload names what the session it leaves runs.
LEMMA ReloadTells ==
    ASSUME NEW a, Fit(a, sessions, polls, edits, cache), NEW st \in Store
    PROVE  /\ Names(a, sessions, edits) =>
                  Names(Reloaded(a, st), SessionsReloaded(a, st), edits)
           /\ Grown(sessions, SessionsReloaded(a, st))
           /\ Reloaded(a, st) \in Fields
<1>1. /\ a \in Fields /\ sessions \in Seq(Handle) /\ Len(sessions) \in Nat
      /\ Grown(sessions, sessions) /\ a.session \in 0..Len(sessions)
  BY LenProperties DEF Fit, Grown
<1>2. Stayed(a, st) \/ WentDown(a, st) \/ WasReplaced(a, st)
  BY ReloadCases DEF Fit
<1>3. CASE Stayed(a, st)
  BY <1>1, <1>3 DEF Stayed
<1>4. CASE WentDown(a, st)
  BY <1>1, <1>4 DEF WentDown, TornDown, Names
<1>5. CASE WasReplaced(a, st)
  <2> DEFINE h == Rebuilt(a, st)
             b == Reloaded(a, st)
             ss == SessionsReloaded(a, st)
  <2>1. /\ h \in Handle /\ ss = Append(sessions, h)
        /\ Renewed(a, b, Len(sessions) + 1, h)
    BY <1>5 DEF WasReplaced
  <2> HIDE DEF h, b, ss
  <2>2. ss[Len(sessions) + 1] = h /\ Grown(sessions, ss)
    BY <1>1, <2>1, PushedSession, PushedGrows
  <2>3. b \in Fields /\ Names(b, ss, edits)
    BY <2>1, <2>2 DEF Renewed, Names
  <2> QED
    BY <2>2, <2>3 DEF b, ss
<1> QED
  BY <1>2, <1>3, <1>4, <1>5

LEMMA SaveTells ==
    ASSUME NameInv, Save
    PROVE  Told
<1> DEFINE base == IF app.config # None THEN app.config ELSE StoredConfig(store)
<1>1. PICK url \in Url, edit \in Edit, policy \in Policy :
          SaveTyped(url, [base EXCEPT !.edit = edit, !.liveness = policy])
  BY DEF Save
<1>2. /\ Good(app, sessions, polls, edits, cache) /\ store \in Store
      /\ Fit(app, sessions, polls, edits, cache) /\ app \in Fields
      /\ Saver \in Editor /\ edits[Saver] = None
      /\ Grown(sessions, sessions)
      /\ edits \in [Editor -> EditCall \cup {None}]
      /\ \A e \in Editor : EditStands(edits[e], Len(sessions))
      /\ ~Mobile => Taken(sessions, edits)
  BY InHand DEF NameInv, Inv, Save, Editor
<1> DEFINE config == [base EXCEPT !.edit = edit, !.liveness = policy]
<1>3. config \in Config
  <2>1. base \in Config
    BY <1>2, StoredConfigType DEF Fields
  <2> QED
    BY <2>1, FleetModelAssumption
<1> HIDE DEF config
<1> DEFINE first == app.sessionState # "ready"
           reloads == first \/ url # store.url
           moved == [store EXCEPT !.url = url]
           st == IF first THEN Saved(moved, config) ELSE moved
           a == IF reloads THEN Reloaded(app, st) ELSE app
           ss == IF reloads THEN SessionsReloaded(app, st) ELSE sessions
           saved == IF reloads THEN CacheReloaded(app, st) ELSE cache
<1>4. \/ app' = a /\ sessions' = ss /\ UNCHANGED edits
      \/ /\ a.sessionState = "ready"
         /\ Apply(a, ss, st, saved, Saver, "save", config)
  BY <1>1 DEF SaveTyped, config
<1>5. st \in Store
  <2>1. moved \in Store
    BY <1>2 DEF Store
  <2> QED
    BY <1>3, <2>1, SavedType
<1> HIDE DEF st
<1>6. /\ Good(a, ss, polls, edits, saved) /\ Grown(sessions, ss)
      /\ Names(app, sessions, edits) => Names(a, ss, edits)
  BY <1>2, <1>5, GoodReload, ReloadTells
<1> HIDE DEF a, ss, saved
<1>7. /\ ss \in Seq(Handle) /\ Len(ss) \in Nat /\ a.session \in Nat
      /\ a.session \in 0..Len(ss)
      /\ \A e \in Editor : EditStands(edits[e], Len(ss))
  BY <1>6, LenProperties DEF Good, Fit, Calls, Fields
<1>8. ~Mobile => Taken(ss, edits)
  BY <1>2, <1>6, TakenKept
<1>9. CASE app' = a /\ sessions' = ss /\ UNCHANGED edits
  BY <1>6, <1>8, <1>9 DEF Told
<1>10. CASE /\ a.sessionState = "ready"
            /\ Apply(a, ss, st, saved, Saver, "save", config)
  <2>1. a.session # NoSession
    BY <1>6, <1>10 DEF Good, Ready
  <2>2. NoJobOfEditor(a.jobs, Saver)
    BY <1>2, <1>6, EditorHasNoJob DEF Good, Fit
  <2>3. Applied(a, ss, Saver, "save", config)
    BY <1>2, <1>3, <1>5, <1>6, <1>10, <2>1, <2>2, ApplyKeeps
  <2>4. CASE /\ app' = a /\ sessions' = ss
             /\ Called(Saver, "save", config, a.session)
    <3>1. Applies(edits', app'.session)
      BY <1>2, <1>3, <1>7, <2>4, CalledApplies
    <3>2. ~Mobile => Taken(sessions', edits')
      BY <1>2, <1>3, <1>7, <1>8, <2>4, SavedTaken
    <3> QED
      BY <3>1, <3>2 DEF Told, Names
  <2>5. ASSUME NEW handle \in Handle, sessions' = Append(ss, handle),
               edits' = [edits EXCEPT ![Saver] = None],
               Renewed(a, app', Len(ss) + 1, handle)
        PROVE  Told
    <3>1. sessions'[Len(ss) + 1] = handle /\ Grown(ss, sessions')
      BY <1>7, <2>5, PushedSession, PushedGrows
    <3>2. Names(app', sessions', edits')
      BY <2>5, <3>1 DEF Renewed, Names
    <3>3. ~Mobile => Taken(sessions', edits')
      BY <1>2, <1>7, <1>8, <2>5, <3>1, TakenKept
    <3> QED
      BY <3>2, <3>3 DEF Told
  <2> QED
    BY <2>3, <2>4, <2>5 DEF Applied
<1> QED
  BY <1>4, <1>9, <1>10

LEMMA OutsideTells ==
    ASSUME NameInv, Outside
    PROVE  Told
<1>1. /\ app \in Fields /\ Grown(sessions, sessions)
      /\ app.session \in 0..Len(sessions)
      /\ edits \in [Editor -> EditCall \cup {None}]
      /\ \A e \in Editor : EditStands(edits[e], Len(sessions))
      /\ Fit(app, sessions, polls, edits, cache) /\ store \in Store /\ Inv
      /\ ~Mobile => Taken(sessions, edits)
  BY InHand DEF NameInv, Inv
<1>2. ASSUME NEW st \in Store, NEW a, Fit(a, sessions, polls, edits, cache),
             Names(app, sessions, edits) => Names(a, sessions, edits),
             app'.session = Reloaded(a, st).session,
             app'.config = Reloaded(a, st).config,
             sessions' = SessionsReloaded(a, st), edits' = edits
      PROVE  Told
  <2>1. /\ Names(a, sessions, edits) => Names(Reloaded(a, st), sessions', edits)
        /\ Grown(sessions, sessions')
    BY <1>2, ReloadTells
  <2>2. Names(Reloaded(a, st), sessions', edits) =>
            Names(app', sessions', edits')
    BY <1>2 DEF Names
  <2>3. ~Mobile => Taken(sessions', edits')
    BY <1>1, <1>2, <2>1, TakenKept
  <2> QED
    BY <1>2, <2>1, <2>2, <2>3 DEF Told
<1>3. CASE Reload
  <2>1. PICK st \in Retried(store) : Reloads(app, st)
    BY <1>3 DEF Reload
  <2> QED
    BY <1>1, <1>2, <1>3, <2>1, RetriedType DEF Reload, Reloads
<1>4. CASE SettingsChange
  <2>1. PICK edit \in Edit : Reloads(app, [store EXCEPT !.edit = edit])
    BY <1>4 DEF SettingsChange
  <2>2. [store EXCEPT !.edit = edit] \in Store
    BY <1>1 DEF Store
  <2> QED
    BY <1>1, <1>2, <1>4, <2>1, <2>2 DEF SettingsChange, Reloads
<1>5. CASE ConsentChange
  <2> DEFINE a == [app EXCEPT !.session = NoSession]
  <2>1. /\ app' = Reloaded(a, store) /\ sessions' = SessionsReloaded(a, store)
        /\ edits' = edits
    BY <1>5 DEF ConsentChange, Reloads
  <2>2. /\ a \in Fields /\ a.session = NoSession /\ a.jobs = app.jobs
        /\ a.connection = app.connection
        /\ a.timers = app.timers /\ a.timerTask = app.timerTask
    BY <1>1 DEF Fields, NoSession
  <2> HIDE DEF a
  <2>3. Fit(a, sessions, polls, edits, cache) /\ Names(a, sessions, edits)
    BY <1>1, <2>2 DEF Fit, Connected, Hosted, NoSession, Names
  <2> QED
    BY <1>1, <1>2, <2>1, <2>3
<1>6. CASE Refresh
  <2>1. PICK st \in Retried(store) :
            /\ app' = Poll(Reloaded(app, st), TRUE)
            /\ sessions' = SessionsReloaded(app, st)
    BY <1>6 DEF Refresh
  <2>2. st \in Store /\ edits' = edits
    BY <1>1, <1>6, RetriedType DEF Refresh
  <2> DEFINE a == Reloaded(app, st)
  <2>3. a \in Fields /\ app' = Poll(a, TRUE)
    BY <1>1, <2>1, <2>2, ReloadTells
  <2> HIDE DEF a
  <2>4. app'.session = a.session /\ app'.config = a.config
    BY <2>3 DEF Poll, Fields
  <2> QED
    BY <1>1, <1>2, <2>1, <2>2, <2>4 DEF a
<1>7. CASE Background
  <2>1. CancelTimer(app) \in Fields /\ Kept(app, CancelTimer(app))
    BY <1>1, TimerCancelled DEF Fit
  <2>2. /\ app' = Suspend(app) /\ sessions' = sessions /\ edits' = edits
        /\ Mobile
    BY <1>7 DEF Background
  <2>3. app'.session = app.session /\ app'.config = app.config
    BY <2>1, <2>2 DEF Suspend, Kept, Fields
  <2> QED
    BY <2>2, <2>3 DEF Told, Names
<1>8. CASE Foreground
  <2>1. PICK st \in Retried(store) :
            /\ app' = Resume(Reloaded(app, st))
            /\ sessions' = SessionsReloaded(app, st)
    BY <1>8 DEF Foreground
  <2>2. st \in Store /\ edits' = edits
    BY <1>1, <1>8, RetriedType DEF Foreground
  <2> DEFINE a == Reloaded(app, st)
  <2>3. a \in Fields /\ app' = Resume(a)
    BY <1>1, <2>1, <2>2, ReloadTells
  <2> HIDE DEF a
  <2>4. app'.session = a.session /\ app'.config = a.config
    BY <2>3 DEF Resume, Arm, CancelTimer, Fields
  <2> QED
    BY <1>1, <1>2, <2>1, <2>2, <2>4 DEF a
<1>9. CASE Wake
  <2>1. app' = Arm(app) /\ sessions' = sessions /\ edits' = edits
    BY <1>9 DEF Wake
  <2>2. app'.session = app.session /\ app'.config = app.config
    BY <1>1, <2>1 DEF Arm, CancelTimer, Fields
  <2> QED
    BY <1>1, <2>1, <2>2 DEF Told, Names
<1>10. CASE Save
  BY <1>10, SaveTells
<1>11. CASE OpenScreen \/ CloseScreen \/ ForgetHost
  <2>1. PICK e \in Editor, call \in EditCall :
            /\ edits[e] = None /\ edits' = [edits EXCEPT ![e] = call]
            /\ sessions' = sessions /\ Mobile
            /\ app'.session = app.session /\ app'.config = app.config
    <3>1. CASE ForgetHost
      BY <1>1, <3>1, ForgetHostCalls
    <3>2. CASE OpenScreen \/ CloseScreen
      BY <1>1, <3>2, ScreenCalls
    <3> QED
      BY <1>11, <3>1, <3>2
  <2>2. Applies(edits, app.session) => Applies(edits', app.session)
    BY <1>1, <2>1, AppliesKept
  <2>3. Names(app, sessions, edits) => Names(app', sessions', edits')
    BY <1>1, <2>1, <2>2, NamesKept
  <2> QED
    BY <2>1, <2>3 DEF Told
<1>12. CASE Relaunch
  <2>1. app'.session = NoSession /\ edits' = [e \in Editor |-> None]
    BY <1>12 DEF Relaunch, Launched
  <2> QED
    BY <2>1 DEF Told, Names, Taken
<1> QED
  BY <1>3, <1>4, <1>5, <1>6, <1>7, <1>8, <1>9, <1>10, <1>11, <1>12 DEF Outside

\* The model never comes to name a configuration its session does not run, but
\* at the end of a change that was overtaken: whatever is reloaded, replaced,
\* polled, forgotten or saved meanwhile (`adopt`, `applyConfig`, the comment on
\* `config`).
THEOREM ConfigIsTheSessions == Spec => ConfigInForce
<1>1. Init => NameInv
  BY InitGood DEF Init, NameInv, Taken
<1>2. NameInv /\ [Next]_vars => NameInv'
  <2> SUFFICES ASSUME NameInv, [Next]_vars PROVE NameInv'
    OBVIOUS
  <2>1. Inv'
    BY NextKeeps DEF NameInv
  <2>2. CASE UNCHANGED vars
    BY <2>1, <2>2 DEF NameInv, vars
  <2>3. CASE Next
    BY <2>1, <2>3, JobsTell, CallsTell, OutsideTells DEF Next, NameInv, Told
  <2> QED
    BY <2>2, <2>3
<1>3. ASSUME NameInv, [Next]_vars
      PROVE  [NamesWhatRuns /\ ~NamesWhatRuns'
                  => \E e \in Editor : Overtaken(e)]_vars
  <2>1. CASE Next
    <3>1. Told
      BY <1>3, <2>1, JobsTell, CallsTell, OutsideTells DEF Next
    <3>2. Names(app', sessions', edits') => NamesWhatRuns'
      BY DEF NamesWhatRuns, Names, Applying, Applies, Forgetting
    <3> QED
      BY <3>1, <3>2, NamesIsNames DEF Told
  <2> QED
    BY <1>3, <2>1
<1> QED
  BY <1>1, <1>2, <1>3, PTL DEF Spec, ConfigInForce
=============================================================================
