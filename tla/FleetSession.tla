---------------------------- MODULE FleetSession ----------------------------
(***************************************************************************)
(* One `FleetSession` under concurrent callers.                            *)
(*                                                                         *)
(* `poll` clones state and configuration, awaits the backend, folds, and   *)
(* stores: a fold that stored over a change made in between would undo it. *)
(* `in_flight` forbids that.  A poll takes it with `try_lock` and answers  *)
(* "skipped" when it is taken; `set_config` and `forget_host` wait for it. *)
(* Every future may also be dropped where it stands, and its guard with it.*)
(***************************************************************************)
EXTENDS SessionState, SequencesExt

VARIABLES session,  \* the session's configuration, state and lock
          pc,       \* pc[c]: where caller c is
          arg,      \* arg[c]: the configuration or host its edit carries, or
                    \* what its poll was answered; None otherwise
          snap      \* snap[c]: the state and configuration its poll cloned

vars == <<session, pc, arg, snap>>

\* "fetch": cloned, awaiting the backend; "fetched": answered, about to store.
\* "setting", "forgetting": asked for the lock, or holding it, about to store.
Polling == {"fetch", "fetched"}
Editing == {"setting", "forgetting"}
Place   == {"idle", "poll", "set", "forget"} \cup Polling \cup Editing

Clone == [state : FleetState, config : Config]

TypeOK ==
    /\ session \in Session
    /\ pc \in [Caller -> Place]
    /\ arg \in [Caller -> Config \cup Host \cup Observation \cup {None}]
    /\ snap \in [Caller -> Clone \cup {None}]
    /\ \A c \in Caller :
           /\ pc[c] \in Polling => snap[c] \in Clone
           /\ pc[c] = "fetched" => arg[c] \in Observation
           /\ pc[c] \in {"set", "setting"} => arg[c] \in Config
           /\ pc[c] \in {"forget", "forgetting"} => arg[c] \in Host

\* A session assembled over a cache that held `known`; nobody has called yet.
Init ==
    /\ \E config \in Config, known \in SUBSET Host :
           session = NewSession(config, known)
    /\ pc = [c \in Caller |-> "idle"]
    /\ arg = [c \in Caller |-> None]
    /\ snap = [c \in Caller |-> None]

\* The call of c returns, or is dropped: nothing of it is left.
Return(c) ==
    /\ pc' = [pc EXCEPT ![c] = "idle"]
    /\ arg' = [arg EXCEPT ![c] = None]
    /\ snap' = [snap EXCEPT ![c] = None]

-----------------------------------------------------------------------------
(***************************************************************************)
(* poll                                                                    *)
(***************************************************************************)
CallPoll(c) ==
    /\ pc[c] = "idle"
    /\ pc' = [pc EXCEPT ![c] = "poll"]
    /\ UNCHANGED <<session, arg, snap>>

\* `try_lock` failed: the call answers from the unchanged state.
SkipPoll(c) ==
    /\ pc[c] = "poll"
    /\ ~IsFree(session)
    /\ Return(c)
    /\ UNCHANGED session

\* Mutant: the poll tests the lock without keeping it.
BeginPollUnlocked(c) ==
    /\ pc[c] = "poll"
    /\ IsFree(session)
    /\ pc' = [pc EXCEPT ![c] = "fetch"]
    /\ snap' = [snap EXCEPT ![c] = [state  |-> session.state,
                                    config |-> session.config]]
    /\ UNCHANGED <<session, arg>>

BeginPoll(c) ==
    /\ pc[c] = "poll"
    /\ IsFree(session)
    /\ pc' = [pc EXCEPT ![c] = "fetch"]
    /\ session' = [session EXCEPT !.holder = c]
    /\ snap' = [snap EXCEPT ![c] = [state  |-> session.state,
                                    config |-> session.config]]
    /\ UNCHANGED arg

\* `poll_once` has its answers, or its failures.
FetchPoll(c) ==
    /\ pc[c] = "fetch"
    /\ pc' = [pc EXCEPT ![c] = "fetched"]
    /\ \E seen \in Observation : arg' = [arg EXCEPT ![c] = seen]
    /\ UNCHANGED <<session, snap>>

\* Fold the clone, store the fold, drop the guard.
StorePoll(c) ==
    /\ pc[c] = "fetched"
    /\ \E expired \in SUBSET (snap[c].state.known \ arg[c].hosts) :
          session' = Released([session EXCEPT
                         !.state = Fold(snap[c].state, arg[c], expired)])
    /\ Return(c)

(***************************************************************************)
(* set_config and forget_host: call, ask for the lock, store once held.    *)
(***************************************************************************)
CallSetConfig(c, config) ==
    /\ pc[c] = "idle"
    /\ pc' = [pc EXCEPT ![c] = "set"]
    /\ arg' = [arg EXCEPT ![c] = config]
    /\ UNCHANGED <<session, snap>>

CallForgetHost(c, host) ==
    /\ pc[c] = "idle"
    /\ pc' = [pc EXCEPT ![c] = "forget"]
    /\ arg' = [arg EXCEPT ![c] = host]
    /\ UNCHANGED <<session, snap>>

RequestLock(c) ==
    /\ \/ pc[c] = "set"    /\ pc' = [pc EXCEPT ![c] = "setting"]
       \/ pc[c] = "forget" /\ pc' = [pc EXCEPT ![c] = "forgetting"]
    /\ session' = Requested(session, c)
    /\ UNCHANGED <<arg, snap>>

SetConfig(c) ==
    /\ pc[c] = "setting"
    /\ session.holder = c
    /\ session' = Released([session EXCEPT !.config = arg[c]])
    /\ Return(c)

ForgetHost(c) ==
    /\ pc[c] = "forgetting"
    /\ session.holder = c
    /\ session' = Released([session EXCEPT !.state = Forget(@, arg[c])])
    /\ Return(c)

\* The task awaiting the call went away; the future is dropped, its guard or
\* its place in the queue with it, and nothing is stored.
DropFuture(c) ==
    /\ pc[c] # "idle"
    /\ Return(c)
    /\ \/ /\ session.holder = c
          /\ session' = Released(session)
       \/ /\ session.holder # c
          /\ \E i \in 1..Len(session.waiting) :
                /\ session.waiting[i] = c
                /\ session' = [session EXCEPT !.waiting = RemoveAt(@, i)]
       \/ /\ session.holder # c
          /\ \A i \in 1..Len(session.waiting) : session.waiting[i] # c
          /\ UNCHANGED session

-----------------------------------------------------------------------------
Step(c) ==
    \/ SkipPoll(c) \/ BeginPoll(c) \/ FetchPoll(c) \/ StorePoll(c)
    \/ RequestLock(c) \/ SetConfig(c) \/ ForgetHost(c)

Next ==
    \E c \in Caller :
        \/ CallPoll(c)
        \/ \E config \in Config : CallSetConfig(c, config)
        \/ \E host \in Host : CallForgetHost(c, host)
        \/ Step(c)
        \/ DropFuture(c)

Spec == Init /\ [][Next]_vars

\* A started call goes on: the runtime polls ready futures, and every request
\* a poll awaits ends, in an answer or in the client's timeout.
FairSpec == Spec /\ \A c \in Caller : WF_vars(Step(c))

-----------------------------------------------------------------------------
(***************************************************************************)
(* Correctness                                                             *)
(***************************************************************************)

\* While a poll awaits the backend it holds the lock, and the state and
\* configuration it cloned are still the session's: its store undoes nothing
\* (session.rs, `poll`: "no `set_config` or `forget_host` can have landed
\* between the clone above and this write").
SnapshotIsCurrent ==
    \A c \in Caller : pc[c] \in Polling =>
        /\ session.holder = c
        /\ snap[c] = [state |-> session.state, config |-> session.config]

\* An edit of the user's is never answered with a skip: once asked for it is
\* stored, however many polls run, unless its own caller goes away.
EditsAreServed ==
    \A c \in Caller :
        /\ pc[c] \in {"set", "setting"} ~> pc[c] \notin {"set", "setting"}
        /\ pc[c] \in {"forget", "forgetting"} ~>
               pc[c] \notin {"forget", "forgetting"}

\* What the call of c is about to do to the session.
Asked(c) ==
    CASE pc[c] = "fetched"                -> [op |-> "fold", arg |-> arg[c]]
      [] pc[c] \in {"set", "setting"}       -> [op |-> "set", arg |-> arg[c]]
      [] pc[c] \in {"forget", "forgetting"} -> [op |-> "forget", arg |-> arg[c]]
      [] OTHER                            -> [op |-> "none", arg |-> None]

\* To its callers the session is one value that whole calls change one at a
\* time: a forgotten host comes back only if a later poll lists it, and no edit
\* is undone by a poll that began before it (session.rs, `poll`, `set_config`
\* and `forget_host`).
Atomic == INSTANCE AtomicSession WITH config <- session.config,
                                      state  <- session.state,
                                      asked  <- [c \in Caller |-> Asked(c)]
AtomicSpec == Atomic!Spec
=============================================================================
