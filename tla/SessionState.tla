---------------------------- MODULE SessionState ----------------------------
(***************************************************************************)
(* The values one `FleetSession` holds (src/clients/ffi/pessimal_ffi/src/  *)
(* session.rs) and what its calls compute from them: the folded state, the *)
(* advice read off it, and the `in_flight` lock that orders the writers.   *)
(*                                                                         *)
(* A state keeps the hosts it remembers and what the last poll of this     *)
(* session taught it about polling again.  Metrics, alerts and freshness   *)
(* are left to the fold; the lock does not depend on them.                 *)
(***************************************************************************)
EXTENDS Naturals, Sequences

CONSTANTS Host,     \* the hosts a roster can list
          Config,   \* the configurations core accepts
          Caller,   \* the futures that can hold or wait for the lock
          None      \* nothing: a free lock, an absent value

ASSUME NoneIsNoCaller == None \notin Caller

(***************************************************************************)
(* The state a session folds.  `last` is "none" until the first fold of    *)
(* the session, which a restored cache never counts as.                    *)
(***************************************************************************)
FleetState == [known : SUBSET Host, last : {"none", "folded", "denied"}]

Restored(known) == [known |-> known, last |-> "none"]

\* When to poll again: at once, after an interval or a backoff, or not at all.
Advice == {"now", "later", "halt"}

AdviceOf(state) ==
    CASE state.last = "none"   -> "now"
      [] state.last = "denied" -> "halt"
      [] OTHER                 -> "later"

\* What a poll brought back: the roster if it listed, and whether any request
\* of the poll was refused for its key.
Observation ==
    [listed : {FALSE}, hosts : {{}}, denied : BOOLEAN]
        \cup [listed : {TRUE}, hosts : SUBSET Host, denied : BOOLEAN]

\* A listed roster adds its hosts and retires the `expired` ones among the
\* hosts it does not name; a failed roster leaves every host where it was.
Fold(state, seen, expired) ==
    [known |-> IF seen.listed
               THEN (state.known \ expired) \cup seen.hosts
               ELSE state.known,
     last  |-> IF seen.denied THEN "denied" ELSE "folded"]

Forget(state, host) == [state EXCEPT !.known = @ \ {host}]

(***************************************************************************)
(* A session: configuration, state, and the fair lock with its queue.      *)
(***************************************************************************)
Session == [config : Config, state : FleetState,
            holder : Caller \cup {None}, waiting : Seq(Caller)]

NewSession(config, known) ==
    [config |-> config, state |-> Restored(known),
     holder |-> None, waiting |-> <<>>]

IsFree(s) == s.holder = None

\* `lock().await`: the lock if it is free, else the end of the queue.
Requested(s, c) ==
    IF IsFree(s) THEN [s EXCEPT !.holder = c]
                 ELSE [s EXCEPT !.waiting = Append(@, c)]

\* Mutant: the guard frees the lock and nobody in the queue is woken.
ReleasedToNobody(s) == [s EXCEPT !.holder = None]

\* A dropped guard hands the lock to the head of the queue.
Released(s) ==
    IF s.waiting = <<>>
    THEN [s EXCEPT !.holder = None]
    ELSE [s EXCEPT !.holder = Head(s.waiting), !.waiting = Tail(s.waiting)]
=============================================================================
