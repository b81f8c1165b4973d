--------------------------- MODULE AtomicSession ---------------------------
(***************************************************************************)
(* What a `FleetSession` promises its callers: a configuration and a state *)
(* that calls change one at a time, each at one instant and on the value   *)
(* of that instant.  A poll folds the answers it was given into the state  *)
(* as it then is; a call that is dropped before its instant changes        *)
(* nothing.                                                                *)
(***************************************************************************)
EXTENDS SessionState

VARIABLES config,  \* the configuration
          state,   \* the folded state
          asked    \* asked[c]: what the call of c is about to do

vars == <<config, state, asked>>

NoChange == [op |-> "none", arg |-> None]

Change == [op : {"fold"}, arg : Observation]
              \cup [op : {"set"}, arg : Config]
              \cup [op : {"forget"}, arg : Host]

Init ==
    /\ config \in Config
    /\ \E known \in SUBSET Host : state = Restored(known)
    /\ asked = [c \in Caller |-> NoChange]

Ask(c) ==
    /\ asked[c] = NoChange
    /\ \E change \in Change : asked' = [asked EXCEPT ![c] = change]
    /\ UNCHANGED <<config, state>>

Done(c) == asked' = [asked EXCEPT ![c] = NoChange]

\* A poll retires hosts its roster does not name, and adds those it names.
Poll(c) ==
    /\ asked[c].op = "fold"
    /\ \E expired \in SUBSET (state.known \ asked[c].arg.hosts) :
           state' = Fold(state, asked[c].arg, expired)
    /\ Done(c)
    /\ UNCHANGED config

SetConfig(c) ==
    /\ asked[c].op = "set"
    /\ config' = asked[c].arg
    /\ Done(c)
    /\ UNCHANGED state

ForgetHost(c) ==
    /\ asked[c].op = "forget"
    /\ state' = Forget(state, asked[c].arg)
    /\ Done(c)
    /\ UNCHANGED config

Drop(c) ==
    /\ Done(c)
    /\ UNCHANGED <<config, state>>

Next ==
    \E c \in Caller :
        Ask(c) \/ Poll(c) \/ SetConfig(c) \/ ForgetHost(c) \/ Drop(c)

Spec == Init /\ [][Next]_vars
=============================================================================
