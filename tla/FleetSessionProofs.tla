------------------------- MODULE FleetSessionProofs -------------------------
(***************************************************************************)
(* One session under any number of callers: what a poll cloned is what it  *)
(* stores over, and so the session is atomic to its callers.               *)
(***************************************************************************)
EXTENDS FleetSession, TLAPS

Inv == TypeOK /\ SnapshotIsCurrent

-----------------------------------------------------------------------------
(* The values.                                                             *)

LEMMA FoldType ==
    ASSUME NEW state \in FleetState, NEW seen \in Observation, NEW expired
    PROVE  Fold(state, seen, expired) \in FleetState
BY DEF FleetState, Observation, Fold

LEMMA ForgetType ==
    ASSUME NEW state \in FleetState, NEW host
    PROVE  Forget(state, host) \in FleetState
BY DEF FleetState, Forget

LEMMA RequestedType ==
    ASSUME NEW s \in Session, NEW c \in Caller
    PROVE  /\ Requested(s, c) \in Session
           /\ Requested(s, c).state = s.state
           /\ Requested(s, c).config = s.config
           /\ ~IsFree(s) => Requested(s, c).holder = s.holder
BY DEF Session, Requested, IsFree

LEMMA ReleasedType ==
    ASSUME NEW s \in Session
    PROVE  /\ Released(s) \in Session
           /\ Released(s).state = s.state
           /\ Released(s).config = s.config
<1>1. CASE s.waiting = <<>>
    BY <1>1 DEF Session, Released
<1>2. CASE s.waiting # <<>>
    <2>1. Head(s.waiting) \in Caller /\ Tail(s.waiting) \in Seq(Caller)
        BY <1>2 DEF Session
    <2> QED BY <1>2, <2>1 DEF Session, Released
<1> QED BY <1>1, <1>2

LEMMA RemovedType ==
    ASSUME NEW queue \in Seq(Caller), NEW i \in 1..Len(queue)
    PROVE  RemoveAt(queue, i) \in Seq(Caller)
<1>1. SubSeq(queue, 1, i - 1) \in Seq(Caller)
    OBVIOUS
<1>2. SubSeq(queue, i + 1, Len(queue)) \in Seq(Caller)
    OBVIOUS
<1> QED BY <1>1, <1>2 DEF RemoveAt

-----------------------------------------------------------------------------
(* The invariant, kept by every action.                                    *)

\* A call that returns leaves its caller idle and the other callers alone.
LEMMA ReturnType ==
    ASSUME Inv, NEW c \in Caller, Return(c), session' \in Session
    PROVE  TypeOK'
BY DEF Inv, TypeOK, Return, Place, Polling, Editing

\* While the lock is free, or its holder is not polling, nobody polls.
LEMMA PollerHolds ==
    ASSUME Inv
    PROVE  /\ IsFree(session) => \A d \in Caller : pc[d] \notin Polling
           /\ \A c \in Caller : session.holder = c =>
                  \A d \in Caller : pc[d] \in Polling => d = c
BY NoneIsNoCaller DEF Inv, SnapshotIsCurrent, IsFree

LEMMA InitInv == Init => Inv
<1> SUFFICES ASSUME Init PROVE Inv
    OBVIOUS
<1>1. session \in Session
    BY DEF Init, Session, NewSession, Restored, FleetState
<1>2. TypeOK
    BY <1>1 DEF Init, TypeOK, Place, Polling, Editing
<1> QED BY <1>2 DEF Init, Inv, SnapshotIsCurrent, Polling

LEMMA PollInv ==
    ASSUME Inv, NEW c \in Caller,
           CallPoll(c) \/ SkipPoll(c) \/ BeginPoll(c) \/ FetchPoll(c)
    PROVE  Inv'
<1>1. CASE CallPoll(c)
    BY <1>1 DEF Inv, TypeOK, SnapshotIsCurrent, CallPoll, Place, Polling, Editing
<1>2. CASE SkipPoll(c)
    <2>1. TypeOK'
        BY <1>2, ReturnType DEF Inv, TypeOK, SkipPoll
    <2>2. SnapshotIsCurrent'
        BY <1>2 DEF Inv, TypeOK, SnapshotIsCurrent, SkipPoll, Return, Polling
    <2> QED BY <2>1, <2>2 DEF Inv
<1>3. CASE BeginPoll(c)
    <2>1. session' \in Session /\ session'.state = session.state
              /\ session'.config = session.config /\ session'.holder = c
        BY <1>3 DEF Inv, TypeOK, BeginPoll, Session
    <2>2. snap'[c] = [state |-> session.state, config |-> session.config]
              /\ snap'[c] \in Clone
        BY <1>3 DEF Inv, TypeOK, BeginPoll, Session, Clone
    <2>3. TypeOK'
        BY <1>3, <2>1, <2>2 DEF Inv, TypeOK, BeginPoll, Place, Polling, Editing
    <2>4. SnapshotIsCurrent'
        BY <1>3, <2>1, <2>2, PollerHolds
           DEF Inv, TypeOK, SnapshotIsCurrent, BeginPoll, Polling
    <2> QED BY <2>3, <2>4 DEF Inv
<1>4. CASE FetchPoll(c)
    <2>1. PICK seen \in Observation : arg' = [arg EXCEPT ![c] = seen]
        BY <1>4 DEF FetchPoll
    <2>2. TypeOK'
        BY <1>4, <2>1 DEF Inv, TypeOK, FetchPoll, Place, Polling, Editing
    <2>3. SnapshotIsCurrent'
        BY <1>4 DEF Inv, TypeOK, SnapshotIsCurrent, FetchPoll, Polling
    <2> QED BY <2>2, <2>3 DEF Inv
<1> QED BY <1>1, <1>2, <1>3, <1>4

\* What a poll stores is a fold of the state the session holds.
LEMMA StoreFolds ==
    ASSUME Inv, NEW c \in Caller, StorePoll(c)
    PROVE  /\ session' \in Session
           /\ session'.config = session.config
           /\ \E expired \in SUBSET (session.state.known \ arg[c].hosts) :
                  session'.state = Fold(session.state, arg[c], expired)
<1>1. snap[c].state = session.state /\ arg[c] \in Observation
    BY DEF Inv, TypeOK, SnapshotIsCurrent, StorePoll, Polling
<1>2. PICK expired \in SUBSET (session.state.known \ arg[c].hosts) :
          session' = Released([session EXCEPT
                         !.state = Fold(session.state, arg[c], expired)])
    BY <1>1 DEF StorePoll
<1>3. session.state \in FleetState
    BY DEF Inv, TypeOK, Session
<1>4. Fold(session.state, arg[c], expired) \in FleetState
    BY <1>1, <1>3, FoldType
<1>5. [session EXCEPT !.state = Fold(session.state, arg[c], expired)] \in Session
    BY <1>4 DEF Inv, TypeOK, Session
<1> QED BY <1>2, <1>5, ReleasedType DEF Inv, TypeOK, Session

LEMMA StoreInv ==
    ASSUME Inv, NEW c \in Caller, StorePoll(c)
    PROVE  Inv'
<1>1. TypeOK'
    BY StoreFolds, ReturnType DEF StorePoll
<1>2. \A d \in Caller : pc'[d] \notin Polling
    BY PollerHolds DEF Inv, TypeOK, SnapshotIsCurrent, StorePoll, Return, Polling
<1> QED BY <1>1, <1>2 DEF Inv, SnapshotIsCurrent

LEMMA CallInv ==
    ASSUME Inv, NEW c \in Caller,
           \/ \E config \in Config : CallSetConfig(c, config)
           \/ \E host \in Host : CallForgetHost(c, host)
           \/ RequestLock(c)
    PROVE  Inv'
<1>1. ASSUME NEW config \in Config, CallSetConfig(c, config)
      PROVE  Inv'
    BY <1>1 DEF Inv, TypeOK, SnapshotIsCurrent, CallSetConfig,
                Place, Polling, Editing
<1>2. ASSUME NEW host \in Host, CallForgetHost(c, host)
      PROVE  Inv'
    BY <1>2 DEF Inv, TypeOK, SnapshotIsCurrent, CallForgetHost,
                Place, Polling, Editing
<1>3. CASE RequestLock(c)
    <2>1. /\ session' \in Session
          /\ session'.state = session.state /\ session'.config = session.config
          /\ ~IsFree(session) => session'.holder = session.holder
        BY <1>3, RequestedType DEF Inv, TypeOK, RequestLock
    <2>2. TypeOK'
        BY <1>3, <2>1 DEF Inv, TypeOK, RequestLock, Place, Polling, Editing
    <2>3. SnapshotIsCurrent'
        BY <1>3, <2>1, PollerHolds
           DEF Inv, TypeOK, SnapshotIsCurrent, RequestLock, Polling
    <2> QED BY <2>2, <2>3 DEF Inv
<1> QED BY <1>1, <1>2, <1>3

LEMMA EditStores ==
    ASSUME Inv, NEW c \in Caller, SetConfig(c) \/ ForgetHost(c)
    PROVE  /\ session' \in Session
           /\ SetConfig(c) => session'.config = arg[c]
                              /\ session'.state = session.state
           /\ ForgetHost(c) => session'.config = session.config
                               /\ session'.state = Forget(session.state, arg[c])
<1>1. CASE SetConfig(c)
    <2>1. [session EXCEPT !.config = arg[c]] \in Session
        BY <1>1 DEF Inv, TypeOK, SetConfig, Session
    <2>2. pc[c] = "setting" /\ session' = Released([session EXCEPT !.config = arg[c]])
        BY <1>1 DEF SetConfig
    <2> QED BY <2>1, <2>2, ReleasedType DEF Inv, TypeOK, Session, ForgetHost
<1>2. CASE ForgetHost(c)
    <2>1. Forget(session.state, arg[c]) \in FleetState
        BY ForgetType DEF Inv, TypeOK, Session
    <2>2. [session EXCEPT !.state = Forget(@, arg[c])] \in Session
        BY <2>1 DEF Inv, TypeOK, Session
    <2>3. /\ pc[c] = "forgetting"
          /\ session' = Released([session EXCEPT !.state = Forget(@, arg[c])])
        BY <1>2 DEF ForgetHost
    <2> QED BY <2>2, <2>3, ReleasedType DEF Inv, TypeOK, Session, SetConfig
<1> QED BY <1>1, <1>2

LEMMA EditInv ==
    ASSUME Inv, NEW c \in Caller, SetConfig(c) \/ ForgetHost(c)
    PROVE  Inv'
<1>1. TypeOK'
    BY EditStores, ReturnType DEF SetConfig, ForgetHost
<1>2. \A d \in Caller : pc'[d] \notin Polling
    BY PollerHolds
       DEF Inv, TypeOK, SetConfig, ForgetHost, Return, Polling
<1> QED BY <1>1, <1>2 DEF Inv, SnapshotIsCurrent

LEMMA DropKeeps ==
    ASSUME Inv, NEW c \in Caller, DropFuture(c)
    PROVE  /\ session' \in Session
           /\ session'.state = session.state /\ session'.config = session.config
           /\ session.holder # c => session'.holder = session.holder
<1>1. CASE session.holder = c
    BY <1>1, ReleasedType DEF Inv, TypeOK, DropFuture
<1>2. CASE session.holder # c
    <2>1. CASE UNCHANGED session
        BY <2>1 DEF Inv, TypeOK
    <2>2. ASSUME NEW i \in 1..Len(session.waiting),
                 session' = [session EXCEPT !.waiting = RemoveAt(@, i)]
          PROVE  /\ session' \in Session
                 /\ session'.state = session.state
                 /\ session'.config = session.config
                 /\ session'.holder = session.holder
        <3>1. RemoveAt(session.waiting, i) \in Seq(Caller)
            BY RemovedType DEF Inv, TypeOK, Session
        <3> QED BY <2>2, <3>1 DEF Inv, TypeOK, Session
    <2> QED BY <1>2, <2>1, <2>2 DEF DropFuture
<1> QED BY <1>1, <1>2

LEMMA DropInv ==
    ASSUME Inv, NEW c \in Caller, DropFuture(c)
    PROVE  Inv'
<1>1. TypeOK'
    BY DropKeeps, ReturnType DEF DropFuture
<1>2. SnapshotIsCurrent'
    <2> SUFFICES ASSUME NEW d \in Caller, pc'[d] \in Polling
                 PROVE  /\ session'.holder = d
                        /\ snap'[d] = [state  |-> session'.state,
                                       config |-> session'.config]
        BY DEF SnapshotIsCurrent
    <2>1. d # c /\ pc[d] \in Polling /\ snap'[d] = snap[d]
        BY DEF Inv, TypeOK, DropFuture, Return, Polling
    <2> QED BY <2>1, DropKeeps, PollerHolds DEF Inv, SnapshotIsCurrent
<1> QED BY <1>1, <1>2 DEF Inv

LEMMA NextInv == Inv /\ [Next]_vars => Inv'
<1> SUFFICES ASSUME Inv, [Next]_vars PROVE Inv'
    OBVIOUS
<1>1. CASE UNCHANGED vars
    BY <1>1 DEF Inv, TypeOK, SnapshotIsCurrent, vars
<1>2. ASSUME NEW c \in Caller,
             \/ CallPoll(c)
             \/ \E config \in Config : CallSetConfig(c, config)
             \/ \E host \in Host : CallForgetHost(c, host)
             \/ Step(c)
             \/ DropFuture(c)
      PROVE  Inv'
    BY <1>2, PollInv, StoreInv, CallInv, EditInv, DropInv DEF Step
<1> QED BY <1>1, <1>2 DEF Next

(***************************************************************************)
(* Every reachable state of a session has its type, for any hosts, any     *)
(* configurations and any number of callers of `poll`, `set_config` and    *)
(* `forget_host`.                                                          *)
(***************************************************************************)
THEOREM SessionTypeCorrect == Spec => []TypeOK
<1>1. Inv => TypeOK
    BY DEF Inv
<1> QED BY <1>1, InitInv, NextInv, PTL DEF Spec

(***************************************************************************)
(* What a poll cloned is still the session's when it stores, whoever calls *)
(* meanwhile and wherever futures are dropped (`in_flight`).               *)
(***************************************************************************)
THEOREM SnapshotStaysCurrent == Spec => []SnapshotIsCurrent
<1>1. Inv => SnapshotIsCurrent
    BY DEF Inv
<1> QED BY <1>1, InitInv, NextInv, PTL DEF Spec

-----------------------------------------------------------------------------
(* The session is atomic: one step of one caller changes one value.        *)

AskedOf == [c \in Caller |-> Asked(c)]

LEMMA InitAtomic == Init => Atomic!Init
<1> SUFFICES ASSUME Init PROVE Atomic!Init
    OBVIOUS
<1>1. \A c \in Caller : Asked(c) = Atomic!NoChange
    BY DEF Init, Asked, Atomic!NoChange
<1>2. PICK config \in Config, known \in SUBSET Host :
          session = NewSession(config, known)
    BY DEF Init
<1>3. session.config = config /\ session.state = Atomic!Restored(known)
    BY <1>2 DEF NewSession, Restored, Atomic!Restored
<1>4. [c \in Caller |-> Asked(c)] = [c \in Caller |-> Atomic!NoChange]
    BY <1>1
<1> QED BY <1>3, <1>4 DEF Atomic!Init

\* What each place of a caller asks for.
LEMMA AskedSomething ==
    ASSUME NEW c \in Caller
    PROVE  /\ pc[c] = "fetched" =>
                  Asked(c) = [op |-> "fold", arg |-> arg[c]]
           /\ pc[c] \in {"set", "setting"} =>
                  Asked(c) = [op |-> "set", arg |-> arg[c]]
           /\ pc[c] \in {"forget", "forgetting"} =>
                  Asked(c) = [op |-> "forget", arg |-> arg[c]]
           /\ pc[c] \in {"idle", "poll", "fetch"} => Asked(c) = Atomic!NoChange
BY DEF Asked, Atomic!NoChange

\* A step of c leaves what the others ask for.
LEMMA OthersAsk ==
    ASSUME NEW c \in Caller, Inv, Inv',
           \A d \in Caller \ {c} : pc'[d] = pc[d] /\ arg'[d] = arg[d]
    PROVE  AskedOf' = [AskedOf EXCEPT ![c] = Asked(c)']
<1>1. \A d \in Caller \ {c} : Asked(d)' = Asked(d)
    BY DEF Asked
<1> QED BY <1>1 DEF AskedOf

LEMMA AskAtomic ==
    ASSUME NEW c \in Caller, Inv, Inv',
           \/ FetchPoll(c)
           \/ \E config \in Config : CallSetConfig(c, config)
           \/ \E host \in Host : CallForgetHost(c, host)
    PROVE  Atomic!Ask(c)
<1>1. AskedOf' = [AskedOf EXCEPT ![c] = Asked(c)']
    BY OthersAsk DEF Inv, TypeOK, FetchPoll, CallSetConfig, CallForgetHost
<1>2. Asked(c) = Atomic!NoChange
    BY AskedSomething DEF FetchPoll, CallSetConfig, CallForgetHost
<1>3. Asked(c)' \in Atomic!Change
    <2>1. CASE FetchPoll(c)
        <3>1. pc'[c] = "fetched" /\ arg'[c] \in Observation
            BY <2>1 DEF Inv, TypeOK, FetchPoll
        <3>2. Asked(c)' = [op |-> "fold", arg |-> arg'[c]]
            BY <3>1 DEF Asked
        <3>3. Atomic!Observation = Observation
            BY DEF Atomic!Observation, Observation
        <3> QED BY <3>1, <3>2, <3>3 DEF Atomic!Change
    <2>2. ASSUME NEW config \in Config, CallSetConfig(c, config)
          PROVE  Asked(c)' \in Atomic!Change
        <3>1. pc'[c] = "set" /\ arg'[c] \in Config
            BY <2>2 DEF Inv, TypeOK, CallSetConfig
        <3>2. Asked(c)' = [op |-> "set", arg |-> arg'[c]]
            BY <3>1 DEF Asked
        <3> QED BY <3>1, <3>2 DEF Atomic!Change
    <2>3. ASSUME NEW host \in Host, CallForgetHost(c, host)
          PROVE  Asked(c)' \in Atomic!Change
        <3>1. pc'[c] = "forget" /\ arg'[c] \in Host
            BY <2>3 DEF Inv, TypeOK, CallForgetHost
        <3>2. Asked(c)' = [op |-> "forget", arg |-> arg'[c]]
            BY <3>1 DEF Asked
        <3> QED BY <3>1, <3>2 DEF Atomic!Change
    <2> QED BY <2>1, <2>2, <2>3
<1>4. UNCHANGED session
    BY DEF FetchPoll, CallSetConfig, CallForgetHost
<1>5. AskedOf[c] = Atomic!NoChange
    BY <1>2 DEF AskedOf
<1> QED BY <1>1, <1>3, <1>4, <1>5 DEF Atomic!Ask, AskedOf

LEMMA PollAtomic ==
    ASSUME NEW c \in Caller, Inv, Inv', StorePoll(c)
    PROVE  Atomic!Poll(c)
<1>1. AskedOf' = [AskedOf EXCEPT ![c] = Asked(c)']
    BY OthersAsk DEF Inv, TypeOK, StorePoll, Return
<1>2. AskedOf[c] = [op |-> "fold", arg |-> arg[c]]
    BY AskedSomething DEF StorePoll, AskedOf
<1>3. Asked(c)' = Atomic!NoChange
    BY DEF Inv, TypeOK, StorePoll, Return, Asked, Atomic!NoChange
<1>4. PICK expired \in SUBSET (session.state.known \ arg[c].hosts) :
          session'.state = Fold(session.state, arg[c], expired)
    BY StoreFolds
<1>5. session'.state = Atomic!Fold(session.state, arg[c], expired)
    BY <1>4 DEF Fold, Atomic!Fold
<1> QED
    BY <1>1, <1>2, <1>3, <1>4, <1>5, StoreFolds
       DEF Atomic!Poll, Atomic!Done, AskedOf

LEMMA EditAtomic ==
    ASSUME NEW c \in Caller, Inv, Inv', SetConfig(c) \/ ForgetHost(c)
    PROVE  Atomic!SetConfig(c) \/ Atomic!ForgetHost(c)
<1>1. AskedOf' = [AskedOf EXCEPT ![c] = Asked(c)']
    BY OthersAsk DEF Inv, TypeOK, SetConfig, ForgetHost, Return
<1>2. Asked(c)' = Atomic!NoChange
    BY DEF Inv, TypeOK, SetConfig, ForgetHost, Return, Asked, Atomic!NoChange
<1>3. CASE SetConfig(c)
    <2>1. AskedOf[c] = [op |-> "set", arg |-> arg[c]]
        BY <1>3, AskedSomething DEF SetConfig, AskedOf
    <2> QED BY <1>1, <1>2, <1>3, <2>1, EditStores
            DEF Atomic!SetConfig, Atomic!Done, AskedOf
<1>4. CASE ForgetHost(c)
    <2>1. AskedOf[c] = [op |-> "forget", arg |-> arg[c]]
        BY <1>4, AskedSomething DEF ForgetHost, AskedOf
    <2>2. session'.state = Atomic!Forget(session.state, arg[c])
        BY <1>4, EditStores DEF Forget, Atomic!Forget
    <2> QED BY <1>1, <1>2, <1>4, <2>1, <2>2, EditStores
            DEF Atomic!ForgetHost, Atomic!Done, AskedOf
<1> QED BY <1>3, <1>4

LEMMA DropAtomic ==
    ASSUME NEW c \in Caller, Inv, Inv', DropFuture(c)
    PROVE  Atomic!Drop(c)
<1>1. AskedOf' = [AskedOf EXCEPT ![c] = Asked(c)']
    BY OthersAsk DEF Inv, TypeOK, DropFuture, Return
<1>2. Asked(c)' = Atomic!NoChange
    BY DEF Inv, TypeOK, DropFuture, Return, Asked, Atomic!NoChange
<1> QED BY <1>1, <1>2, DropKeeps DEF Atomic!Drop, Atomic!Done, AskedOf

LEMMA QuietAtomic ==
    ASSUME NEW c \in Caller, Inv, Inv',
           CallPoll(c) \/ SkipPoll(c) \/ BeginPoll(c) \/ RequestLock(c)
    PROVE  UNCHANGED Atomic!vars
<1>1. AskedOf' = [AskedOf EXCEPT ![c] = Asked(c)']
    BY OthersAsk
       DEF Inv, TypeOK, CallPoll, SkipPoll, BeginPoll, RequestLock, Return
<1>2. session'.config = session.config /\ session'.state = session.state
    BY RequestedType
       DEF Inv, TypeOK, Session, CallPoll, SkipPoll, BeginPoll, RequestLock
<1>3. Asked(c)' = Asked(c)
    BY DEF Inv, TypeOK, CallPoll, SkipPoll, BeginPoll, RequestLock, Return, Asked
<1>4. AskedOf' = AskedOf
    BY <1>1, <1>3 DEF AskedOf
<1> QED BY <1>2, <1>4 DEF Atomic!vars, AskedOf

LEMMA NextAtomic ==
    ASSUME Inv, Inv', [Next]_vars
    PROVE  [Atomic!Next]_(Atomic!vars)
<1>1. CASE UNCHANGED vars
    <2>1. AskedOf' = AskedOf
        BY <1>1 DEF vars, AskedOf, Asked
    <2> QED BY <1>1, <2>1 DEF vars, Atomic!vars, AskedOf
<1>2. ASSUME NEW c \in Caller,
             \/ CallPoll(c)
             \/ \E config \in Config : CallSetConfig(c, config)
             \/ \E host \in Host : CallForgetHost(c, host)
             \/ Step(c)
             \/ DropFuture(c)
      PROVE  Atomic!Next \/ UNCHANGED Atomic!vars
    BY <1>2, AskAtomic, PollAtomic, EditAtomic, DropAtomic, QuietAtomic
       DEF Step, Atomic!Next
<1> QED BY <1>1, <1>2 DEF Next

(***************************************************************************)
(* To its callers a session is one value that whole calls change one at a  *)
(* time: every call takes effect at one instant on the value of that       *)
(* instant, or, skipped or dropped, not at all.                            *)
(***************************************************************************)
THEOREM SessionIsAtomic == Spec => AtomicSpec
<1>1. Init => Inv /\ Atomic!Init
    BY InitInv, InitAtomic
<1>2. Inv /\ [Next]_vars => Inv'
    BY NextInv
<1>3. Inv /\ Inv' /\ [Next]_vars => [Atomic!Next]_(Atomic!vars)
    BY NextAtomic
<1> QED BY <1>1, <1>2, <1>3, PTL DEF Spec, AtomicSpec, Atomic!Spec
=============================================================================
