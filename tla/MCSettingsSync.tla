---------------------------- MODULE MCSettingsSync ----------------------------
(***************************************************************************)
(* Small instances of SettingsSync: one register and one or two rules, two *)
(* texts, two devices.                                                     *)
(***************************************************************************)
EXTENDS SettingsSync, TLC

MCDevices == CHOOSE pair \in Device \X Device : pair[1] # pair[2]

Nothing == [value |-> [k \in Key |-> None], rules |-> "unset"]

(* The environment has no default, so a device with nothing stored has no  *)
(* session until its first Save.                                           *)
MCDefault == [s \in Setting |-> None]

MCUsable == [d \in Device |-> Text]

MCNothingStored == {[d \in Device |-> Nothing]}

(* Nothing is stored, or every device was used before sync existed, with   *)
(* the same settings.                                                      *)
MCSameStored ==
    MCNothingStored \cup
        {[d \in Device |-> [value |-> [k \in Key |-> 1], rules |-> "set"]]}

MCFirstAccount == [d \in Device |-> CHOOSE a \in Account : TRUE]

Symmetry == Permutations(Device)

MCNoForeign == {}

MCForeign == {Newer, Junk(1)}

(* Two devices that were used before sync existed.  The first one's build  *)
(* is older: it does not know text 2.  The second one's stored rules do    *)
(* not decode.                                                             *)
MCOlder == MCDevices[1]

MCMixedUsable == [d \in Device |-> IF d = MCOlder THEN {1} ELSE Text]

MCMixedStored ==
    {[d \in Device |->
        IF d = MCOlder
        THEN [value |-> [k \in Key |-> 1], rules |-> "set"]
        ELSE [value |-> [k \in Key |-> IF k \in Setting THEN 2 ELSE None],
              rules |-> "unreadable"]]}

(* What may happen in one behaviour. *)
Never == [c \in Counter |-> 0]
AtMost(bounds) == {u \in [Counter -> 0 .. 2] : \A c \in Counter : u[c] <= bounds[c]}

(* Two Saves, or one beside a kill or an account change.                   *)
MCSharing ==
    AtMost([Never EXCEPT !.saves = 2])
        \cup AtMost([Never EXCEPT !.saves = 1, !.kills = 1])
        \cup AtMost([Never EXCEPT !.saves = 1, !.switches = 1])

(* A Save, foreign text in the mailbox, and a late first download.         *)
MCBootstrap ==
    AtMost([Never EXCEPT !.saves = 1, !.foreign = 1, !.initialSyncs = 1])

MCTwoSaves == AtMost([Never EXCEPT !.saves = 2])
MCOneSwitch == AtMost([Never EXCEPT !.saves = 1, !.switches = 1])

===============================================================================
