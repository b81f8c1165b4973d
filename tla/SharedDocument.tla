---------------------------- MODULE SharedDocument ----------------------------
(***************************************************************************)
(* What settings sync promises, with no mailbox, no rounds and no kills:   *)
(* each device has a view of its account's document, a view only gains     *)
(* entries, an entry comes into being only when some device records it,    *)
(* and an entry that was recorded is gone only where a larger one of the   *)
(* same key was recorded.                                                  *)
(***************************************************************************)
EXTENDS SettingsDocument

CONSTANTS Device, Account, Home

VARIABLES
    view,     \* per device, the entries it holds
    saved     \* per account, all that was recorded in it

Init ==
    /\ view = [d \in Device |-> EmptyDocument]
    /\ saved = [a \in Account |-> EmptyDocument]

(* A device records entries, or learns some that others recorded, or both. *)
(* What it holds afterwards is all part of what was recorded.              *)
Advance(d) ==
    /\ Covers(view'[d], view[d])
    /\ view' = [view EXCEPT ![d] = view'[d]]
    /\ saved' = [saved EXCEPT ![Home[d]] = Join(@, view'[d])]

Next == \E d \in Device : Advance(d)

Spec == Init /\ [][Next]_<<view, saved>>

===============================================================================
