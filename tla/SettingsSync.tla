------------------------------ MODULE SettingsSync -----------------------------
(***************************************************************************)
(* Settings sync across a user's devices: every device keeps a replica of  *)
(* the document, merges it with the account's mailbox in rounds, and       *)
(* records Saves of its settings screen.                                   *)
(*                                                                         *)
(* A round is synchronous on the main actor.  A Save is not: it awaits     *)
(* core's judgement of the config between recordEdits and persist, and     *)
(* rounds, an account change or a kill can come in between.  A kill can    *)
(* also cut a round or the end of a Save short after any of its writes.    *)
(*                                                                         *)
(* The mailbox is iCloud's key-value store.  As SettingsMailbox says, a    *)
(* read may return an old value and a write may be lost; writes in flight  *)
(* land in any order.                                                      *)
(***************************************************************************)
EXTENDS SettingsDecisions

CONSTANTS
    Device,
    Account,
    Usable,          \* per device, the texts its build decodes and accepts
    InitialStored,   \* the settings the devices may have had before sync
    FirstAccount,    \* per device, the account it is signed in to at first
    NoSave,          \* no Save is waiting for core
    ForeignTexts,    \* what other software may put in the mailbox
    Orderly,         \* an account change never comes while a Save awaits core,
                     \* and is handled before anything else runs
    Allowed          \* bound: how often the counted actions may be taken

(* SettingsSync.Edit plus what the screen keeps across the await.  added   *)
(* is the part of edit that this Save created.                             *)
Edit == [edit : Document, added : Document, typed : Settings,
         config : Settings, persisted : BOOLEAN]

Counter == {"saves", "kills", "foreign", "switches", "initialSyncs"}

ASSUME SyncAssumption ==
    /\ Usable \in [Device -> SUBSET Text]
    /\ InitialStored \subseteq [Device -> Settings]
    /\ FirstAccount \in [Device -> Account]
    /\ \A text \in ForeignTexts :
          text = Newer \/ (text.digest \in Nat \ {0} /\ text = Junk(text.digest))
    /\ Orderly \in BOOLEAN
    /\ NoSave \notin Edit
    /\ Allowed \subseteq [Counter -> Nat]

(* Before sync, a device's settings were stored by its own build, after    *)
(* core had accepted them.                                                 *)
ASSUME InitialAssumption ==
    \A settings \in InitialStored : \A d \in Device : \A k \in Key :
        settings[d].value[k] \in Usable[d] \cup {None}

VARIABLES
    running,     \* the app is running on the device
    replica,     \* SettingsReplicaStore.document
    digest,      \* SettingsReplicaStore.replacedRemoteDigest
    stored,      \* the three settings in SettingsStore
    committed,   \* the baseline of the settings screen
    save,        \* the Save that awaits core, or NoSave
    settling,    \* the delayed round after an initial sync is scheduled
    account,     \* the account the device's mailbox belongs to
    notice,      \* an account change is not handled yet
    seen,        \* what mailbox.read() returns on the device
    cell,        \* per account, the text iCloud holds
    inFlight,    \* texts written to the mailbox that iCloud has not taken
    saved,       \* history: per account, the join of all that was recorded
    used         \* how often each bounded action was taken

device == <<running, replica, digest, stored, committed, save, settling>>
mailbox == <<account, notice, seen, cell, inFlight>>
vars == <<device, mailbox, saved, used>>

Write == [dev : Device, acc : Account, text : Document]

TypeOK ==
    /\ running \in [Device -> BOOLEAN]
    /\ replica \in [Device -> Document \cup {NoReplica}]
    /\ digest \in [Device -> Digest]
    /\ stored \in [Device -> Settings]
    /\ committed \in [Device -> Settings]
    /\ save \in [Device -> Edit \cup {NoSave}]
    /\ settling \in [Device -> BOOLEAN]
    /\ account \in [Device -> Account]
    /\ notice \in [Device -> BOOLEAN]
    /\ seen \in [Device -> MailboxText]
    /\ cell \in [Account -> MailboxText]
    /\ inFlight \subseteq Write
    /\ saved \in [Account -> Document]
    /\ used \in [Counter -> Nat]

-------------------------------------------------------------------------------

(* How a settings screen is seeded: a setting with nothing stored shows    *)
(* its default, and unset rules show as none.                              *)
Seed(settings) ==
    [value |-> [k \in Key |-> BaseValue(settings, k)],
     rules |-> IF settings.rules = "unreadable" THEN "unreadable" ELSE "set"]

(* persist: the edit is joined with the current replica, not written over  *)
(* it.                                                                     *)
Persisted(edit, current) ==
    IF current = NoReplica THEN edit ELSE Join(edit, current)

Count(c) ==
    /\ used' = [used EXCEPT ![c] = @ + 1]
    /\ used' \in Allowed

Init ==
    /\ running = [d \in Device |-> FALSE]
    /\ replica = [d \in Device |-> NoReplica]
    /\ digest = [d \in Device |-> NoDigest]
    /\ stored \in InitialStored
    /\ committed = [d \in Device |-> Seed(stored[d])]
    /\ save = [d \in Device |-> NoSave]
    /\ settling = [d \in Device |-> FALSE]
    /\ account = FirstAccount
    /\ notice = [d \in Device |-> FALSE]
    /\ seen = [d \in Device |-> Absent]
    /\ cell = [a \in Account |-> Absent]
    /\ inFlight = {}
    /\ saved = [a \in Account |-> EmptyDocument]
    /\ used = [c \in Counter |-> 0]

-------------------------------------------------------------------------------
(* The writes a device makes, in the order it makes them.  A kill keeps a  *)
(* prefix: cut is the number of the last write that was made.              *)

StoreConfig == 1      \* FleetModel.applyConfig: settings.saveConfig
PersistEdit == 2      \* SettingsSync.persist
RoundReplicaLast == 6 \* Mutant: the round persists the replica last
RoundReplica == 3     \* SettingsSync.run: replica.document
RoundSettings == 4    \* SettingsSync.run: write(_:over:)
RoundPublish == 5     \* SettingsSync.run: mailbox.write
RoundDigest == 6      \* SettingsSync.run: replica.replacedRemoteDigest

KillPoint == 1 .. 5

(* SettingsSync.run, started from the device's copies rep, set and dig.    *)
(* created is what the device recorded on its own since the last step.     *)
RunRound(d, rep, set, dig, publishes, created, cut) ==
    LET round == Step(rep, seen[d], set, dig, Usable[d])
        writes == publishes /\ round.publish
        fresh == IF rep = NoReplica /\ round.replica # NoReplica
                 THEN Bootstrap(set) ELSE EmptyDocument
    IN  /\ replica' = [replica EXCEPT
              ![d] = IF cut >= RoundReplica THEN round.replica ELSE rep]
        /\ stored' = [stored EXCEPT
              ![d] = IF cut >= RoundSettings THEN round.settings ELSE set]
        /\ inFlight' = IF cut >= RoundPublish /\ writes
                       THEN inFlight \cup {[dev |-> d, acc |-> account[d],
                                            text |-> round.replica]}
                       ELSE inFlight
        /\ digest' = [digest EXCEPT
              ![d] = IF cut >= RoundDigest /\ writes /\ round.replaced # NoDigest
                     THEN round.replaced ELSE dig]
        /\ saved' = [saved EXCEPT ![account[d]] =
              Join(@, IF cut >= RoundReplica THEN Join(created, fresh)
                      ELSE created)]

(* The main actor is free to start something on the device. *)
Ready(d) == running[d] /\ ~(Orderly /\ notice[d])

-------------------------------------------------------------------------------
(* Rounds. *)

(* start(): the launch round comes before any notification is handled. *)
Launch(d) ==
    /\ ~running[d]
    /\ running' = [running EXCEPT ![d] = TRUE]
    /\ RunRound(d, replica[d], stored[d], digest[d], TRUE, EmptyDocument,
                RoundDigest)
    /\ committed' = [committed EXCEPT ![d] = Seed(stored'[d])]
    /\ UNCHANGED <<save, settling, account, notice, seen, cell, used>>

(* A round for a server change, the foreground or a refresh. *)
Round(d) ==
    /\ Ready(d)
    /\ RunRound(d, replica[d], stored[d], digest[d], TRUE, EmptyDocument,
                RoundDigest)
    /\ UNCHANGED <<running, committed, save, settling, account, notice, seen,
                   cell, used>>

(* The first download finished: a round that does not publish, and one     *)
(* that does after a delay.                                                *)
InitialSync(d) ==
    /\ Ready(d)
    /\ Count("initialSyncs")
    /\ RunRound(d, replica[d], stored[d], digest[d], FALSE, EmptyDocument,
                RoundDigest)
    /\ settling' = [settling EXCEPT ![d] = TRUE]
    /\ UNCHANGED <<running, committed, save, account, notice, seen, cell>>

InitialSyncSettled(d) ==
    /\ Ready(d)
    /\ settling[d]
    /\ RunRound(d, replica[d], stored[d], digest[d], TRUE, EmptyDocument,
                RoundDigest)
    /\ settling' = [settling EXCEPT ![d] = FALSE]
    /\ UNCHANGED <<running, committed, save, account, notice, seen, cell, used>>

(* Mutant: the replica of the old account is kept. *)
HandleAccountChangeKeeping(d) ==
    /\ running[d]
    /\ notice[d]
    /\ notice' = [notice EXCEPT ![d] = FALSE]
    /\ RunRound(d, replica[d], stored[d], NoDigest, TRUE, EmptyDocument,
                RoundDigest)
    /\ UNCHANGED <<running, committed, save, settling, account, seen, cell, used>>

(* The replica is rebuilt from the stored settings at the bootstrap stamp. *)
HandleAccountChange(d) ==
    /\ running[d]
    /\ notice[d]
    /\ notice' = [notice EXCEPT ![d] = FALSE]
    /\ RunRound(d, NoReplica, stored[d], NoDigest, TRUE, EmptyDocument,
                RoundDigest)
    /\ UNCHANGED <<running, committed, save, settling, account, seen, cell, used>>

-------------------------------------------------------------------------------
(* The settings screen. *)

(* The screen is opened, reverted, or reseeded because the config changed  *)
(* and nothing was unsaved.                                                *)
Reseed(d) ==
    /\ running[d]
    /\ save[d] = NoSave
    /\ committed' = [committed EXCEPT ![d] = Seed(stored[d])]
    /\ UNCHANGED <<running, replica, digest, stored, save, settling, mailbox,
                   saved, used>>

(* What a user can have typed: values core accepts, and a rule either kept *)
(* as it was shown, changed, deleted, or new under a URN no one used.      *)
Typed(d, base) ==
    {s \in [value : [Key -> Usable[d] \cup {None}], rules : {"set"}] :
        /\ s # base
        /\ \A k \in Setting : s.value[k] # None
        /\ \A r \in Rule : s.value[r] # None /\ base.value[r] = None =>
              \A a \in Account : saved[a][r] = Missing}

(* save(), up to the await: the Save is recorded, and nothing is persisted. *)
Recorded(d, typed, now) ==
    LET start == Start(replica[d], stored[d])
        edits == Edits(start, committed[d], typed, Tick(start, now))
        edit == Join(start, edits)
    IN  [edit |-> edit,
         added |-> IF replica[d] = NoReplica THEN edit ELSE edits,
         typed |-> typed,
         config |-> SavedConfig(edit, stored[d], typed, Usable[d]),
         persisted |-> FALSE]

CanSave(d, typed, now) ==
    /\ Ready(d)
    /\ save[d] = NoSave
    /\ CanTick(Start(replica[d], stored[d]), now)

(* What a session needs: a value for every setting without a default, and  *)
(* rules that decode.                                                      *)
HasConfig(settings) ==
    /\ settings.rules # "unreadable"
    /\ \A k \in Setting : Default[k] = None => settings.value[k] # None

BeginSave(d, typed, now) ==
    /\ CanSave(d, typed, now)
    /\ HasConfig(stored[d])
    /\ save' = [save EXCEPT ![d] = Recorded(d, typed, now)]
    /\ Count("saves")
    /\ UNCHANGED <<running, replica, digest, stored, committed, settling,
                   mailbox, saved>>

(* Without a session, the replica and then the store take the Save before  *)
(* core judges it.                                                         *)
TakeFirstSave(d, s) ==
    /\ replica' = [replica EXCEPT ![d] = Persisted(s.edit, @)]
    /\ saved' = [saved EXCEPT ![account[d]] = Join(@, s.added)]

BeginFirstSave(d, typed, now) ==
    /\ CanSave(d, typed, now)
    /\ LET s == Recorded(d, typed, now)
       IN  /\ TakeFirstSave(d, s)
           /\ stored' = [stored EXCEPT ![d] = s.config]
           /\ save' = [save EXCEPT ![d] = [s EXCEPT !.persisted = TRUE]]
    /\ Count("saves")
    /\ UNCHANGED <<running, digest, committed, settling, mailbox>>

(* Core accepted the config: the store, then the replica take it, and a    *)
(* round publishes it.  cut < RoundDigest when a kill interrupts this.     *)
EndSave(d, cut) ==
    /\ save[d] # NoSave
    /\ LET s == save[d]
           persists == cut >= PersistEdit /\ ~s.persisted
       IN  /\ RunRound(d,
                       IF persists THEN Persisted(s.edit, replica[d]) ELSE replica[d],
                       s.config, digest[d], TRUE,
                       IF persists THEN s.added ELSE EmptyDocument, cut)
           /\ committed' = [committed EXCEPT
                 ![d] = IF s.config = s.typed THEN s.typed ELSE Seed(stored'[d])]

(* Mutant: the round after the Save is left out. *)
FinishSaveAlone(d) ==
    /\ Ready(d)
    /\ EndSave(d, PersistEdit)
    /\ save' = [save EXCEPT ![d] = NoSave]
    /\ UNCHANGED <<running, settling, account, notice, seen, cell, used>>

FinishSave(d) ==
    /\ Ready(d)
    /\ EndSave(d, RoundDigest)
    /\ save' = [save EXCEPT ![d] = NoSave]
    /\ UNCHANGED <<running, settling, account, notice, seen, cell, used>>

(* Core refused the config.  A Save that was not persisted leaves nothing. *)
RefuseSave(d) ==
    /\ Ready(d)
    /\ save[d] # NoSave
    /\ save' = [save EXCEPT ![d] = NoSave]
    /\ UNCHANGED <<running, replica, digest, stored, committed, settling,
                   mailbox, saved, used>>

-------------------------------------------------------------------------------
(* Kills.  What the device persisted survives. *)

Die(d, counters) ==
    /\ used' = [c \in Counter |-> IF c \in counters THEN used[c] + 1 ELSE used[c]]
    /\ used' \in Allowed
    /\ running' = [running EXCEPT ![d] = FALSE]
    /\ settling' = [settling EXCEPT ![d] = FALSE]
    /\ save' = [save EXCEPT ![d] = NoSave]

Kill(d) ==
    /\ Ready(d)
    /\ Die(d, {"kills"})
    /\ UNCHANGED <<replica, digest, stored, committed, mailbox, saved>>

(* Also in the launch round. *)
KillInRound(d, cut) ==
    /\ running[d] => Ready(d)
    /\ Die(d, {"kills"})
    /\ RunRound(d, replica[d], stored[d], digest[d], TRUE, EmptyDocument, cut)
    /\ UNCHANGED <<committed, account, notice, seen, cell>>

(* Between persist and saveConfig of a first Save. *)
KillInFirstSave(d, typed, now) ==
    /\ CanSave(d, typed, now)
    /\ Die(d, {"kills", "saves"})
    /\ TakeFirstSave(d, Recorded(d, typed, now))
    /\ UNCHANGED <<digest, stored, committed, mailbox>>

KillInSave(d, cut) ==
    /\ Ready(d)
    /\ Die(d, {"kills"})
    /\ EndSave(d, cut)
    /\ UNCHANGED <<account, notice, seen, cell>>

-------------------------------------------------------------------------------
(* The mailbox: external to the repository. *)

(* iCloud takes a write, or loses it. *)
Land(w) ==
    /\ w \in inFlight
    /\ inFlight' = inFlight \ {w}
    /\ cell' = [cell EXCEPT ![w.acc] = Encoded(w.text)]
    /\ UNCHANGED <<device, account, notice, seen, saved, used>>

Drop(w) ==
    /\ w \in inFlight
    /\ inFlight' = inFlight \ {w}
    /\ UNCHANGED <<device, account, notice, seen, cell, saved, used>>

(* The device's store downloads what iCloud holds. *)
Deliver(d) ==
    /\ seen' = [seen EXCEPT ![d] = cell[account[d]]]
    /\ UNCHANGED <<device, account, notice, cell, inFlight, saved, used>>

(* Something else writes the key: a newer Pessimal, or text that is no     *)
(* document.                                                               *)
WriteForeign(a, text) ==
    /\ Count("foreign")
    /\ cell' = [cell EXCEPT ![a] = text]
    /\ UNCHANGED <<device, account, notice, seen, inFlight, saved>>

(* The user signs in to another account; the store serves it at once, and  *)
(* the notification hops to the main actor.                                *)
SwitchAccount(d, a) ==
    /\ a # account[d]
    /\ Orderly => Ready(d) /\ save[d] = NoSave
    /\ Count("switches")
    /\ account' = [account EXCEPT ![d] = a]
    /\ notice' = [notice EXCEPT ![d] = TRUE]
    /\ seen' = [seen EXCEPT ![d] = cell[a]]
    /\ UNCHANGED <<device, cell, inFlight, saved>>

-------------------------------------------------------------------------------

DeviceStep(d) ==
    \/ Launch(d)
    \/ Round(d)
    \/ InitialSync(d)
    \/ InitialSyncSettled(d)
    \/ HandleAccountChange(d)
    \/ Reseed(d)
    \/ \E typed \in Typed(d, committed[d]), now \in 0 .. MaxMs :
          \/ BeginSave(d, typed, now)
          \/ BeginFirstSave(d, typed, now)
          \/ KillInFirstSave(d, typed, now)
    \/ FinishSave(d)
    \/ RefuseSave(d)
    \/ Kill(d)
    \/ \E cut \in KillPoint : KillInRound(d, cut) \/ KillInSave(d, cut)

MailboxStep ==
    \/ \E w \in inFlight : Land(w) \/ Drop(w)
    \/ \E d \in Device : Deliver(d)
    \/ \E a \in Account, text \in ForeignTexts : WriteForeign(a, text)
    \/ \E d \in Device, a \in Account : SwitchAccount(d, a)

Next == (\E d \in Device : DeviceStep(d)) \/ MailboxStep

Spec == Init /\ [][Next]_vars

(* The app is started, and runs rounds: at launch, in the foreground, on   *)
(* refresh and on notifications.  Core answers a Save.  iCloud may lose    *)
(* writes, but not all of a device's, and downloads to every device.       *)
Fairness ==
    /\ \A d \in Device :
          /\ WF_vars(Launch(d))
          /\ WF_vars(Round(d))
          /\ WF_vars(FinishSave(d) \/ RefuseSave(d))
          /\ WF_vars(Deliver(d))
          /\ SF_vars(\E w \in inFlight : w.dev = d /\ Land(w))

FairSpec == Spec /\ Fairness

-------------------------------------------------------------------------------
(* Properties. *)

HasReplica(d) == replica[d] # NoReplica

(* The mailbox of an account, and the replica of a device signed in to it, *)
(* hold nothing that was not recorded for that account: an account change  *)
(* carries over the stored settings at the bootstrap stamp, and no stamped *)
(* entry of the old account.                                               *)
AccountsSeparate ==
    /\ \A a \in Account : Covers(saved[a], cell[a].doc)
    /\ \A w \in inFlight : Covers(saved[w.acc], w.text)
    /\ \A d \in Device :
          HasReplica(d) /\ ~notice[d] => Covers(saved[account[d]], replica[d])

(* Every entry that a Save persisted is still held by some device, or was  *)
(* replaced there by a larger one: persist joins with what rounds merged   *)
(* during the await, and kills lose nothing.                               *)
NoLostSave ==
    used.switches = 0 =>
        \A a \in Account : \A k \in Key :
            saved[a][k] # Missing =>
                \E d \in Device : /\ account[d] = a
                                 /\ HasReplica(d)
                                 /\ replica[d][k] = saved[a][k]

(* What a device has handed to its account's mailbox is in its replica,    *)
(* even after a kill: the replica is the device's stamp clock, so a text   *)
(* published before it is persisted could lead to one stamp minted twice.  *)
PublishedIsPersisted ==
    used.switches = 0 =>
        \A w \in inFlight : HasReplica(w.dev) /\ Covers(replica[w.dev], w.text)

(* Whenever the main actor is free, the stored settings are the projection *)
(* of the replica, whatever rounds ran while a Save awaited core with an   *)
(* older config in hand.                                                   *)
StoredMatchesReplica ==
    \A d \in Device :
        running[d] /\ HasReplica(d) =>
            Project(replica[d], stored[d], Usable[d]) = stored[d]

(* A device never applies a text its build does not decode and accept, not *)
(* even when a Save on top of such a text is stored: the text is carried   *)
(* in the replica (SharedSpec), and the setting keeps its own value.       *)
StoredIsUsable ==
    \A d \in Device : \A k \in Key :
        stored[d].value[k] \in Usable[d] \cup {None}

(* A Save beats every value it was made on top of, whatever the clock      *)
(* says: in the document it recorded, a changed setting has the user's     *)
(* value and a deleted rule is a tombstone.                                *)
SaveBeatsItsBase ==
    \A d \in Device : save[d] # NoSave =>
        \A k \in Key :
            /\ save[d].typed.value[k] # BaseValue(committed[d], k)
            /\ k \in Setting \/ save[d].typed.value[k] = None
            => save[d].edit[k].body = save[d].typed.value[k]

(* A replica only grows, except when an account change rebuilds it.        *)
ReplicaGrows ==
    [][\A d \in Device :
          HasReplica(d) /\ notice'[d] = notice[d] =>
              replica'[d] # NoReplica /\ Covers(replica'[d], replica[d])]_vars

(* A value the user did not change takes no stamp: when the Save ends, the *)
(* device holds for it the larger of its own entry and the mailbox's, also *)
(* when that is a remote change that arrived while the screen was open, or *)
(* content this build cannot show.                                         *)
UntouchedSurvives ==
    [][\A d \in Device :
          save[d] # NoSave /\ save'[d] = NoSave /\ HasReplica(d) =>
              \A k \in Key :
                  save[d].typed.value[k] = BaseValue(committed[d], k) =>
                      replica'[d][k] \in
                          {replica[d][k],
                           Larger(k, replica[d][k], seen[d].doc[k])}]_vars

(* A rule that a device knows to be deleted is never stored there again.   *)
DeletedStaysDeleted ==
    [][\A d \in Device : \A r \in Rule :
          /\ HasReplica(d)
          /\ IsTombstone(r, replica[d][r])
          /\ stored[d].value[r] = None
          /\ running'[d]
          /\ notice'[d] = notice[d]
          => stored'[d].value[r] = None]_vars

(* A Save changes what the user changed and nothing else, and what a Save  *)
(* took away no later step brings back (record_edits, step, project).      *)
SavesMeanWhatTheySay == UntouchedSurvives /\ DeletedStaysDeleted

(* Once the Saves stop, every device and the mailbox come to hold the same *)
(* document, which is the join of all that was saved.                      *)
Converged ==
    \A d \in Device :
        /\ replica[d] = saved[account[d]]
        /\ cell[account[d]].doc = saved[account[d]]

Converges == <>[]Converged

-------------------------------------------------------------------------------
(* Without account changes, the devices implement the shared document: a   *)
(* device that has no replica yet holds nothing.                           *)
View(d) == IF HasReplica(d) THEN replica[d] ELSE EmptyDocument

Shared == INSTANCE SharedDocument WITH
              Home <- FirstAccount,
              view <- [d \in Device |-> View(d)]

(* Lost, stale and reordered texts, Saves that await core, and kills are   *)
(* all invisible: whatever they do, a device only gains entries, and what  *)
(* was recorded is never lost nor invented.                                *)
SharedSpec == Shared!Spec

===============================================================================
