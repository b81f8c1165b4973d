--------------------------- MODULE SettingsDecisions --------------------------
(***************************************************************************)
(* What core decides: the document a device starts from (bootstrap), what  *)
(* a Save records (record_edits), what one sync round persists, applies    *)
(* and publishes (step), and which values the app may apply (project).     *)
(*                                                                         *)
(* Stored settings, a screen's baseline and an edited config are one kind  *)
(* of record: a text or None per key, and whether the stored rules are     *)
(* unset, a readable list, or a text core cannot decode.                   *)
(***************************************************************************)
EXTENDS SettingsDocument

CONSTANTS
    Default,     \* a setting's default, shown when nothing is stored
    Budget,      \* the number of entries above which nothing is published
    NoReplica    \* no document is persisted on the device yet

ASSUME DecisionsAssumption ==
    /\ Default \in [Setting -> Payload]
    /\ Budget \in Nat
    /\ NoReplica \notin Document

Settings == [value : [Key -> Payload], rules : {"unset", "set", "unreadable"}]

(* The text read from the mailbox, as classify sorts it.  "junk" is both   *)
(* Foreign and Invalid: step treats them alike, and tells two such texts   *)
(* apart by digest only.                                                   *)
NoDigest == 0
Digest == Nat
MailboxText ==
    [kind : {"absent", "newer", "junk", "doc"}, digest : Digest, doc : Document]

Absent == [kind |-> "absent", digest |-> NoDigest, doc |-> EmptyDocument]
Newer == [kind |-> "newer", digest |-> NoDigest, doc |-> EmptyDocument]
Junk(n) == [kind |-> "junk", digest |-> n, doc |-> EmptyDocument]
Encoded(document) == [kind |-> "doc", digest |-> NoDigest, doc |-> document]

-------------------------------------------------------------------------------
(* Every stored value becomes an entry at the bootstrap stamp.  Rules that *)
(* do not decode give no entry (bootstrap_with with the readable rules).   *)
Bootstrap(applied) ==
    [k \in Key |->
        IF applied.value[k] = None THEN Missing
        ELSE [at |-> Zero, body |-> applied.value[k]]]

(* bootstrap fails, and sync is off, until a Save replaces the rules. *)
BootstrapDeferred(local, applied) ==
    local = NoReplica /\ applied.rules = "unreadable"

(* The document that step and record_edits start from. *)
Start(local, applied) == IF local = NoReplica THEN Bootstrap(applied) ELSE local

-------------------------------------------------------------------------------
(* The values the app may apply.  usable is the set of texts this build    *)
(* decodes and accepts; a text outside it is carried, never applied.       *)

(* Mutant: the text is applied without being decoded. *)
ProjectRegisterUnread(entry, applied, usable) == entry.body

ProjectRegister(entry, applied, usable) ==
    IF entry.body = None \/ entry.body \in usable THEN entry.body ELSE applied

ProjectRule(entry, usable) == IF entry.body \in usable THEN entry.body ELSE None

HasRuleEntries(doc) == \E k \in Rule : doc[k] # Missing

Project(doc, applied, usable) ==
    [value |-> [k \in Key |->
        IF k \in Setting
        THEN ProjectRegister(doc[k], applied.value[k], usable)
        ELSE IF HasRuleEntries(doc) THEN ProjectRule(doc[k], usable)
        ELSE applied.value[k]],
     rules |-> IF HasRuleEntries(doc) THEN "set" ELSE applied.rules]

-------------------------------------------------------------------------------
(* One round. *)

Size(doc) == Cardinality({k \in Key : doc[k] # Missing})

(* Mutant: the mailbox wins over the device's copy. *)
MergedByReplacing(start, remote) ==
    IF remote.kind = "doc" THEN remote.doc ELSE start

Merged(start, remote) ==
    IF remote.kind = "doc" THEN Join(start, remote.doc) ELSE start

(* Mutant: a readable document in the mailbox is never written over. *)
DiffersUnlessReadable(merged, remote, lastReplaced) ==
    \/ remote.kind = "absent" /\ merged # EmptyDocument
    \/ remote.kind = "junk" /\ remote.digest # lastReplaced

(* Whether the mailbox should hold something else.  Text of a newer format *)
(* is left alone; unreadable text is replaced unless its digest is the one *)
(* this device replaced last.                                              *)
Differs(merged, remote, lastReplaced) ==
    \/ remote.kind = "absent" /\ merged # EmptyDocument
    \/ remote.kind = "junk" /\ remote.digest # lastReplaced
    \/ remote.kind = "doc" /\ merged # remote.doc

Step(local, remote, applied, lastReplaced, usable) ==
    IF BootstrapDeferred(local, applied)
    THEN [replica |-> NoReplica, publish |-> FALSE, settings |-> applied,
          replaced |-> NoDigest]
    ELSE LET merged == Merged(Start(local, applied), remote)
             publish == /\ Differs(merged, remote, lastReplaced)
                        /\ Size(merged) <= Budget
         IN  [replica |-> merged,
              publish |-> publish,
              settings |-> Project(merged, applied, usable),
              replaced |-> IF publish /\ remote.kind = "junk"
                           THEN remote.digest ELSE NoDigest]

-------------------------------------------------------------------------------
(* One Save. *)

BaseValue(base, k) ==
    IF k \in Setting /\ base.value[k] = None THEN Default[k] ELSE base.value[k]

(* Mutant: a Save stamps everything the screen shows. *)
EditsOfAll(doc, base, edited, at) ==
    [k \in Key |-> [at |-> at, body |-> edited.value[k]]]

(* Only what differs from the screen's baseline is stamped.  A rule the    *)
(* document already holds live with the same body is not stamped again; a  *)
(* rule of the baseline that the edit lacks becomes a tombstone.           *)
Edits(doc, base, edited, at) ==
    [k \in Key |->
        IF \/ edited.value[k] = BaseValue(base, k)
           \/ k \in Rule /\ edited.value[k] # None /\ doc[k].body = edited.value[k]
        THEN Missing
        ELSE [at |-> at, body |-> edited.value[k]]]

(* With no rule entry at all, the rules the user saved are kept. *)
Fallback(applied, edited) ==
    [value |-> [k \in Key |->
        IF k \in Setting THEN applied.value[k] ELSE edited.value[k]],
     rules |-> edited.rules]

(* The config a Save stores and applies: the projection, and the screen's  *)
(* own value for a setting that is still unset (SettingsSync.recordEdits). *)
SavedConfig(recorded, applied, edited, usable) ==
    LET projected == Project(recorded, Fallback(applied, edited), usable)
    IN  [projected EXCEPT !.value = [k \in Key |->
            IF k \in Setting /\ projected.value[k] = None
            THEN edited.value[k] ELSE projected.value[k]]]

===============================================================================
