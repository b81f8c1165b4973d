--------------------------- MODULE SettingsSyncProofs ---------------------------
(***************************************************************************)
(* Theorems about the settings: of documents and their merge, for every    *)
(* document; of SettingsSync, for any number of devices, accounts, keys    *)
(* and texts, and any bounds; and of what the devices share: nothing       *)
(* unknown reaches an account, nothing that was saved is lost, and so the  *)
(* devices implement SharedDocument.                                       *)
(***************************************************************************)
EXTENDS SettingsSync, WellFoundedInduction, TLAPS

(* What a document holds for a key.                                        *)
Slot == Entry \cup {Missing}

(* The parts of a slot, for the leaves that compare them: a body is a      *)
(* text, None, or -1 where the key is missing.                             *)
LEMMA SlotParts ==
    ASSUME NEW e \in Slot
    PROVE  /\ e = [at |-> e.at, body |-> e.body]
           /\ e.at \in Stamp
           /\ e.at = [ms |-> e.at.ms, seq |-> e.at.seq]
           /\ e.at.ms \in Nat /\ e.at.seq \in Nat
           /\ e.body \in Int /\ e.body >= -1
           /\ e \in Entry <=> e.body # -1
<1>1. Zero \in Stamp
    BY DocumentAssumption DEF Zero, Stamp
<1>2. CASE e \in Entry
    <2>1. e = [at |-> e.at, body |-> e.body] /\ e.at \in Stamp /\ e.body \in Payload
        BY <1>2 DEF Entry
    <2>2. /\ e.at = [ms |-> e.at.ms, seq |-> e.at.seq]
          /\ e.at.ms \in 0 .. MaxMs /\ e.at.seq \in 0 .. MaxSeq
        BY <2>1 DEF Stamp
    <2>3. e.body \in Nat
        BY <2>1, DocumentAssumption DEF Payload, None
    <2>4. QED
        BY <1>2, <2>1, <2>2, <2>3, DocumentAssumption
<1>3. CASE e = Missing
    <2>1. /\ e.at \in Stamp /\ e.at.ms = 0 /\ e.at.seq = 0 /\ e.body = -1
          /\ e = [at |-> e.at, body |-> e.body]
          /\ e.at = [ms |-> e.at.ms, seq |-> e.at.seq]
        BY <1>1, <1>3 DEF Missing, Zero
    <2>2. ASSUME e \in Entry PROVE FALSE
        <3>1. e.body \in Text \cup {0}
            BY <2>2 DEF Entry, Payload, None
        <3>2. QED
            BY <3>1, <2>1, DocumentAssumption
    <2>3. QED
        BY <2>1, <2>2
<1>4. QED
    BY <1>2, <1>3 DEF Slot

LEMMA SlotNumbers ==
    ASSUME NEW e \in Slot
    PROVE  e.at.ms \in Nat /\ e.at.seq \in Nat /\ e.body \in Int
BY SlotParts

LEMMA SlotEqual ==
    ASSUME NEW e \in Slot, NEW f \in Slot,
           e.at.ms = f.at.ms, e.at.seq = f.at.seq, e.body = f.body
    PROVE  e = f
<1>1. /\ e.at = [ms |-> e.at.ms, seq |-> e.at.seq]
      /\ f.at = [ms |-> f.at.ms, seq |-> f.at.seq]
    BY SlotParts
<1>2. /\ e = [at |-> e.at, body |-> e.body]
      /\ f = [at |-> f.at, body |-> f.body]
    BY SlotParts
<1>3. e.at = f.at
    BY <1>1
<1>4. QED
    BY <1>2, <1>3

(* Below is a strict total order on what two documents hold for one key.   *)
LEMMA BelowIrreflexive ==
    ASSUME NEW k \in Key, NEW e \in Slot
    PROVE  ~Below(k, e, e)
<1>1. e.at.ms \in Nat /\ e.at.seq \in Nat /\ e.body \in Int
    BY SlotNumbers
<1>2. ~Earlier(e.at, e.at)
    BY <1>1 DEF Earlier
<1>3. QED
    BY <1>1, <1>2 DEF Below

LEMMA BelowTransitive ==
    ASSUME NEW k \in Key, NEW e \in Slot, NEW f \in Slot, NEW g \in Slot,
           Below(k, e, f), Below(k, f, g)
    PROVE  Below(k, e, g)
<1>1. /\ e.at.ms \in Nat /\ e.at.seq \in Nat /\ e.body \in Int
      /\ f.at.ms \in Nat /\ f.at.seq \in Nat /\ f.body \in Int
      /\ g.at.ms \in Nat /\ g.at.seq \in Nat /\ g.body \in Int
    BY SlotNumbers
<1>2. Earlier(e.at, f.at) /\ Earlier(f.at, g.at) => Earlier(e.at, g.at)
    BY <1>1 DEF Earlier
<1>3. e.body < f.body /\ f.body < g.body => e.body < g.body
    BY <1>1
<1>4. QED
    BY <1>2, <1>3 DEF Below

LEMMA BelowTotal ==
    ASSUME NEW k \in Key, NEW e \in Slot, NEW f \in Slot
    PROVE  e = f \/ Below(k, e, f) \/ Below(k, f, e)
<1>1. /\ e.at.ms \in Nat /\ e.at.seq \in Nat /\ e.body \in Int
      /\ f.at.ms \in Nat /\ f.at.seq \in Nat /\ f.body \in Int
    BY SlotNumbers
<1>2. /\ e.at = [ms |-> e.at.ms, seq |-> e.at.seq]
      /\ f.at = [ms |-> f.at.ms, seq |-> f.at.seq]
    BY SlotParts
<1>3. e.at = f.at \/ Earlier(e.at, f.at) \/ Earlier(f.at, e.at)
    <2>1. \/ e.at.ms = f.at.ms /\ e.at.seq = f.at.seq
          \/ Earlier(e.at, f.at) \/ Earlier(f.at, e.at)
        BY <1>1 DEF Earlier
    <2>2. e.at.ms = f.at.ms /\ e.at.seq = f.at.seq => e.at = f.at
        BY <1>2
    <2>3. QED
        BY <2>1, <2>2
<1>4. e.at = f.at /\ e.body = f.body => e = f
    BY SlotEqual
<1>5. e.body = f.body \/ e.body < f.body \/ f.body < e.body
    BY <1>1
<1>6. QED
    BY <1>3, <1>4, <1>5 DEF Below

LEMMA BelowAsymmetric ==
    ASSUME NEW k \in Key, NEW e \in Slot, NEW f \in Slot, Below(k, e, f)
    PROVE  ~Below(k, f, e)
BY BelowIrreflexive, BelowTransitive

-------------------------------------------------------------------------------
(* Documents. *)

LEMMA SlotOf ==
    ASSUME NEW doc \in Document, NEW k \in Key
    PROVE  doc[k] \in Slot
BY DEF Document, Slot

LEMMA EmptyDocumentType == EmptyDocument \in Document
BY DEF EmptyDocument, Document

LEMMA JoinType ==
    ASSUME NEW left \in Document, NEW right \in Document
    PROVE  Join(left, right) \in Document
BY DEF Join, Larger, Document

LEMMA CoversReflexive ==
    ASSUME NEW doc \in Document
    PROVE  Covers(doc, doc)
BY SlotOf, BelowIrreflexive DEF Covers

LEMMA CoversTransitive ==
    ASSUME NEW a \in Document, NEW b \in Document, NEW c \in Document,
           Covers(a, b), Covers(b, c)
    PROVE  Covers(a, c)
<1> SUFFICES ASSUME NEW k \in Key
             PROVE  ~Below(k, a[k], c[k])
    BY DEF Covers
<1>1. ~Below(k, a[k], b[k]) /\ ~Below(k, b[k], c[k])
    BY DEF Covers
<1>2. a[k] \in Slot /\ b[k] \in Slot /\ c[k] \in Slot
    BY SlotOf
<1>3. b[k] = c[k] \/ Below(k, c[k], b[k])
    BY <1>1, <1>2, BelowTotal
<1>4. QED
    BY <1>1, <1>2, <1>3, BelowTransitive

LEMMA CoversAntisymmetric ==
    ASSUME NEW a \in Document, NEW b \in Document, Covers(a, b), Covers(b, a)
    PROVE  a = b
<1>1. ASSUME NEW k \in Key PROVE a[k] = b[k]
    BY SlotOf, BelowTotal DEF Covers
<1>2. QED
    BY <1>1 DEF Document

LEMMA CoversEmpty ==
    ASSUME NEW doc \in Document
    PROVE  Covers(doc, EmptyDocument)
<1> SUFFICES ASSUME NEW k \in Key
             PROVE  ~Below(k, doc[k], Missing)
    BY DEF Covers, EmptyDocument
<1>1. doc[k] \in Slot
    BY SlotOf
<1>2. doc[k].at.ms \in Nat /\ doc[k].at.seq \in Nat
    BY <1>1, SlotParts
<1>3. doc[k].body >= -1
    BY <1>1, SlotParts
<1>4. QED
    BY <1>2, <1>3, <1>1, SlotParts
       DEF Below, Earlier, IsTombstone, Missing, Zero, None

(* Join holds everything both sides hold, and nothing that was in neither. *)
LEMMA JoinCovers ==
    ASSUME NEW left \in Document, NEW right \in Document
    PROVE  Covers(Join(left, right), left) /\ Covers(Join(left, right), right)
<1> SUFFICES ASSUME NEW k \in Key
             PROVE  /\ ~Below(k, Larger(k, left[k], right[k]), left[k])
                    /\ ~Below(k, Larger(k, left[k], right[k]), right[k])
    BY DEF Covers, Join
<1>1. left[k] \in Slot /\ right[k] \in Slot
    BY SlotOf
<1>2. QED
    BY <1>1, BelowIrreflexive, BelowAsymmetric DEF Larger

THEOREM JoinLeast ==
    ASSUME NEW left \in Document, NEW right \in Document, NEW doc \in Document,
           Covers(doc, left), Covers(doc, right)
    PROVE  Covers(doc, Join(left, right))
BY DEF Covers, Join, Larger

LEMMA JoinCovered ==
    ASSUME NEW left \in Document, NEW right \in Document, Covers(left, right)
    PROVE  Join(left, right) = left
<1>1. \A k \in Key : Larger(k, left[k], right[k]) = left[k]
    BY DEF Covers, Larger
<1>2. QED
    BY <1>1 DEF Join, Document

LEMMA JoinMonotone ==
    ASSUME NEW left \in Document, NEW right \in Document, NEW more \in Document,
           Covers(more, right)
    PROVE  Covers(Join(left, more), Join(left, right))
<1>1. Join(left, more) \in Document
    BY JoinType
<1>2. Covers(Join(left, more), left) /\ Covers(Join(left, more), right)
    BY <1>1, JoinCovers, CoversTransitive
<1>3. QED
    BY <1>1, <1>2, JoinLeast

-------------------------------------------------------------------------------
(* Stamps. *)

(* A non-empty set of naturals that are at most bound has a largest one.   *)
LEMMA LargestExists ==
    ASSUME NEW bound \in Nat, NEW S \in SUBSET (0 .. bound), S # {}
    PROVE  \E m \in S : \A n \in S : n <= m
<1> DEFINE Gaps == {bound - n : n \in S}
<1>1. Gaps \subseteq Nat /\ Gaps # {}
    <2>1. \A n \in S : bound - n \in Nat
        OBVIOUS
    <2>2. PICK n \in S : TRUE
        OBVIOUS
    <2>3. bound - n \in Gaps
        OBVIOUS
    <2>4. QED
        BY <2>1, <2>3
<1>2. PICK g \in Gaps : \A h \in Gaps : ~(<<h, g>> \in OpToRel(<, Nat))
    BY <1>1, NatLessThanWellFounded, WFMin
<1>3. \A h \in Gaps : ~(h < g)
    BY <1>1, <1>2 DEF OpToRel
<1>4. PICK m \in S : g = bound - m
    OBVIOUS
<1>5. ASSUME NEW n \in S PROVE n <= m
    <2>1. ~(bound - n < bound - m)
        BY <1>3, <1>4
    <2>2. n \in Nat /\ m \in Nat
        OBVIOUS
    <2>3. QED
        BY <2>1, <2>2
<1>6. QED
    BY <1>5

(* top_stamp is the stamp of some entry, and no entry has a later one.     *)
LEMMA TopStampIsLargest ==
    ASSUME NEW doc \in Document
    PROVE  /\ TopStamp(doc) \in Stamps(doc)
           /\ \A t \in Stamps(doc) : ~Earlier(TopStamp(doc), t)
<1> DEFINE Mss == {t.ms : t \in Stamps(doc)}
<1>1. Stamps(doc) \subseteq Stamp
    BY SlotOf, SlotParts DEF Stamps
<1>2. Stamps(doc) # {}
    BY DocumentAssumption DEF Stamps, Key
<1>3. PICK m \in Mss : \A n \in Mss : n <= m
    <2>1. Mss \in SUBSET (0 .. MaxMs) /\ Mss # {}
        BY <1>1, <1>2 DEF Stamp
    <2>2. QED
        BY <2>1, LargestExists, DocumentAssumption
<1> DEFINE Last == {t \in Stamps(doc) : t.ms = m}
           Seqs == {t.seq : t \in Last}
<1>4. PICK q \in Seqs : \A n \in Seqs : n <= q
    <2>1. Seqs \in SUBSET (0 .. MaxSeq) /\ Seqs # {}
        BY <1>1, <1>3 DEF Stamp
    <2>2. QED
        BY <2>1, LargestExists, DocumentAssumption
<1>5. PICK s \in Last : s.seq = q
    BY <1>4
<1>6. ASSUME NEW t \in Stamps(doc) PROVE ~Earlier(s, t)
    <2>1. /\ s.ms \in Nat /\ s.seq \in Nat /\ t.ms \in Nat /\ t.seq \in Nat
        BY <1>1 DEF Stamp
    <2>2. t.ms <= s.ms
        BY <1>3, <1>5
    <2>3. t.ms = s.ms => t.seq <= s.seq
        BY <1>4, <1>5
    <2>4. QED
        BY <2>1, <2>2, <2>3 DEF Earlier
<1>7. QED
    BY <1>5, <1>6 DEF TopStamp

(* The stamp of a Save fits in its type and is later than every stamp in   *)
(* the document, whatever the clock says.                                  *)
THEOREM TickIsLater ==
    ASSUME NEW doc \in Document, NEW now \in 0 .. MaxMs, CanTick(doc, now)
    PROVE  /\ Tick(doc, now) \in Stamp
           /\ \A k \in Key : Earlier(doc[k].at, Tick(doc, now))
<1> DEFINE top == TopStamp(doc)
<1>1. /\ top \in Stamp
      /\ top = [ms |-> top.ms, seq |-> top.seq]
      /\ top.ms \in 0 .. MaxMs /\ top.seq \in 0 .. MaxSeq
    <2>1. top \in Stamp
        BY TopStampIsLargest, SlotOf, SlotParts DEF Stamps
    <2>2. QED
        BY <2>1 DEF Stamp
<1>2. Tick(doc, now) \in Stamp /\ Earlier(top, Tick(doc, now))
    <2>1. CASE now > top.ms
        <3>1. Tick(doc, now) = [ms |-> now, seq |-> 0]
            BY <2>1 DEF Tick
        <3>2. QED
            BY <3>1, <2>1, <1>1, DocumentAssumption DEF Stamp, Earlier
    <2>2. CASE ~(now > top.ms) /\ top.seq < MaxSeq
        <3>1. Tick(doc, now) = [ms |-> top.ms, seq |-> top.seq + 1]
            BY <2>2, <1>1 DEF Tick
        <3>2. QED
            BY <3>1, <2>2, <1>1, DocumentAssumption DEF Stamp, Earlier
    <2>3. CASE ~(now > top.ms) /\ ~(top.seq < MaxSeq)
        <3>1. Tick(doc, now) = [ms |-> top.ms + 1, seq |-> 0]
            BY <2>3 DEF Tick
        <3>2. top.ms < MaxMs
            BY <2>3 DEF CanTick
        <3>3. QED
            BY <3>1, <3>2, <1>1, DocumentAssumption DEF Stamp, Earlier
    <2>4. QED
        BY <2>1, <2>2, <2>3
<1>3. ASSUME NEW k \in Key PROVE Earlier(doc[k].at, Tick(doc, now))
    <2>1. doc[k].at \in Stamps(doc) /\ ~Earlier(top, doc[k].at)
        BY TopStampIsLargest DEF Stamps
    <2>2. /\ doc[k].at.ms \in Nat /\ doc[k].at.seq \in Nat
          /\ top.ms \in Nat /\ top.seq \in Nat
          /\ Tick(doc, now).ms \in Nat /\ Tick(doc, now).seq \in Nat
        BY <1>1, <1>2, SlotOf, SlotNumbers, DocumentAssumption DEF Stamp
    <2>3. QED
        BY <1>2, <2>1, <2>2 DEF Earlier
<1>4. QED
    BY <1>2, <1>3

-------------------------------------------------------------------------------
(* Decisions. *)

(* A device's copy, which may be absent.                                   *)
LocalDocument == Document \cup {NoReplica}

LEMMA ZeroType == Zero \in Stamp
BY DocumentAssumption DEF Zero, Stamp

LEMMA BootstrapType ==
    ASSUME NEW applied \in Settings
    PROVE  Bootstrap(applied) \in Document
<1>1. applied.value \in [Key -> Payload]
    BY DEF Settings
<1>2. ASSUME NEW k \in Key, applied.value[k] # None
      PROVE  [at |-> Zero, body |-> applied.value[k]] \in Entry
    BY <1>1, ZeroType DEF Entry
<1>3. QED
    BY <1>2 DEF Bootstrap, Document

LEMMA StartType ==
    ASSUME NEW local \in LocalDocument, NEW applied \in Settings
    PROVE  Start(local, applied) \in Document
BY BootstrapType DEF Start, LocalDocument

LEMMA ProjectType ==
    ASSUME NEW doc \in Document, NEW applied \in Settings, NEW usable \in SUBSET Text
    PROVE  Project(doc, applied, usable) \in Settings
<1>1. applied.value \in [Key -> Payload] /\ applied.rules \in {"unset", "set", "unreadable"}
    BY DEF Settings
<1>2. ASSUME NEW k \in Key
      PROVE  /\ ProjectRegister(doc[k], applied.value[k], usable) \in Payload
             /\ ProjectRule(doc[k], usable) \in Payload
    BY <1>1 DEF ProjectRegister, ProjectRule, Payload
<1>3. QED
    BY <1>1, <1>2 DEF Project, Settings

LEMMA MergedType ==
    ASSUME NEW start \in Document, NEW remote \in MailboxText
    PROVE  Merged(start, remote) \in Document
BY JoinType DEF Merged, MailboxText

(* The document of a round holds all of the start and all that was read.   *)
LEMMA MergedCovers ==
    ASSUME NEW start \in Document, NEW remote \in MailboxText
    PROVE  Covers(Merged(start, remote), start)
BY JoinCovers, CoversReflexive DEF Merged, MailboxText

LEMMA MergedLeast ==
    ASSUME NEW start \in Document, NEW remote \in MailboxText, NEW doc \in Document,
           Covers(doc, start), Covers(doc, remote.doc)
    PROVE  Covers(doc, Merged(start, remote))
BY JoinLeast DEF Merged, MailboxText

LEMMA StepType ==
    ASSUME NEW local \in LocalDocument, NEW remote \in MailboxText,
           NEW applied \in Settings, NEW lastReplaced \in Digest,
           NEW usable \in SUBSET Text
    PROVE  LET round == Step(local, remote, applied, lastReplaced, usable)
           IN  /\ round.replica \in LocalDocument
               /\ round.publish => round.replica \in Document
               /\ round.settings \in Settings
               /\ round.replaced \in Digest
<1> DEFINE merged == Merged(Start(local, applied), remote)
<1>1. merged \in Document
    BY StartType, MergedType
<1>2. Project(merged, applied, usable) \in Settings
    BY <1>1, ProjectType
<1>3. remote.digest \in Digest /\ NoDigest \in Digest
    BY DEF MailboxText, Digest, NoDigest
<1>4. QED
    BY <1>1, <1>2, <1>3 DEF Step, LocalDocument

(* The replica of a round: none only when bootstrap is deferred.           *)
LEMMA StepReplica ==
    ASSUME NEW local \in LocalDocument, NEW remote \in MailboxText,
           NEW applied \in Settings, NEW lastReplaced \in Digest,
           NEW usable \in SUBSET Text
    PROVE  LET round == Step(local, remote, applied, lastReplaced, usable)
           IN  \/ local = NoReplica /\ round.replica = NoReplica /\ ~round.publish
               \/ round.replica = Merged(Start(local, applied), remote)
BY DEF Step, BootstrapDeferred

LEMMA BaseValueType ==
    ASSUME NEW base \in Settings, NEW k \in Key
    PROVE  BaseValue(base, k) \in Payload
BY DecisionsAssumption DEF BaseValue, Settings

LEMMA EditsType ==
    ASSUME NEW doc \in Document, NEW base \in Settings, NEW edited \in Settings,
           NEW at \in Stamp
    PROVE  Edits(doc, base, edited, at) \in Document
<1>1. edited.value \in [Key -> Payload]
    BY DEF Settings
<1>2. ASSUME NEW k \in Key
      PROVE  [at |-> at, body |-> edited.value[k]] \in Entry
    BY <1>1 DEF Entry
<1>3. QED
    BY <1>2 DEF Edits, Document

LEMMA SavedConfigType ==
    ASSUME NEW recorded \in Document, NEW applied \in Settings,
           NEW edited \in Settings, NEW usable \in SUBSET Text
    PROVE  SavedConfig(recorded, applied, edited, usable) \in Settings
<1> DEFINE projected == Project(recorded, Fallback(applied, edited), usable)
<1>1. Fallback(applied, edited) \in Settings
    BY DEF Fallback, Settings
<1>2. projected \in Settings
    BY <1>1, ProjectType
<1>3. /\ projected.value \in [Key -> Payload] /\ edited.value \in [Key -> Payload]
      /\ projected = [value |-> projected.value, rules |-> projected.rules]
      /\ projected.rules \in {"unset", "set", "unreadable"}
    BY <1>2 DEF Settings
<1>4. SavedConfig(recorded, applied, edited, usable) =
          [value |-> [k \in Key |->
               IF k \in Setting /\ projected.value[k] = None
               THEN edited.value[k] ELSE projected.value[k]],
           rules |-> projected.rules]
    BY <1>3 DEF SavedConfig
<1>5. QED
    BY <1>3, <1>4 DEF Settings

(* Applying a document a second time changes nothing.                      *)
LEMMA ProjectTwice ==
    ASSUME NEW doc \in Document, NEW applied \in Settings, NEW usable \in SUBSET Text
    PROVE  Project(doc, Project(doc, applied, usable), usable)
               = Project(doc, applied, usable)
<1> DEFINE once == Project(doc, applied, usable)
<1>1. ASSUME NEW k \in Key
      PROVE  /\ k \in Setting =>
                    once.value[k] = ProjectRegister(doc[k], applied.value[k], usable)
             /\ k \notin Setting /\ HasRuleEntries(doc) =>
                    once.value[k] = ProjectRule(doc[k], usable)
    BY DEF Project
<1>2. HasRuleEntries(doc) => once.rules = "set"
    BY DEF Project
<1>3. ASSUME NEW k \in Setting
      PROVE  ProjectRegister(doc[k], once.value[k], usable)
                 = ProjectRegister(doc[k], applied.value[k], usable)
    BY <1>1, <1>3 DEF ProjectRegister, Key
<1>4. once = [value |-> once.value, rules |-> once.rules]
      /\ once.value = [k \in Key |-> once.value[k]]
    BY DEF Project
<1>5. Project(doc, once, usable).value = once.value
    BY <1>1, <1>3, <1>4 DEF Project
<1>6. Project(doc, once, usable).rules = once.rules
    BY <1>2 DEF Project
<1>7. Project(doc, once, usable) =
          [value |-> Project(doc, once, usable).value,
           rules |-> Project(doc, once, usable).rules]
    BY DEF Project
<1>8. QED
    BY <1>4, <1>5, <1>6, <1>7

(* No synced setting is cleared in a document.                             *)
Uncleared(doc) == \A k \in Setting : doc[k].body # None

LEMMA UnclearedEmpty == Uncleared(EmptyDocument)
BY DEF Uncleared, EmptyDocument, Missing, None, Key

LEMMA JoinUncleared ==
    ASSUME NEW left \in Document, NEW right \in Document,
           Uncleared(left), Uncleared(right)
    PROVE  Uncleared(Join(left, right))
BY DEF Uncleared, Join, Larger, Key

LEMMA StartUncleared ==
    ASSUME NEW local \in LocalDocument, NEW applied \in Settings,
           local # NoReplica => Uncleared(local)
    PROVE  Uncleared(Start(local, applied))
BY DEF Uncleared, Start, Bootstrap, Missing, None, Key

LEMMA MergedUncleared ==
    ASSUME NEW start \in Document, NEW remote \in MailboxText,
           Uncleared(start), Uncleared(remote.doc)
    PROVE  Uncleared(Merged(start, remote))
BY JoinUncleared DEF Merged, MailboxText

LEMMA EditsUncleared ==
    ASSUME NEW doc, NEW base, NEW edited, NEW at,
           \A k \in Setting : edited.value[k] # None
    PROVE  Uncleared(Edits(doc, base, edited, at))
BY DEF Uncleared, Edits, Missing, None, Key

(* What a Save stores is the projection of the document it recorded, as    *)
(* long as that document clears no setting.                                *)
LEMMA SavedConfigProjects ==
    ASSUME NEW recorded \in Document, NEW applied \in Settings,
           NEW edited \in Settings, NEW usable \in SUBSET Text,
           Uncleared(recorded), edited.rules = "set"
    PROVE  LET config == SavedConfig(recorded, applied, edited, usable)
           IN  Project(recorded, config, usable) = config
<1> DEFINE fall == Fallback(applied, edited)
           projected == Project(recorded, fall, usable)
           config == SavedConfig(recorded, applied, edited, usable)
<1>1. fall \in Settings
    BY DEF Fallback, Settings
<1>2. /\ config.rules = projected.rules
      /\ config = [value |-> config.value, rules |-> config.rules]
      /\ config.value = [k \in Key |-> config.value[k]]
      /\ \A k \in Key : config.value[k] =
            IF k \in Setting /\ projected.value[k] = None
            THEN edited.value[k] ELSE projected.value[k]
    <2>1. projected = [value |-> projected.value, rules |-> projected.rules]
        BY DEF Project
    <2> HIDE DEF projected
    <2>2. config = [value |-> [k \in Key |->
                        IF k \in Setting /\ projected.value[k] = None
                        THEN edited.value[k] ELSE projected.value[k]],
                    rules |-> projected.rules]
        BY <2>1 DEF SavedConfig, projected
    <2>3. QED
        BY <2>2
<1>3. projected.rules = "set" /\ config.rules = "set"
    BY <1>2 DEF Project, Fallback
<1>4. ASSUME NEW k \in Setting
      PROVE  ProjectRegister(recorded[k], config.value[k], usable) = config.value[k]
    <2>1. k \in Key /\ recorded[k].body # None
        BY DEF Uncleared, Key
    <2>2. projected.value[k] = ProjectRegister(recorded[k], fall.value[k], usable)
        BY <2>1 DEF Project
    <2>3. None \notin usable
        BY DocumentAssumption DEF None
    <2>4. QED
        BY <1>2, <2>1, <2>2, <2>3 DEF ProjectRegister
<1>5. ASSUME NEW k \in Key, k \notin Setting, HasRuleEntries(recorded)
      PROVE  ProjectRule(recorded[k], usable) = config.value[k]
    BY <1>2, <1>5 DEF Project
<1>6. /\ Project(recorded, config, usable).value = config.value
      /\ Project(recorded, config, usable).rules = config.rules
      /\ Project(recorded, config, usable) =
             [value |-> Project(recorded, config, usable).value,
              rules |-> Project(recorded, config, usable).rules]
    BY <1>2, <1>3, <1>4, <1>5 DEF Project
<1>7. QED
    BY <1>2, <1>6

(* The texts among a record's values are usable ones.                      *)
AllUsable(settings, usable) == \A k \in Key : settings.value[k] \in usable \cup {None}

LEMMA ProjectUsable ==
    ASSUME NEW doc \in Document, NEW applied \in Settings, NEW usable \in SUBSET Text,
           AllUsable(applied, usable)
    PROVE  AllUsable(Project(doc, applied, usable), usable)
BY DEF AllUsable, Project, ProjectRegister, ProjectRule

LEMMA SavedConfigUsable ==
    ASSUME NEW recorded \in Document, NEW applied \in Settings,
           NEW edited \in Settings, NEW usable \in SUBSET Text,
           AllUsable(applied, usable), AllUsable(edited, usable)
    PROVE  AllUsable(SavedConfig(recorded, applied, edited, usable), usable)
<1> DEFINE fall == Fallback(applied, edited)
           projected == Project(recorded, fall, usable)
<1>1. fall \in Settings /\ AllUsable(fall, usable)
    BY DEF Fallback, Settings, AllUsable
<1>2. AllUsable(projected, usable)
    BY <1>1, ProjectUsable
<1> HIDE DEF projected
<1>3. ASSUME NEW k \in Key
      PROVE  SavedConfig(recorded, applied, edited, usable).value[k] =
                 IF k \in Setting /\ projected.value[k] = None
                 THEN edited.value[k] ELSE projected.value[k]
    BY DEF SavedConfig, projected, Project
<1>4. QED
    BY <1>2, <1>3 DEF AllUsable

(* A changed setting gets the user's value, and a deleted rule its         *)
(* tombstone, on top of anything the document held.                        *)
LEMMA EditsWin ==
    ASSUME NEW doc \in Document, NEW base \in Settings, NEW edited \in Settings,
           NEW now \in 0 .. MaxMs, CanTick(doc, now),
           NEW k \in Key, edited.value[k] # BaseValue(base, k),
           k \in Setting \/ edited.value[k] = None
    PROVE  Join(doc, Edits(doc, base, edited, Tick(doc, now)))[k].body
               = edited.value[k]
<1> DEFINE entry == [at |-> Tick(doc, now), body |-> edited.value[k]]
<1>1. Edits(doc, base, edited, Tick(doc, now))[k] = entry
    BY DocumentAssumption DEF Edits
<1>2. Earlier(doc[k].at, entry.at)
    BY TickIsLater
<1>3. IsTombstone(k, doc[k]) => IsTombstone(k, entry)
    BY DocumentAssumption DEF IsTombstone
<1>4. Below(k, doc[k], entry)
    BY <1>2, <1>3 DEF Below
<1>5. QED
    BY <1>1, <1>4 DEF Join, Larger

(* What the user left alone is recorded as it was.                         *)
LEMMA EditsLeave ==
    ASSUME NEW doc \in Document, NEW base, NEW edited, NEW at,
           NEW k \in Key, edited.value[k] = BaseValue(base, k)
    PROVE  Join(doc, Edits(doc, base, edited, at))[k] = doc[k]
<1>1. Edits(doc, base, edited, at)[k] = Missing /\ EmptyDocument[k] = Missing
    BY DEF Edits, EmptyDocument
<1>2. ~Below(k, doc[k], Missing)
    BY <1>1, CoversEmpty DEF Covers
<1>3. QED
    BY <1>1, <1>2 DEF Join, Larger

-------------------------------------------------------------------------------
(* Types. *)

LEMMA SeedType ==
    ASSUME NEW settings \in Settings
    PROVE  Seed(settings) \in Settings
<1>1. settings.rules \in {"unset", "set", "unreadable"}
    BY DEF Settings
<1>2. QED
    BY <1>1, BaseValueType DEF Seed, Settings

LEMMA PersistedType ==
    ASSUME NEW edit \in Document, NEW current \in LocalDocument
    PROVE  Persisted(edit, current) \in Document
BY JoinType DEF Persisted, LocalDocument

LEMMA TypedType ==
    ASSUME NEW d \in Device, NEW base, NEW typed \in Typed(d, base)
    PROVE  typed \in Settings
<1>1. Usable[d] \subseteq Text
    BY SyncAssumption
<1>2. typed \in [value : [Key -> Usable[d] \cup {None}], rules : {"set"}]
    BY DEF Typed
<1>3. typed.value \in [Key -> Payload] /\ typed.rules = "set"
      /\ typed = [value |-> typed.value, rules |-> typed.rules]
    BY <1>1, <1>2 DEF Payload
<1>4. QED
    BY <1>3 DEF Settings

(* What one round leaves on the device, in the mailbox and in the history. *)
LEMMA RoundTypes ==
    ASSUME TypeOK, NEW d \in Device,
           NEW rep \in LocalDocument, NEW set \in Settings, NEW dig \in Digest,
           NEW publishes, NEW created \in Document, NEW cut,
           RunRound(d, rep, set, dig, publishes, created, cut)
    PROVE  /\ replica' \in [Device -> Document \cup {NoReplica}]
           /\ stored' \in [Device -> Settings]
           /\ digest' \in [Device -> Digest]
           /\ inFlight' \subseteq Write
           /\ saved' \in [Account -> Document]
<1> DEFINE round == Step(rep, seen[d], set, dig, Usable[d])
<1>1. /\ round.replica \in LocalDocument
      /\ round.publish => round.replica \in Document
      /\ round.settings \in Settings
      /\ round.replaced \in Digest
    BY StepType, SyncAssumption DEF TypeOK
<1>2. Bootstrap(set) \in Document /\ EmptyDocument \in Document
    BY BootstrapType, EmptyDocumentType
<1>3. replica' \in [Device -> Document \cup {NoReplica}]
    BY <1>1 DEF RunRound, TypeOK, LocalDocument
<1>4. stored' \in [Device -> Settings]
    BY <1>1 DEF RunRound, TypeOK
<1>5. digest' \in [Device -> Digest]
    BY <1>1 DEF RunRound, TypeOK
<1>6. inFlight' \subseteq Write
    <2>1. account[d] \in Account
        BY DEF TypeOK
    <2>2. round.publish => [dev |-> d, acc |-> account[d], text |-> round.replica] \in Write
        BY <1>1, <2>1 DEF Write
    <2>3. QED
        BY <2>2 DEF RunRound, TypeOK
<1>7. saved' \in [Account -> Document]
    <2> DEFINE fresh == IF rep = NoReplica /\ round.replica # NoReplica
                        THEN Bootstrap(set) ELSE EmptyDocument
               new == IF cut >= RoundReplica THEN Join(created, fresh) ELSE created
    <2>1. fresh \in Document /\ new \in Document
        BY <1>2, JoinType
    <2>2. saved[account[d]] \in Document
        BY DEF TypeOK
    <2>3. Join(saved[account[d]], new) \in Document
        BY <2>1, <2>2, JoinType
    <2>4. saved' = [saved EXCEPT ![account[d]] = Join(@, new)]
        BY DEF RunRound
    <2>5. QED
        BY <2>3, <2>4 DEF TypeOK
<1>8. QED
    BY <1>3, <1>4, <1>5, <1>6, <1>7

LEMMA RecordedType ==
    ASSUME TypeOK, NEW d \in Device, NEW typed \in Settings, NEW now \in 0 .. MaxMs,
           CanTick(Start(replica[d], stored[d]), now)
    PROVE  Recorded(d, typed, now) \in Edit
<1> DEFINE start == Start(replica[d], stored[d])
           edits == Edits(start, committed[d], typed, Tick(start, now))
           edit == Join(start, edits)
<1>1. start \in Document
    BY StartType DEF TypeOK, LocalDocument
<1>2. edits \in Document
    BY <1>1, TickIsLater, EditsType DEF TypeOK
<1>3. edit \in Document
    BY <1>1, <1>2, JoinType
<1>4. SavedConfig(edit, stored[d], typed, Usable[d]) \in Settings
    BY <1>3, SavedConfigType, SyncAssumption DEF TypeOK
<1>5. QED
    BY <1>2, <1>3, <1>4 DEF Recorded, Edit

LEMMA EditParts ==
    ASSUME NEW s \in Edit
    PROVE  /\ s.edit \in Document /\ s.added \in Document
           /\ s.typed \in Settings /\ s.config \in Settings
           /\ s.persisted \in BOOLEAN
BY DEF Edit

LEMMA TakeFirstSaveTypes ==
    ASSUME TypeOK, NEW d \in Device, NEW s \in Edit, TakeFirstSave(d, s)
    PROVE  /\ replica' \in [Device -> Document \cup {NoReplica}]
           /\ saved' \in [Account -> Document]
<1>1. Persisted(s.edit, replica[d]) \in Document
    BY EditParts, PersistedType DEF TypeOK, LocalDocument
<1>2. Join(saved[account[d]], s.added) \in Document
    BY EditParts, JoinType DEF TypeOK
<1>3. QED
    BY <1>1, <1>2 DEF TakeFirstSave, TypeOK

LEMMA EndSaveTypes ==
    ASSUME TypeOK, NEW d \in Device, NEW cut, EndSave(d, cut)
    PROVE  /\ replica' \in [Device -> Document \cup {NoReplica}]
           /\ stored' \in [Device -> Settings]
           /\ digest' \in [Device -> Digest]
           /\ inFlight' \subseteq Write
           /\ saved' \in [Account -> Document]
           /\ committed' \in [Device -> Settings]
<1> DEFINE s == save[d]
           persists == cut >= PersistEdit /\ ~s.persisted
           rep == IF persists THEN Persisted(s.edit, replica[d]) ELSE replica[d]
           created == IF persists THEN s.added ELSE EmptyDocument
<1>1. s \in Edit
    BY DEF EndSave, TypeOK
<1>2. rep \in LocalDocument /\ created \in Document
    BY <1>1, EditParts, PersistedType, EmptyDocumentType DEF TypeOK, LocalDocument
<1>3. RunRound(d, rep, s.config, digest[d], TRUE, created, cut)
    BY DEF EndSave
<1>4. /\ replica' \in [Device -> Document \cup {NoReplica}]
      /\ stored' \in [Device -> Settings]
      /\ digest' \in [Device -> Digest]
      /\ inFlight' \subseteq Write
      /\ saved' \in [Account -> Document]
    <2>1. s.config \in Settings /\ digest[d] \in Digest
        BY <1>1, EditParts DEF TypeOK
    <2>2. QED
        BY <1>2, <1>3, <2>1, RoundTypes
<1>5. committed' \in [Device -> Settings]
    BY <1>1, <1>4, EditParts, SeedType DEF EndSave, TypeOK
<1>6. QED
    BY <1>4, <1>5

LEMMA CountType ==
    ASSUME TypeOK, NEW c \in Counter, Count(c)
    PROVE  used' \in [Counter -> Nat]
BY DEF Count, TypeOK

LEMMA DieTypes ==
    ASSUME TypeOK, NEW d \in Device, NEW counters, Die(d, counters)
    PROVE  /\ running' \in [Device -> BOOLEAN]
           /\ settling' \in [Device -> BOOLEAN]
           /\ save' \in [Device -> Edit \cup {NoSave}]
           /\ used' \in [Counter -> Nat]
BY DEF Die, TypeOK

(* A round started from what the device holds.                             *)
LEMMA OwnRoundTypes ==
    ASSUME TypeOK, NEW d \in Device, NEW publishes, NEW cut,
           RunRound(d, replica[d], stored[d], digest[d], publishes, EmptyDocument, cut)
    PROVE  /\ replica' \in [Device -> Document \cup {NoReplica}]
           /\ stored' \in [Device -> Settings]
           /\ digest' \in [Device -> Digest]
           /\ inFlight' \subseteq Write
           /\ saved' \in [Account -> Document]
<1>1. replica[d] \in LocalDocument /\ stored[d] \in Settings /\ digest[d] \in Digest
    BY DEF TypeOK, LocalDocument
<1>2. QED
    BY <1>1, EmptyDocumentType, RoundTypes

LEMMA InitTypes == Init => TypeOK
<1> SUFFICES ASSUME Init PROVE TypeOK
    OBVIOUS
<1>1. InitialStored \subseteq [Device -> Settings] /\ FirstAccount \in [Device -> Account]
    BY SyncAssumption
<1>2. committed \in [Device -> Settings]
    BY <1>1, SeedType DEF Init
<1>3. EmptyDocument \in Document /\ Absent \in MailboxText /\ NoDigest \in Digest
    BY EmptyDocumentType DEF Absent, MailboxText, NoDigest, Digest
<1>4. QED
    BY <1>1, <1>2, <1>3 DEF Init, TypeOK

LEMMA MailboxStepTypes ==
    ASSUME TypeOK, MailboxStep
    PROVE  TypeOK'
<1>1. CASE \E w \in inFlight : Land(w)
    <2>1. PICK w \in inFlight : Land(w)
        BY <1>1
    <2>2. w.acc \in Account /\ w.text \in Document
        BY DEF TypeOK, Write
    <2>3. Encoded(w.text) \in MailboxText
        BY <2>2 DEF Encoded, MailboxText, NoDigest, Digest
    <2>4. QED
        BY <2>1, <2>3 DEF Land, TypeOK, device
<1>2. CASE \E w \in inFlight : Drop(w)
    BY <1>2 DEF Drop, TypeOK, device
<1>3. CASE \E d \in Device : Deliver(d)
    BY <1>3 DEF Deliver, TypeOK, device
<1>4. CASE \E a \in Account, text \in ForeignTexts : WriteForeign(a, text)
    <2>1. PICK a \in Account, text \in ForeignTexts : WriteForeign(a, text)
        BY <1>4
    <2>2. text \in MailboxText
        BY SyncAssumption, EmptyDocumentType
           DEF Newer, Junk, MailboxText, NoDigest, Digest
    <2>3. used' \in [Counter -> Nat]
        BY <2>1, CountType DEF WriteForeign, Counter
    <2>4. QED
        BY <2>1, <2>2, <2>3 DEF WriteForeign, TypeOK, device
<1>5. CASE \E d \in Device, a \in Account : SwitchAccount(d, a)
    <2>1. PICK d \in Device, a \in Account : SwitchAccount(d, a)
        BY <1>5
    <2>2. used' \in [Counter -> Nat]
        BY <2>1, CountType DEF SwitchAccount, Counter
    <2>3. QED
        BY <2>1, <2>2 DEF SwitchAccount, TypeOK, device
<1>6. QED
    BY <1>1, <1>2, <1>3, <1>4, <1>5 DEF MailboxStep

LEMMA DeviceStepTypes ==
    ASSUME TypeOK, NEW d \in Device, DeviceStep(d)
    PROVE  TypeOK'
<1>1. CASE Launch(d)
    <2>1. RunRound(d, replica[d], stored[d], digest[d], TRUE, EmptyDocument, RoundDigest)
        BY <1>1 DEF Launch
    <2>2. committed' \in [Device -> Settings]
        BY <1>1, <2>1, OwnRoundTypes, SeedType DEF Launch, TypeOK
    <2>3. QED
        BY <1>1, <2>1, <2>2, OwnRoundTypes DEF Launch, TypeOK
<1>2. CASE Round(d)
    BY <1>2, OwnRoundTypes DEF Round, TypeOK
<1>3. CASE InitialSync(d)
    <2>1. used' \in [Counter -> Nat]
        BY <1>3, CountType DEF InitialSync, Counter
    <2>2. QED
        BY <1>3, <2>1, OwnRoundTypes DEF InitialSync, TypeOK
<1>4. CASE InitialSyncSettled(d)
    BY <1>4, OwnRoundTypes DEF InitialSyncSettled, TypeOK
<1>5. CASE HandleAccountChange(d)
    <2>1. RunRound(d, NoReplica, stored[d], NoDigest, TRUE, EmptyDocument, RoundDigest)
        BY <1>5 DEF HandleAccountChange
    <2>2. NoReplica \in LocalDocument /\ stored[d] \in Settings /\ NoDigest \in Digest
        BY DEF TypeOK, LocalDocument, NoDigest, Digest
    <2>3. /\ replica' \in [Device -> Document \cup {NoReplica}]
          /\ stored' \in [Device -> Settings]
          /\ digest' \in [Device -> Digest]
          /\ inFlight' \subseteq Write
          /\ saved' \in [Account -> Document]
        BY <2>1, <2>2, EmptyDocumentType, RoundTypes
    <2>4. QED
        BY <1>5, <2>3 DEF HandleAccountChange, TypeOK
<1>6. CASE Reseed(d)
    <2>1. Seed(stored[d]) \in Settings
        BY SeedType DEF TypeOK
    <2>2. QED
        BY <1>6, <2>1 DEF Reseed, TypeOK, mailbox
<1>7. ASSUME NEW typed \in Typed(d, committed[d]), NEW now \in 0 .. MaxMs,
             \/ BeginSave(d, typed, now)
             \/ BeginFirstSave(d, typed, now)
             \/ KillInFirstSave(d, typed, now)
      PROVE  TypeOK'
    <2> DEFINE s == Recorded(d, typed, now)
    <2>1. s \in Edit
        <3>1. CanTick(Start(replica[d], stored[d]), now)
            BY <1>7 DEF BeginSave, BeginFirstSave, KillInFirstSave, CanSave
        <3>2. QED
            BY <3>1, TypedType, RecordedType
    <2>2. CASE BeginSave(d, typed, now)
        <3>1. used' \in [Counter -> Nat]
            BY <2>2, CountType DEF BeginSave, Counter
        <3>2. QED
            BY <2>1, <2>2, <3>1 DEF BeginSave, TypeOK, mailbox
    <2>3. CASE BeginFirstSave(d, typed, now)
        <3>1. used' \in [Counter -> Nat]
            BY <2>3, CountType DEF BeginFirstSave, Counter
        <3>2. TakeFirstSave(d, s)
            BY <2>3 DEF BeginFirstSave
        <3>3. s.config \in Settings /\ [s EXCEPT !.persisted = TRUE] \in Edit
            BY <2>1 DEF Edit
        <3>4. QED
            BY <2>1, <2>3, <3>1, <3>2, <3>3, TakeFirstSaveTypes
               DEF BeginFirstSave, TypeOK, mailbox
    <2>4. CASE KillInFirstSave(d, typed, now)
        <3>1. TakeFirstSave(d, s)
            BY <2>4 DEF KillInFirstSave
        <3>2. QED
            BY <2>1, <2>4, <3>1, TakeFirstSaveTypes, DieTypes
               DEF KillInFirstSave, TypeOK, mailbox
    <2>5. QED
        BY <1>7, <2>2, <2>3, <2>4
<1>8. CASE FinishSave(d)
    BY <1>8, EndSaveTypes DEF FinishSave, TypeOK
<1>9. CASE RefuseSave(d)
    BY <1>9 DEF RefuseSave, TypeOK, mailbox
<1>10. CASE Kill(d)
    BY <1>10, DieTypes DEF Kill, TypeOK, mailbox
<1>11. ASSUME NEW cut \in KillPoint, KillInRound(d, cut) \/ KillInSave(d, cut)
       PROVE  TypeOK'
    <2>1. CASE KillInRound(d, cut)
        BY <2>1, DieTypes, OwnRoundTypes DEF KillInRound, TypeOK
    <2>2. CASE KillInSave(d, cut)
        BY <2>2, DieTypes, EndSaveTypes DEF KillInSave, TypeOK
    <2>3. QED
        BY <1>11, <2>1, <2>2
<1>12. QED
    BY <1>1, <1>2, <1>3, <1>4, <1>5, <1>6, <1>7, <1>8, <1>9, <1>10, <1>11
       DEF DeviceStep

(* Every variable keeps its type in every reachable state.                 *)
THEOREM TypeCorrect == Spec => []TypeOK
<1>1. TypeOK /\ [Next]_vars => TypeOK'
    <2> SUFFICES ASSUME TypeOK, [Next]_vars PROVE TypeOK'
        OBVIOUS
    <2>1. CASE Next
        BY <2>1, MailboxStepTypes, DeviceStepTypes DEF Next
    <2>2. CASE UNCHANGED vars
        BY <2>2 DEF TypeOK, vars, device, mailbox
    <2>3. QED
        BY <2>1, <2>2
<1>2. QED
    BY InitTypes, <1>1, PTL DEF Spec

-------------------------------------------------------------------------------
(* What a step of a device gains.                                          *)

ViewOf(local) == IF local = NoReplica THEN EmptyDocument ELSE local

LEMMA ViewOfType ==
    ASSUME NEW local \in LocalDocument
    PROVE  ViewOf(local) \in Document
BY EmptyDocumentType DEF ViewOf, LocalDocument

(* A round leaves the device with at least what it started from and with   *)
(* all that it recorded, c, and with nothing beyond c, the start and what  *)
(* it read.  What it publishes is what it leaves on the device.            *)
RoundLeaves(d, rep, created) ==
    /\ replica' = [replica EXCEPT ![d] = replica'[d]]
    /\ replica'[d] \in LocalDocument
    /\ rep # NoReplica => replica'[d] # NoReplica
    /\ Covers(ViewOf(replica'[d]), ViewOf(rep))
    /\ \A w \in inFlight' :
          \/ w \in inFlight
          \/ /\ w.dev = d /\ w.acc = account[d]
             /\ replica'[d] # NoReplica /\ w.text = replica'[d]
    /\ \E c \in Document :
          /\ saved' = [saved EXCEPT ![account[d]] = Join(@, c)]
          /\ Covers(ViewOf(replica'[d]), c)
          /\ \A S \in Document :
                Covers(S, seen[d].doc) /\ Covers(Join(S, created), ViewOf(rep)) =>
                    Covers(Join(S, c), ViewOf(replica'[d]))

LEMMA RoundGains ==
    ASSUME TypeOK, NEW d \in Device,
           NEW rep \in LocalDocument, NEW set \in Settings, NEW dig \in Digest,
           NEW publishes, NEW created \in Document, NEW cut \in Nat,
           RunRound(d, rep, set, dig, publishes, created, cut),
           Covers(ViewOf(rep), created)
    PROVE  RoundLeaves(d, rep, created)
<1> DEFINE round == Step(rep, seen[d], set, dig, Usable[d])
           fresh == IF rep = NoReplica /\ round.replica # NoReplica
                    THEN Bootstrap(set) ELSE EmptyDocument
           c == IF cut >= RoundReplica THEN Join(created, fresh) ELSE created
           next == IF cut >= RoundReplica THEN round.replica ELSE rep
<1>1. seen[d] \in MailboxText /\ Usable[d] \in SUBSET Text
    BY SyncAssumption DEF TypeOK
<1>2. round.replica \in LocalDocument /\ next \in LocalDocument
    BY <1>1, StepType
<1>3. replica' = [replica EXCEPT ![d] = next] /\ replica'[d] = next
    BY DEF RunRound, TypeOK
<1>4. fresh \in Document /\ c \in Document
    BY BootstrapType, EmptyDocumentType, JoinType
<1>5. saved' = [saved EXCEPT ![account[d]] = Join(@, c)]
    BY DEF RunRound
<1>6. \/ rep = NoReplica /\ round.replica = NoReplica /\ ~round.publish
      \/ round.replica = Merged(Start(rep, set), seen[d])
    BY <1>1, StepReplica
<1>7. ASSUME NEW w \in inFlight', w \notin inFlight
      PROVE  /\ w.dev = d /\ w.acc = account[d]
             /\ replica'[d] # NoReplica /\ w.text = replica'[d]
    <2>1. /\ cut >= RoundPublish /\ round.publish
          /\ w = [dev |-> d, acc |-> account[d], text |-> round.replica]
        BY <1>7 DEF RunRound
    <2>2. cut >= RoundReplica
        BY <2>1 DEF RoundPublish, RoundReplica
    <2>3. round.replica \in Document
        BY <2>1, <1>1, StepType
    <2>4. round.replica # NoReplica
        BY <2>3, DecisionsAssumption
    <2>5. QED
        BY <2>1, <2>2, <2>4, <1>3
<1>8. /\ rep # NoReplica => next # NoReplica
      /\ Covers(ViewOf(next), ViewOf(rep))
      /\ Covers(ViewOf(next), c)
      /\ \A S \in Document :
            Covers(S, seen[d].doc) /\ Covers(Join(S, created), ViewOf(rep)) =>
                Covers(Join(S, c), ViewOf(next))
    <2>1. CASE ~(cut >= RoundReplica)
        <3>1. next = rep /\ c = created
            BY <2>1
        <3>2. QED
            BY <3>1, ViewOfType, CoversReflexive
    <2>2. CASE cut >= RoundReplica /\ rep = NoReplica /\ round.replica = NoReplica
        <3>1. ViewOf(next) = EmptyDocument /\ ViewOf(rep) = EmptyDocument
              /\ fresh = EmptyDocument /\ c = Join(created, fresh) /\ rep = next
            BY <2>2 DEF ViewOf
        <3>2. Covers(EmptyDocument, EmptyDocument)
            BY EmptyDocumentType, CoversReflexive
        <3>3. Covers(EmptyDocument, c)
            BY <3>1, <3>2, EmptyDocumentType, JoinLeast
        <3>4. ASSUME NEW S \in Document PROVE Covers(Join(S, c), EmptyDocument)
            BY <1>4, JoinType, CoversEmpty
        <3>5. QED
            BY <3>1, <3>2, <3>3, <3>4
    <2>3. CASE cut >= RoundReplica /\ round.replica = Merged(Start(rep, set), seen[d])
        <3> DEFINE start == Start(rep, set)
        <3>1. start \in Document
            BY StartType
        <3>2. round.replica \in Document /\ round.replica # NoReplica
            BY <2>3, <3>1, <1>1, MergedType, DecisionsAssumption
        <3>3. next = round.replica /\ ViewOf(next) = round.replica
              /\ c = Join(created, fresh)
            BY <2>3, <3>2 DEF ViewOf
        <3>4. Covers(round.replica, start)
            BY <2>3, <3>1, <1>1, MergedCovers
        <3>5. Covers(start, ViewOf(rep)) /\ Covers(start, created) /\ Covers(start, fresh)
            <4>1. CASE rep = NoReplica
                <5>1. start = Bootstrap(set) /\ fresh = start /\ ViewOf(rep) = EmptyDocument
                    BY <4>1, <3>2 DEF Start, ViewOf
                <5>2. Covers(start, EmptyDocument) /\ Covers(start, start)
                    BY <3>1, CoversEmpty, CoversReflexive
                <5>3. Covers(start, created)
                    BY <5>1, <5>2, <3>1, EmptyDocumentType, CoversTransitive
                <5>4. QED
                    BY <5>1, <5>2, <5>3
            <4>2. CASE rep # NoReplica
                <5>1. start = rep /\ ViewOf(rep) = rep /\ fresh = EmptyDocument
                    BY <4>2 DEF Start, ViewOf
                <5>2. QED
                    BY <5>1, <3>1, CoversEmpty, CoversReflexive
            <4>3. QED
                BY <4>1, <4>2
        <3>6. Covers(start, c)
            BY <3>1, <3>3, <3>5, <1>4, JoinLeast
        <3>7. Covers(round.replica, ViewOf(rep)) /\ Covers(round.replica, c)
            BY <3>1, <3>2, <3>4, <3>5, <3>6, <1>4, ViewOfType, CoversTransitive
        <3>8. ASSUME NEW S \in Document,
                     Covers(S, seen[d].doc), Covers(Join(S, created), ViewOf(rep))
              PROVE  Covers(Join(S, c), round.replica)
            <4>1. Join(S, c) \in Document /\ Join(S, created) \in Document
                  /\ seen[d].doc \in Document
                BY <1>4, <1>1, JoinType DEF MailboxText
            <4>2. Covers(Join(S, c), seen[d].doc)
                BY <4>1, <3>8, <1>4, JoinCovers, CoversTransitive
            <4>3. Covers(c, created) /\ Covers(c, fresh)
                BY <3>3, <1>4, JoinCovers
            <4>4. Covers(Join(S, c), Join(S, created))
                BY <4>3, <1>4, JoinMonotone
            <4>5. Covers(Join(S, c), ViewOf(rep))
                BY <4>1, <4>4, <3>8, ViewOfType, CoversTransitive
            <4>6. Covers(Join(S, c), fresh)
                BY <4>1, <4>3, <1>4, JoinCovers, CoversTransitive
            <4>7. start = ViewOf(rep) \/ start = fresh
                BY <3>2 DEF Start, ViewOf
            <4>8. Covers(Join(S, c), start)
                BY <4>5, <4>6, <4>7
            <4>9. QED
                BY <4>1, <4>2, <4>8, <3>1, <2>3, <1>1, MergedLeast
        <3>9. QED
            BY <3>2, <3>3, <3>7, <3>8
    <2>4. QED
        BY <2>1, <2>2, <2>3, <1>6
<1>9. QED
    BY <1>2, <1>3, <1>4, <1>5, <1>7, <1>8 DEF RoundLeaves

(* A recorded Save holds what it added.                                    *)
EditsHold == \A d \in Device : save[d] # NoSave => Covers(save[d].edit, save[d].added)

(* A device and the Save it has in hand hold nothing that was not recorded *)
(* for its account, or is not about to be.                                 *)
Known(d) ==
    /\ Covers(saved[account[d]], View(d))
    /\ Covers(saved[account[d]], seen[d].doc)
    /\ save[d] # NoSave =>
          Covers(Join(saved[account[d]], save[d].added), save[d].edit)

(* What a step of device d does to its replica, the history and the writes *)
(* in flight, unless it handles an account change.                         *)
Gains(d) ==
    /\ replica' = [replica EXCEPT ![d] = replica'[d]]
    /\ replica'[d] \in LocalDocument
    /\ HasReplica(d) => HasReplica(d)'
    /\ Covers(View(d)', View(d))
    /\ \A w \in inFlight' :
          \/ w \in inFlight
          \/ /\ w.dev = d /\ w.acc = account[d]
             /\ HasReplica(d)' /\ w.text = replica'[d]
    /\ \E c \in Document :
          /\ saved' = [saved EXCEPT ![account[d]] = Join(@, c)]
          /\ Covers(View(d)', c)
          /\ Known(d) => Covers(Join(saved[account[d]], c), View(d)')

LEMMA ViewType ==
    ASSUME TypeOK, NEW d \in Device
    PROVE  View(d) \in Document /\ View(d) = ViewOf(replica[d])
BY EmptyDocumentType DEF View, ViewOf, HasReplica, TypeOK

LEMMA GainsNothing ==
    ASSUME TypeOK, NEW d \in Device, UNCHANGED <<replica, saved, inFlight>>
    PROVE  Gains(d)
<1>1. View(d) \in Document /\ View(d)' = View(d) /\ HasReplica(d)' = HasReplica(d)
    BY ViewType DEF View, HasReplica
<1>2. saved[account[d]] \in Document
    BY DEF TypeOK
<1>3. Join(saved[account[d]], EmptyDocument) = saved[account[d]]
    BY <1>2, EmptyDocumentType, CoversEmpty, JoinCovered
<1>4. saved' = [saved EXCEPT ![account[d]] = Join(@, EmptyDocument)]
    BY <1>3 DEF TypeOK
<1>5. Covers(View(d)', View(d)) /\ Covers(View(d)', EmptyDocument)
    BY <1>1, CoversReflexive, CoversEmpty
<1>6. Known(d) => Covers(Join(saved[account[d]], EmptyDocument), View(d)')
    BY <1>1, <1>3 DEF Known
<1>7. replica' = [replica EXCEPT ![d] = replica'[d]] /\ replica'[d] \in LocalDocument
    BY DEF TypeOK, LocalDocument
<1>8. QED
    BY <1>1, <1>4, <1>5, <1>6, <1>7, EmptyDocumentType DEF Gains

LEMMA OwnRoundGains ==
    ASSUME TypeOK, NEW d \in Device, NEW publishes, NEW cut \in Nat,
           RunRound(d, replica[d], stored[d], digest[d], publishes, EmptyDocument, cut)
    PROVE  Gains(d)
<1> DEFINE S == saved[account[d]]
<1>1. replica[d] \in LocalDocument /\ stored[d] \in Settings /\ digest[d] \in Digest
      /\ S \in Document
    BY DEF TypeOK, LocalDocument
<1>2. ViewOf(replica[d]) \in Document /\ Covers(ViewOf(replica[d]), EmptyDocument)
    BY <1>1, ViewOfType, CoversEmpty
<1>3. Join(S, EmptyDocument) = S
    BY <1>1, EmptyDocumentType, CoversEmpty, JoinCovered
<1>4. Known(d) => Covers(S, seen[d].doc) /\ Covers(Join(S, EmptyDocument), ViewOf(replica[d]))
    BY <1>3, ViewType DEF Known
<1>5. View(d) = ViewOf(replica[d]) /\ View(d)' = ViewOf(replica'[d])
    BY DEF View, ViewOf, HasReplica
<1>6. RoundLeaves(d, replica[d], EmptyDocument)
    BY <1>1, <1>2, EmptyDocumentType, RoundGains
<1>7. QED
    BY <1>1, <1>4, <1>5, <1>6 DEF Gains, HasReplica, RoundLeaves

LEMMA PersistedGains ==
    ASSUME TypeOK, NEW d \in Device, NEW s \in Edit, Covers(s.edit, s.added)
    PROVE  LET rep == Persisted(s.edit, replica[d])
               S == saved[account[d]]
           IN  /\ rep \in Document /\ rep # NoReplica
               /\ Covers(rep, View(d)) /\ Covers(rep, s.added)
               /\ Covers(S, View(d)) /\ Covers(Join(S, s.added), s.edit) =>
                     Covers(Join(S, s.added), rep)
<1> DEFINE rep == Persisted(s.edit, replica[d])
           S == saved[account[d]]
<1>1. s.edit \in Document /\ s.added \in Document /\ S \in Document
      /\ replica[d] \in LocalDocument
    BY EditParts DEF TypeOK, LocalDocument
<1>2. rep \in Document /\ rep # NoReplica
    BY <1>1, PersistedType, DecisionsAssumption
<1>3. View(d) \in Document
    BY ViewType
<1>4. Covers(rep, View(d)) /\ Covers(rep, s.edit)
    <2>1. CASE replica[d] = NoReplica
        <3>1. rep = s.edit /\ View(d) = EmptyDocument
            BY <2>1 DEF Persisted, View, HasReplica
        <3>2. QED
            BY <3>1, <1>1, CoversEmpty, CoversReflexive
    <2>2. CASE replica[d] # NoReplica
        <3>1. rep = Join(s.edit, replica[d]) /\ View(d) = replica[d]
            BY <2>2 DEF Persisted, View, HasReplica
        <3>2. QED
            BY <3>1, <1>1, <1>3, JoinCovers
    <2>3. QED
        BY <2>1, <2>2
<1>5. Covers(rep, s.added)
    BY <1>1, <1>2, <1>4, CoversTransitive
<1>6. ASSUME Covers(S, View(d)), Covers(Join(S, s.added), s.edit)
      PROVE  Covers(Join(S, s.added), rep)
    <2>1. Join(S, s.added) \in Document
        BY <1>1, JoinType
    <2>2. Covers(Join(S, s.added), View(d))
        BY <2>1, <1>1, <1>3, <1>6, JoinCovers, CoversTransitive
    <2>3. rep = s.edit \/ rep = Join(s.edit, View(d))
        BY DEF Persisted, View, HasReplica
    <2>4. QED
        BY <2>1, <2>2, <2>3, <1>1, <1>3, <1>6, JoinLeast
<1>7. QED
    BY <1>2, <1>4, <1>5, <1>6

LEMMA TakeFirstSaveGains ==
    ASSUME TypeOK, NEW d \in Device, NEW s \in Edit, TakeFirstSave(d, s),
           Covers(s.edit, s.added), UNCHANGED inFlight,
           Known(d) => Covers(Join(saved[account[d]], s.added), s.edit)
    PROVE  Gains(d)
<1> DEFINE rep == Persisted(s.edit, replica[d])
<1>1. /\ rep \in Document /\ rep # NoReplica
      /\ Covers(rep, View(d)) /\ Covers(rep, s.added)
      /\ Known(d) => Covers(Join(saved[account[d]], s.added), rep)
    BY PersistedGains DEF Known
<1>2. replica' = [replica EXCEPT ![d] = rep] /\ replica'[d] = rep
      /\ View(d)' = rep /\ HasReplica(d)'
    BY <1>1 DEF TakeFirstSave, TypeOK, View, HasReplica
<1>3. saved' = [saved EXCEPT ![account[d]] = Join(@, s.added)] /\ s.added \in Document
    BY EditParts DEF TakeFirstSave
<1>4. QED
    BY <1>1, <1>2, <1>3 DEF Gains, LocalDocument

LEMMA EndSaveGains ==
    ASSUME TypeOK, EditsHold, NEW d \in Device, NEW cut \in Nat, EndSave(d, cut)
    PROVE  Gains(d)
<1> DEFINE s == save[d]
           S == saved[account[d]]
           persists == cut >= PersistEdit /\ ~s.persisted
           rep == IF persists THEN Persisted(s.edit, replica[d]) ELSE replica[d]
           created == IF persists THEN s.added ELSE EmptyDocument
<1>1. s \in Edit /\ s # NoSave /\ Covers(s.edit, s.added)
    BY DEF EndSave, TypeOK, EditsHold
<1>2. RunRound(d, rep, s.config, digest[d], TRUE, created, cut)
    BY DEF EndSave
<1>3. /\ View(d) \in Document /\ View(d) = ViewOf(replica[d]) /\ S \in Document
      /\ replica[d] \in LocalDocument /\ s.config \in Settings /\ digest[d] \in Digest
    BY <1>1, ViewType, EditParts DEF TypeOK, LocalDocument
<1>4. /\ rep \in LocalDocument /\ created \in Document
      /\ HasReplica(d) => rep # NoReplica
      /\ Covers(ViewOf(rep), View(d)) /\ Covers(ViewOf(rep), created)
      /\ Known(d) => Covers(Join(S, created), ViewOf(rep))
    <2>1. CASE persists
        <3>1. rep = Persisted(s.edit, replica[d]) /\ created = s.added
            BY <2>1
        <3>2. /\ rep \in Document /\ rep # NoReplica
              /\ Covers(rep, View(d)) /\ Covers(rep, s.added)
              /\ Known(d) => Covers(Join(S, s.added), rep)
            BY <1>1, <3>1, PersistedGains DEF Known
        <3>3. QED
            BY <1>1, <3>1, <3>2, EditParts DEF ViewOf, LocalDocument
    <2>2. CASE ~persists
        <3>1. rep = replica[d] /\ created = EmptyDocument
            BY <2>2
        <3>2. Join(S, EmptyDocument) = S
            BY <1>3, EmptyDocumentType, CoversEmpty, JoinCovered
        <3>3. QED
            BY <1>3, <3>1, <3>2, EmptyDocumentType, CoversReflexive, CoversEmpty
               DEF Known, HasReplica
    <2>3. QED
        BY <2>1, <2>2
<1>5. RoundLeaves(d, rep, created)
    BY <1>2, <1>3, <1>4, RoundGains
<1> HIDE DEF rep, created
<1>6. View(d)' = ViewOf(replica'[d]) /\ ViewOf(replica'[d]) \in Document
    BY <1>5, ViewOfType DEF View, ViewOf, HasReplica, RoundLeaves
<1>7. Covers(View(d)', View(d))
    BY <1>3, <1>4, <1>5, <1>6, ViewOfType, CoversTransitive DEF RoundLeaves
<1>8. Known(d) => Covers(S, seen[d].doc) /\ Covers(Join(S, created), ViewOf(rep))
    BY <1>4 DEF Known
<1>9. \E c \in Document :
         /\ saved' = [saved EXCEPT ![account[d]] = Join(@, c)]
         /\ Covers(View(d)', c)
         /\ Known(d) => Covers(Join(S, c), View(d)')
    BY <1>3, <1>5, <1>6, <1>8 DEF RoundLeaves
<1>10. HasReplica(d) => HasReplica(d)'
    BY <1>4, <1>5 DEF HasReplica, RoundLeaves
<1>11. QED
    BY <1>5, <1>7, <1>9, <1>10 DEF Gains, HasReplica, RoundLeaves

(* The Save a device has in hand after a step is the one it had, or a new  *)
(* one, which holds what it adds and nothing unknown beyond that.          *)
SaveInHand(d) ==
    /\ save' = [save EXCEPT ![d] = save'[d]]
    /\ save'[d] # NoSave =>
          \/ save[d] # NoSave /\ save'[d] = save[d]
          \/ /\ save'[d] \in Edit
             /\ Covers(save'[d].edit, save'[d].added)
             /\ Known(d) => Covers(Join(saved[account[d]], save'[d].added),
                                   save'[d].edit)

Undisturbed == UNCHANGED <<account, seen, cell, used.switches>>

LEMMA RecordedHolds ==
    ASSUME TypeOK, NEW d \in Device, NEW typed \in Settings, NEW now \in 0 .. MaxMs,
           CanTick(Start(replica[d], stored[d]), now)
    PROVE  LET s == Recorded(d, typed, now)
           IN  /\ Covers(s.edit, s.added)
               /\ Known(d) => Covers(Join(saved[account[d]], s.added), s.edit)
<1> DEFINE start == Start(replica[d], stored[d])
           edits == Edits(start, committed[d], typed, Tick(start, now))
           s == Recorded(d, typed, now)
           S == saved[account[d]]
<1>1. start \in Document /\ S \in Document
    BY StartType DEF TypeOK, LocalDocument
<1>2. edits \in Document
    BY <1>1, TickIsLater, EditsType DEF TypeOK
<1>3. s.edit = Join(start, edits)
      /\ s.added = (IF replica[d] = NoReplica THEN s.edit ELSE edits)
    BY DEF Recorded
<1>4. s.edit \in Document
    BY <1>1, <1>2, <1>3, JoinType
<1>5. CASE replica[d] = NoReplica
    BY <1>1, <1>3, <1>4, <1>5, CoversReflexive, JoinCovers
<1>6. CASE replica[d] # NoReplica
    <2>1. s.added = edits /\ start = View(d)
        BY <1>3, <1>6 DEF Start, View, HasReplica
    <2>2. Covers(s.edit, edits)
        BY <1>1, <1>2, <1>3, JoinCovers
    <2>3. ASSUME Known(d) PROVE Covers(Join(S, edits), s.edit)
        <3>1. Join(S, edits) \in Document
            BY <1>1, <1>2, JoinType
        <3>2. Covers(Join(S, edits), S) /\ Covers(Join(S, edits), edits)
            BY <1>1, <1>2, JoinCovers
        <3>3. Covers(S, start)
            BY <2>1, <2>3 DEF Known
        <3>4. Covers(Join(S, edits), start)
            BY <3>1, <3>2, <3>3, <1>1, CoversTransitive
        <3>5. QED
            BY <3>1, <3>2, <3>4, <1>1, <1>2, <1>3, JoinLeast
    <2>4. QED
        BY <2>1, <2>2, <2>3
<1>7. QED
    BY <1>5, <1>6

LEMMA DeviceStepGains ==
    ASSUME TypeOK, EditsHold, NEW d \in Device, DeviceStep(d), ~HandleAccountChange(d)
    PROVE  Gains(d) /\ SaveInHand(d) /\ Undisturbed /\ UNCHANGED notice
<1> USE DEF Undisturbed
<1>1. UNCHANGED save => SaveInHand(d)
    BY DEF SaveInHand, TypeOK
<1>2. save' = [save EXCEPT ![d] = NoSave] => SaveInHand(d)
    BY DEF SaveInHand, TypeOK
<1>3. \A c \in Counter \ {"switches"} : Count(c) => used'.switches = used.switches
    BY DEF Count, Counter, TypeOK
<1>4. \A counters : Die(d, counters) /\ "switches" \notin counters =>
          save' = [save EXCEPT ![d] = NoSave] /\ used'.switches = used.switches
    BY DEF Die, Counter, TypeOK
<1>5. {RoundDigest} \cup KillPoint \subseteq Nat
    BY DEF RoundDigest, KillPoint
<1>6. CASE Launch(d)
    BY <1>1, <1>5, <1>6, OwnRoundGains DEF Launch
<1>7. CASE Round(d)
    BY <1>1, <1>5, <1>7, OwnRoundGains DEF Round
<1>8. CASE InitialSync(d)
    BY <1>1, <1>3, <1>5, <1>8, OwnRoundGains DEF InitialSync, Counter
<1>9. CASE InitialSyncSettled(d)
    BY <1>1, <1>5, <1>9, OwnRoundGains DEF InitialSyncSettled
<1>10. CASE Reseed(d)
    BY <1>1, <1>10, GainsNothing DEF Reseed, mailbox
<1>11. ASSUME NEW typed \in Typed(d, committed[d]), NEW now \in 0 .. MaxMs,
              \/ BeginSave(d, typed, now)
              \/ BeginFirstSave(d, typed, now)
              \/ KillInFirstSave(d, typed, now)
       PROVE  Gains(d) /\ SaveInHand(d) /\ Undisturbed /\ UNCHANGED notice
    <2> DEFINE s == Recorded(d, typed, now)
    <2>1. CanTick(Start(replica[d], stored[d]), now)
        BY <1>11 DEF BeginSave, BeginFirstSave, KillInFirstSave, CanSave
    <2>2. /\ s \in Edit
          /\ Covers(s.edit, s.added)
          /\ Known(d) => Covers(Join(saved[account[d]], s.added), s.edit)
        BY <2>1, TypedType, RecordedType, RecordedHolds
    <2> HIDE DEF s
    <2>3. CASE BeginSave(d, typed, now)
        <3>1. save' = [save EXCEPT ![d] = s] /\ save'[d] = s
            BY <2>3 DEF BeginSave, TypeOK, s
        <3>2. SaveInHand(d)
            BY <3>1, <2>2 DEF SaveInHand
        <3>3. QED
            BY <2>3, <3>2, <1>3, GainsNothing DEF BeginSave, mailbox, Counter
    <2>4. CASE BeginFirstSave(d, typed, now)
        <3>1. /\ TakeFirstSave(d, s)
              /\ save' = [save EXCEPT ![d] = [s EXCEPT !.persisted = TRUE]]
            BY <2>4 DEF BeginFirstSave, s
        <3>2. /\ save'[d] = [s EXCEPT !.persisted = TRUE]
              /\ save'[d] \in Edit
              /\ save'[d].edit = s.edit /\ save'[d].added = s.added
            BY <3>1, <2>2 DEF Edit, TypeOK
        <3>3. SaveInHand(d)
            BY <3>1, <3>2, <2>2 DEF SaveInHand
        <3>4. UNCHANGED inFlight
            BY <2>4 DEF BeginFirstSave, mailbox
        <3>5. Gains(d)
            BY <3>1, <3>4, <2>2, TakeFirstSaveGains
        <3>6. QED
            BY <2>4, <3>3, <3>5, <1>3 DEF BeginFirstSave, mailbox, Counter
    <2>5. CASE KillInFirstSave(d, typed, now)
        <3>1. TakeFirstSave(d, s) /\ UNCHANGED inFlight
            BY <2>5 DEF KillInFirstSave, mailbox, s
        <3>2. Gains(d)
            BY <3>1, <2>2, TakeFirstSaveGains
        <3>3. QED
            BY <2>5, <3>2, <1>2, <1>4 DEF KillInFirstSave, mailbox
    <2>6. QED
        BY <1>11, <2>3, <2>4, <2>5
<1>12. CASE FinishSave(d)
    BY <1>2, <1>5, <1>12, EndSaveGains DEF FinishSave
<1>13. CASE RefuseSave(d)
    BY <1>2, <1>13, GainsNothing DEF RefuseSave, mailbox
<1>14. CASE Kill(d)
    BY <1>2, <1>4, <1>14, GainsNothing DEF Kill, mailbox
<1>15. ASSUME NEW cut \in KillPoint, KillInRound(d, cut) \/ KillInSave(d, cut)
       PROVE  Gains(d) /\ SaveInHand(d) /\ Undisturbed /\ UNCHANGED notice
    <2>1. CASE KillInRound(d, cut)
        BY <1>2, <1>4, <1>5, <2>1, OwnRoundGains DEF KillInRound
    <2>2. CASE KillInSave(d, cut)
        BY <1>2, <1>4, <1>5, <2>2, EndSaveGains DEF KillInSave
    <2>3. QED
        BY <1>15, <2>1, <2>2
<1>16. QED
    BY <1>6, <1>7, <1>8, <1>9, <1>10, <1>11, <1>12, <1>13, <1>14, <1>15
       DEF DeviceStep

-------------------------------------------------------------------------------
(* Replicas grow. *)

BaseInv == TypeOK /\ EditsHold

LEMMA MailboxKeepsReplicas ==
    ASSUME MailboxStep
    PROVE  UNCHANGED <<running, replica, digest, stored, committed, save, settling>>
           /\ UNCHANGED saved
BY DEF MailboxStep, Land, Drop, Deliver, WriteForeign, SwitchAccount, device

LEMMA BaseInductive == BaseInv /\ [Next]_vars => BaseInv'
<1> SUFFICES ASSUME BaseInv, [Next]_vars PROVE BaseInv'
    OBVIOUS
<1>1. TypeOK'
    BY MailboxStepTypes, DeviceStepTypes
       DEF BaseInv, Next, TypeOK, vars, device, mailbox
<1>2. UNCHANGED save => EditsHold'
    BY DEF BaseInv, EditsHold
<1>3. ASSUME NEW d \in Device, DeviceStep(d) PROVE EditsHold'
    <2>1. CASE HandleAccountChange(d)
        BY <1>2, <2>1 DEF HandleAccountChange
    <2>2. CASE ~HandleAccountChange(d)
        <3>1. SaveInHand(d)
            BY <1>3, <2>2, DeviceStepGains DEF BaseInv
        <3>2. QED
            BY <3>1 DEF BaseInv, SaveInHand, EditsHold, TypeOK
    <2>3. QED
        BY <2>1, <2>2
<1>4. CASE MailboxStep \/ UNCHANGED vars
    <2>1. EditsHold'
        BY <1>2, <1>4, MailboxKeepsReplicas DEF vars, device
    <2>2. QED
        BY <1>1, <2>1 DEF BaseInv
<1>5. QED
    BY <1>1, <1>3, <1>4 DEF Next, BaseInv

LEMMA BaseInvariant == Spec => []BaseInv
<1>1. Init => BaseInv
    BY InitTypes DEF Init, BaseInv, EditsHold
<1>2. QED
    BY <1>1, BaseInductive, PTL DEF Spec

LEMMA StepsGrowReplicas ==
    BaseInv /\ [Next]_vars =>
        \A d \in Device :
            HasReplica(d) /\ notice'[d] = notice[d] =>
                replica'[d] # NoReplica /\ Covers(replica'[d], replica[d])
<1> SUFFICES ASSUME BaseInv, [Next]_vars, NEW d \in Device,
                    HasReplica(d), notice'[d] = notice[d]
             PROVE  replica'[d] # NoReplica /\ Covers(replica'[d], replica[d])
    OBVIOUS
<1>1. replica[d] \in Document /\ View(d) = replica[d]
    BY DEF BaseInv, TypeOK, HasReplica, View
<1>2. CASE replica'[d] = replica[d]
    BY <1>1, <1>2, CoversReflexive DEF HasReplica
<1>3. ASSUME NEW e \in Device, DeviceStep(e)
      PROVE  replica'[d] # NoReplica /\ Covers(replica'[d], replica[d])
    <2>1. CASE HandleAccountChange(e)
        <3>1. e # d
            BY <2>1 DEF HandleAccountChange, BaseInv, TypeOK
        <3>2. replica'[d] = replica[d]
            BY <2>1, <3>1 DEF HandleAccountChange, RunRound, BaseInv, TypeOK
        <3>3. QED
            BY <3>2, <1>2
    <2>2. CASE ~HandleAccountChange(e)
        <3>1. Gains(e)
            BY <1>3, <2>2, DeviceStepGains DEF BaseInv
        <3>2. CASE e # d
            <4>1. replica'[d] = replica[d]
                BY <3>1, <3>2 DEF Gains, BaseInv, TypeOK
            <4>2. QED
                BY <4>1, <1>2
        <3>3. CASE e = d
            BY <3>1, <3>3, <1>1 DEF Gains, HasReplica, View
        <3>4. QED
            BY <3>2, <3>3
    <2>3. QED
        BY <2>1, <2>2
<1>4. CASE MailboxStep \/ UNCHANGED vars
    BY <1>2, <1>4, MailboxKeepsReplicas DEF vars, device
<1>5. QED
    BY <1>3, <1>4 DEF Next

(* Rounds, Saves that awaited core, kills and lost or stale texts never    *)
(* take anything from a replica.                                           *)
THEOREM ReplicasGrow == Spec => ReplicaGrows
BY BaseInvariant, StepsGrowReplicas, PTL DEF ReplicaGrows, Spec

-------------------------------------------------------------------------------
(* What is published is persisted. *)

NoSwitchYet ==
    used.switches = 0 =>
        /\ account = FirstAccount
        /\ \A d \in Device : ~notice[d]

PublishedInv == BaseInv /\ NoSwitchYet /\ PublishedIsPersisted

LEMMA SwitchIsCounted ==
    ASSUME TypeOK, NEW d \in Device, NEW a \in Account, SwitchAccount(d, a)
    PROVE  used'.switches # 0
BY DEF SwitchAccount, Count, Counter, TypeOK

LEMMA NoSwitchYetInductive ==
    ASSUME BaseInv, NoSwitchYet, [Next]_vars
    PROVE  NoSwitchYet'
<1>1. CASE \E d \in Device : DeviceStep(d)
    <2>1. PICK d \in Device : DeviceStep(d)
        BY <1>1
    <2>2. CASE HandleAccountChange(d)
        BY <2>2 DEF HandleAccountChange, NoSwitchYet
    <2>3. CASE ~HandleAccountChange(d)
        BY <2>1, <2>3, DeviceStepGains DEF BaseInv, Undisturbed, NoSwitchYet
    <2>4. QED
        BY <2>2, <2>3
<1>2. CASE \E d \in Device, a \in Account : SwitchAccount(d, a)
    BY <1>2, SwitchIsCounted DEF BaseInv, NoSwitchYet
<1>3. CASE \/ \E w \in inFlight : Land(w) \/ Drop(w)
           \/ \E d \in Device : Deliver(d)
    BY <1>3 DEF Land, Drop, Deliver, NoSwitchYet
<1>4. CASE \E a \in Account, text \in ForeignTexts : WriteForeign(a, text)
    BY <1>4 DEF WriteForeign, Count, Counter, NoSwitchYet, BaseInv, TypeOK
<1>5. CASE UNCHANGED vars
    BY <1>5 DEF vars, mailbox, NoSwitchYet
<1>6. QED
    BY <1>1, <1>2, <1>3, <1>4, <1>5 DEF Next, MailboxStep

LEMMA PublishedInductive == PublishedInv /\ [Next]_vars => PublishedInv'
<1> SUFFICES ASSUME PublishedInv, [Next]_vars PROVE PublishedInv'
    OBVIOUS
<1>1. BaseInv' /\ NoSwitchYet'
    BY BaseInductive, NoSwitchYetInductive DEF PublishedInv
<1>2. SUFFICES ASSUME used'.switches = 0, NEW w \in inFlight'
               PROVE  HasReplica(w.dev)' /\ Covers(replica'[w.dev], w.text)
    BY <1>1 DEF PublishedInv, PublishedIsPersisted
<1>3. ASSUME UNCHANGED replica, used.switches = 0, w \in inFlight
      PROVE  HasReplica(w.dev)' /\ Covers(replica'[w.dev], w.text)
    BY <1>3 DEF PublishedInv, PublishedIsPersisted, HasReplica
<1>4. CASE \E d \in Device : DeviceStep(d)
    <2>1. PICK d \in Device : DeviceStep(d)
        BY <1>4
    <2>2. used.switches = 0 /\ ~HandleAccountChange(d)
        <3>1. used.switches = 0
            BY <2>1, <1>2, DeviceStepGains
               DEF PublishedInv, BaseInv, Undisturbed, HandleAccountChange
        <3>2. QED
            BY <3>1 DEF PublishedInv, NoSwitchYet, HandleAccountChange
    <2>3. Gains(d)
        BY <2>1, <2>2, DeviceStepGains DEF PublishedInv, BaseInv
    <2>4. replica' = [replica EXCEPT ![d] = replica'[d]] /\ replica'[d] \in LocalDocument
        BY <2>3 DEF Gains
    <2>5. CASE w \in inFlight
        <3>1. HasReplica(w.dev) /\ Covers(replica[w.dev], w.text)
            BY <2>2, <2>5 DEF PublishedInv, PublishedIsPersisted
        <3>2. w.dev \in Device /\ w.text \in Document
            BY <2>5 DEF PublishedInv, BaseInv, TypeOK, Write
        <3>3. CASE w.dev # d
            BY <2>4, <3>1, <3>2, <3>3 DEF HasReplica, PublishedInv, BaseInv, TypeOK
        <3>4. CASE w.dev = d
            <4>1. HasReplica(d)' /\ Covers(replica'[d], replica[d])
                BY <2>3, <3>1, <3>4 DEF Gains, View, HasReplica
            <4>2. replica'[d] \in Document /\ replica[d] \in Document
                BY <3>1, <3>4, <4>1, <2>4
                   DEF HasReplica, LocalDocument, PublishedInv, BaseInv, TypeOK
            <4>3. QED
                BY <3>1, <3>2, <3>4, <4>1, <4>2, CoversTransitive
        <3>5. QED
            BY <3>3, <3>4
    <2>6. CASE w \notin inFlight
        <3>1. w.dev = d /\ HasReplica(d)' /\ w.text = replica'[d]
            BY <2>3, <2>6 DEF Gains
        <3>2. replica'[d] \in Document
            BY <3>1, <2>4 DEF HasReplica, LocalDocument
        <3>3. QED
            BY <3>1, <3>2, CoversReflexive DEF HasReplica
    <2>7. QED
        BY <2>5, <2>6
<1>5. CASE \E d \in Device, a \in Account : SwitchAccount(d, a)
    BY <1>2, <1>5, SwitchIsCounted DEF PublishedInv, BaseInv
<1>6. CASE \/ \E v \in inFlight : Land(v) \/ Drop(v)
           \/ \E d \in Device : Deliver(d)
    BY <1>2, <1>3, <1>6 DEF Land, Drop, Deliver, device
<1>7. CASE \E a \in Account, text \in ForeignTexts : WriteForeign(a, text)
    BY <1>2, <1>3, <1>7
       DEF WriteForeign, Count, Counter, device, PublishedInv, BaseInv, TypeOK
<1>8. CASE UNCHANGED vars
    BY <1>2, <1>3, <1>8 DEF vars, device, mailbox
<1>9. QED
    BY <1>4, <1>5, <1>6, <1>7, <1>8 DEF Next, MailboxStep

(* A device persists what it publishes before it publishes it, and never   *)
(* gives it up: a kill anywhere leaves the replica, its stamp clock, above *)
(* every stamp it has sent out.                                            *)
THEOREM PublishedStaysPersisted == Spec => []PublishedIsPersisted
<1>1. Init => PublishedInv
    BY InitTypes
       DEF Init, PublishedInv, BaseInv, EditsHold, NoSwitchYet, PublishedIsPersisted
<1>2. PublishedInv => PublishedIsPersisted
    BY DEF PublishedInv
<1>3. QED
    BY <1>1, <1>2, PublishedInductive, PTL DEF Spec

-------------------------------------------------------------------------------
(* The settings screen: what a device has stored, and the Save it has in   *)
(* hand.                                                                   *)

(* The Save body of SaveBeatsItsBase.                                      *)
BeatsBase(d) ==
    \A k \in Key :
        /\ save[d].typed.value[k] # BaseValue(committed[d], k)
        /\ k \in Setting \/ save[d].typed.value[k] = None
        => save[d].edit[k].body = save[d].typed.value[k]

(* A Save dies with the app, stores usable texts only, clears no setting   *)
(* and beats the screen's baseline, which stands still under it.           *)
SaveHolds(d) ==
    save[d] # NoSave =>
        /\ running[d]
        /\ AllUsable(save[d].config, Usable[d])
        /\ Uncleared(save[d].edit)
        /\ BeatsBase(d)

StoreHolds(d) ==
    /\ AllUsable(stored[d], Usable[d])
    /\ HasReplica(d) => Uncleared(replica[d])
    /\ running[d] /\ HasReplica(d) =>
          Project(replica[d], stored[d], Usable[d]) = stored[d]

MailHolds ==
    /\ \A d \in Device : Uncleared(seen[d].doc)
    /\ \A a \in Account : Uncleared(cell[a].doc)
    /\ \A w \in inFlight : Uncleared(w.text)

ScreenInv ==
    /\ BaseInv
    /\ \A d \in Device : SaveHolds(d) /\ StoreHolds(d)
    /\ MailHolds

(* What a round that starts from rep and set leaves on the device.         *)
RoundApplies(d, rep, set, cut) ==
    /\ replica' = [replica EXCEPT ![d] = replica'[d]]
    /\ stored' = [stored EXCEPT ![d] = stored'[d]]
    /\ replica'[d] = rep \/ replica'[d] = Merged(Start(rep, set), seen[d])
    /\ replica'[d] = NoReplica => stored'[d] = set
    /\ stored'[d] = set \/ stored'[d] = Project(replica'[d], set, Usable[d])
    /\ cut >= RoundSettings /\ replica'[d] # NoReplica =>
          stored'[d] = Project(replica'[d], set, Usable[d])
    /\ \A w \in inFlight' :
          w \in inFlight \/ (replica'[d] # NoReplica /\ w.text = replica'[d])

LEMMA RoundIsApplied ==
    ASSUME TypeOK, NEW d \in Device,
           NEW rep \in LocalDocument, NEW set \in Settings, NEW dig \in Digest,
           NEW publishes, NEW created, NEW cut \in Nat,
           RunRound(d, rep, set, dig, publishes, created, cut)
    PROVE  RoundApplies(d, rep, set, cut)
<1> DEFINE round == Step(rep, seen[d], set, dig, Usable[d])
           merged == Merged(Start(rep, set), seen[d])
<1>1. seen[d] \in MailboxText /\ Usable[d] \in SUBSET Text
    BY SyncAssumption DEF TypeOK
<1>2. merged \in Document /\ merged # NoReplica
    BY <1>1, StartType, MergedType, DecisionsAssumption
<1>3. \/ /\ rep = NoReplica /\ round.replica = NoReplica
         /\ ~round.publish /\ round.settings = set
      \/ /\ round.replica = merged
         /\ round.settings = Project(merged, set, Usable[d])
    BY DEF Step, BootstrapDeferred
<1>4. replica'[d] = IF cut >= RoundReplica THEN round.replica ELSE rep
    BY DEF RunRound, TypeOK
<1>5. stored'[d] = IF cut >= RoundSettings THEN round.settings ELSE set
    BY DEF RunRound, TypeOK
<1>6. replica' = [replica EXCEPT ![d] = replica'[d]]
      /\ stored' = [stored EXCEPT ![d] = stored'[d]]
    BY DEF RunRound, TypeOK
<1>7. cut >= RoundSettings => cut >= RoundReplica
    BY DEF RoundSettings, RoundReplica
<1>8. ASSUME NEW w \in inFlight', w \notin inFlight
      PROVE  replica'[d] # NoReplica /\ w.text = replica'[d]
    <2>1. cut >= RoundPublish /\ round.publish /\ w.text = round.replica
        BY <1>8 DEF RunRound
    <2>2. cut >= RoundReplica
        BY <2>1 DEF RoundPublish, RoundReplica
    <2>3. QED
        BY <1>2, <1>3, <1>4, <2>1, <2>2
<1> HIDE DEF round, merged
<1>9. replica'[d] = rep \/ replica'[d] = merged
    BY <1>3, <1>4
<1>10. replica'[d] = NoReplica => stored'[d] = set
    BY <1>2, <1>3, <1>4, <1>5, <1>7
<1>11. stored'[d] = set \/ stored'[d] = Project(replica'[d], set, Usable[d])
    BY <1>3, <1>4, <1>5, <1>7
<1>12. cut >= RoundSettings /\ replica'[d] # NoReplica =>
           stored'[d] = Project(replica'[d], set, Usable[d])
    BY <1>3, <1>4, <1>5, <1>7
<1>13. QED
    BY <1>6, <1>8, <1>9, <1>10, <1>11, <1>12 DEF RoundApplies, merged

(* A round keeps what is stored usable, and unless a kill cuts it short it *)
(* leaves the stored settings as the projection of the replica.            *)
LEMMA RoundKeepsStore ==
    ASSUME TypeOK, MailHolds, NEW d \in Device,
           NEW rep \in LocalDocument, NEW set \in Settings, NEW cut \in Nat,
           AllUsable(set, Usable[d]), rep # NoReplica => Uncleared(rep),
           RoundApplies(d, rep, set, cut),
           replica'[d] \in LocalDocument,
           cut >= RoundSettings \/ ~running'[d]
    PROVE  /\ StoreHolds(d)'
           /\ \A w \in inFlight' : Uncleared(w.text)
<1>1. seen[d] \in MailboxText /\ Usable[d] \in SUBSET Text
    BY SyncAssumption DEF TypeOK
<1>2. Start(rep, set) \in Document /\ Uncleared(Start(rep, set))
    BY StartType, StartUncleared
<1>3. Uncleared(Merged(Start(rep, set), seen[d]))
    BY <1>1, <1>2, MergedUncleared DEF MailHolds
<1>4. replica'[d] # NoReplica => Uncleared(replica'[d])
    BY <1>3 DEF RoundApplies
<1>5. replica'[d] # NoReplica => replica'[d] \in Document
    BY DEF LocalDocument
<1>6. AllUsable(stored'[d], Usable[d])
    BY <1>1, <1>5, ProjectUsable DEF RoundApplies
<1>7. running'[d] /\ replica'[d] # NoReplica =>
          Project(replica'[d], stored'[d], Usable[d]) = stored'[d]
    BY <1>1, <1>5, ProjectTwice DEF RoundApplies
<1>8. \A w \in inFlight' : Uncleared(w.text)
    BY <1>4 DEF RoundApplies, MailHolds
<1>9. QED
    BY <1>4, <1>6, <1>7, <1>8 DEF StoreHolds, HasReplica

(* What a step of device d does to its screen, and to texts in flight.     *)
ScreenStep(d) ==
    /\ SaveHolds(d)' /\ StoreHolds(d)'
    /\ \A w \in inFlight' : Uncleared(w.text)

LEMMA OwnRoundKeepsStore ==
    ASSUME ScreenInv, TypeOK', NEW d \in Device, NEW publishes, NEW cut \in Nat,
           RunRound(d, replica[d], stored[d], digest[d], publishes, EmptyDocument, cut),
           cut >= RoundSettings \/ ~running'[d]
    PROVE  StoreHolds(d)' /\ \A w \in inFlight' : Uncleared(w.text)
<1>1. /\ TypeOK /\ MailHolds /\ StoreHolds(d)
      /\ replica[d] \in LocalDocument /\ replica'[d] \in LocalDocument
      /\ stored[d] \in Settings /\ digest[d] \in Digest
    BY DEF ScreenInv, BaseInv, TypeOK, LocalDocument
<1>2. RoundApplies(d, replica[d], stored[d], cut)
    BY <1>1, RoundIsApplied
<1>3. QED
    BY <1>1, <1>2, RoundKeepsStore DEF StoreHolds, HasReplica

LEMMA EndSaveKeepsStore ==
    ASSUME ScreenInv, TypeOK', NEW d \in Device, NEW cut \in Nat, EndSave(d, cut),
           cut >= RoundSettings \/ ~running'[d]
    PROVE  StoreHolds(d)' /\ \A w \in inFlight' : Uncleared(w.text)
<1> DEFINE s == save[d]
           persists == cut >= PersistEdit /\ ~s.persisted
           rep == IF persists THEN Persisted(s.edit, replica[d]) ELSE replica[d]
           created == IF persists THEN s.added ELSE EmptyDocument
<1>1. /\ TypeOK /\ MailHolds /\ StoreHolds(d) /\ SaveHolds(d)
      /\ replica[d] \in LocalDocument /\ replica'[d] \in LocalDocument
      /\ digest[d] \in Digest
    BY DEF ScreenInv, BaseInv, TypeOK, LocalDocument
<1>2. s \in Edit /\ s # NoSave
    BY <1>1 DEF EndSave, TypeOK
<1>3. s.edit \in Document /\ s.config \in Settings
    BY <1>2, EditParts
<1>4. RunRound(d, rep, s.config, digest[d], TRUE, created, cut)
    BY DEF EndSave
<1>5. rep \in LocalDocument /\ (rep # NoReplica => Uncleared(rep))
    <2>1. Persisted(s.edit, replica[d]) \in LocalDocument
        BY <1>1, <1>3, PersistedType DEF LocalDocument
    <2>2. Uncleared(s.edit) /\ (replica[d] # NoReplica => Uncleared(replica[d]))
        BY <1>1, <1>2 DEF SaveHolds, StoreHolds, HasReplica
    <2>3. Uncleared(Persisted(s.edit, replica[d]))
        BY <1>1, <1>3, <2>2, JoinUncleared DEF Persisted, LocalDocument
    <2>4. QED
        BY <1>1, <2>1, <2>2, <2>3
<1>6. AllUsable(s.config, Usable[d])
    BY <1>1, <1>2 DEF SaveHolds
<1> HIDE DEF rep, created, s
<1>7. RoundApplies(d, rep, s.config, cut)
    BY <1>1, <1>3, <1>4, <1>5, RoundIsApplied
<1>8. QED
    BY <1>1, <1>3, <1>5, <1>6, <1>7, RoundKeepsStore

(* A Save as it is recorded.                                               *)
LEMMA RecordedIsSound ==
    ASSUME ScreenInv, NEW d \in Device, NEW typed \in Typed(d, committed[d]),
           NEW now \in 0 .. MaxMs, CanTick(Start(replica[d], stored[d]), now),
           NEW s, s = Recorded(d, typed, now)
    PROVE  /\ s \in Edit /\ s.typed = typed
           /\ AllUsable(s.config, Usable[d])
           /\ Uncleared(s.edit)
           /\ Project(s.edit, s.config, Usable[d]) = s.config
           /\ Covers(s.edit, Start(replica[d], stored[d]))
           /\ \A k \in Key :
                 /\ typed.value[k] # BaseValue(committed[d], k)
                 /\ k \in Setting \/ typed.value[k] = None
                 => s.edit[k].body = typed.value[k]
<1> DEFINE start == Start(replica[d], stored[d])
           edits == Edits(start, committed[d], typed, Tick(start, now))
<1>1. /\ TypeOK /\ StoreHolds(d) /\ Usable[d] \in SUBSET Text
      /\ replica[d] \in LocalDocument /\ stored[d] \in Settings
      /\ committed[d] \in Settings
    BY SyncAssumption DEF ScreenInv, BaseInv, TypeOK, LocalDocument
<1>2. typed \in Settings /\ AllUsable(typed, Usable[d]) /\ typed.rules = "set"
      /\ \A k \in Setting : typed.value[k] # None
    BY TypedType DEF Typed, AllUsable
<1>3. start \in Document /\ Uncleared(start)
    BY <1>1, StartType, StartUncleared DEF StoreHolds, HasReplica
<1>4. edits \in Document /\ Uncleared(edits)
    BY <1>1, <1>2, <1>3, TickIsLater, EditsType, EditsUncleared
<1>5. s.edit = Join(start, edits) /\ s.typed = typed
      /\ s.config = SavedConfig(s.edit, stored[d], typed, Usable[d])
    BY DEF Recorded
<1>6. s \in Edit
    BY <1>1, <1>2, RecordedType
<1>7. s.edit \in Document /\ Uncleared(s.edit) /\ Covers(s.edit, start)
    BY <1>3, <1>4, <1>5, JoinType, JoinUncleared, JoinCovers
<1>8. \A k \in Key :
          /\ typed.value[k] # BaseValue(committed[d], k)
          /\ k \in Setting \/ typed.value[k] = None
          => s.edit[k].body = typed.value[k]
    BY <1>1, <1>2, <1>3, <1>5, EditsWin
<1> HIDE DEF start, edits
<1>9. AllUsable(s.config, Usable[d])
    BY <1>1, <1>2, <1>5, <1>7, SavedConfigUsable DEF StoreHolds
<1>10. Project(s.edit, s.config, Usable[d]) = s.config
    BY <1>1, <1>2, <1>5, <1>7, SavedConfigProjects
<1>11. QED
    BY <1>5, <1>6, <1>7, <1>8, <1>9, <1>10 DEF start

(* The first Save, persisted before core judges it, replaces the replica.  *)
LEMMA FirstSaveReplaces ==
    ASSUME ScreenInv, NEW d \in Device, NEW s \in Edit,
           Covers(s.edit, Start(replica[d], stored[d])), TakeFirstSave(d, s)
    PROVE  replica' = [replica EXCEPT ![d] = s.edit]
<1>1. TypeOK /\ s.edit \in Document /\ replica[d] \in LocalDocument
    BY EditParts DEF ScreenInv, BaseInv, TypeOK, LocalDocument
<1>2. Persisted(s.edit, replica[d]) = s.edit
    BY <1>1, JoinCovered DEF Persisted, Start, LocalDocument
<1>3. QED
    BY <1>2 DEF TakeFirstSave

LEMMA DeviceKeepsScreen ==
    ASSUME ScreenInv, TypeOK', NEW d \in Device, DeviceStep(d)
    PROVE  ScreenStep(d)
<1>1. TypeOK /\ SaveHolds(d) /\ StoreHolds(d)
    BY DEF ScreenInv, BaseInv
<1>2. UNCHANGED inFlight => \A w \in inFlight' : Uncleared(w.text)
    BY DEF ScreenInv, MailHolds
<1>3. save'[d] = NoSave => SaveHolds(d)'
    BY DEF SaveHolds
<1>4. UNCHANGED <<save, running, committed>> => SaveHolds(d)'
    BY <1>1 DEF SaveHolds, BeatsBase
<1>5. \A counters : Die(d, counters) => save'[d] = NoSave /\ ~running'[d]
    BY <1>1 DEF Die, TypeOK
<1>6. UNCHANGED <<stored, replica>> /\ (running'[d] => running[d]) => StoreHolds(d)'
    BY <1>1 DEF StoreHolds, HasReplica
<1>7. /\ RoundDigest \in Nat /\ RoundDigest >= RoundSettings
      /\ KillPoint \subseteq Nat
    BY DEF RoundDigest, RoundSettings, KillPoint
<1>8. CASE Launch(d)
    <2>1. save'[d] = NoSave
        BY <1>1, <1>8 DEF Launch, SaveHolds
    <2>2. QED
        BY <1>3, <1>7, <1>8, <2>1, OwnRoundKeepsStore DEF Launch, ScreenStep
<1>9. CASE Round(d)
    BY <1>4, <1>7, <1>9, OwnRoundKeepsStore DEF Round, ScreenStep
<1>10. CASE InitialSync(d)
    BY <1>4, <1>7, <1>10, OwnRoundKeepsStore DEF InitialSync, ScreenStep
<1>11. CASE InitialSyncSettled(d)
    BY <1>4, <1>7, <1>11, OwnRoundKeepsStore DEF InitialSyncSettled, ScreenStep
<1>12. CASE HandleAccountChange(d)
    <2>1. RunRound(d, NoReplica, stored[d], NoDigest, TRUE, EmptyDocument, RoundDigest)
        BY <1>12 DEF HandleAccountChange
    <2>2. /\ NoReplica \in LocalDocument /\ replica'[d] \in LocalDocument
          /\ stored[d] \in Settings /\ NoDigest \in Digest
        BY <1>1 DEF TypeOK, LocalDocument, NoDigest, Digest
    <2>3. RoundApplies(d, NoReplica, stored[d], RoundDigest)
        BY <1>1, <1>7, <2>1, <2>2, RoundIsApplied
    <2>4. StoreHolds(d)' /\ \A w \in inFlight' : Uncleared(w.text)
        BY <1>1, <1>7, <2>2, <2>3, RoundKeepsStore DEF ScreenInv, StoreHolds
    <2>5. QED
        BY <1>4, <1>12, <2>4 DEF HandleAccountChange, ScreenStep
<1>13. CASE Reseed(d)
    BY <1>2, <1>3, <1>6, <1>13 DEF Reseed, mailbox, ScreenStep
<1>14. ASSUME NEW typed \in Typed(d, committed[d]), NEW now \in 0 .. MaxMs,
              \/ BeginSave(d, typed, now)
              \/ BeginFirstSave(d, typed, now)
              \/ KillInFirstSave(d, typed, now)
       PROVE  ScreenStep(d)
    <2> DEFINE s == Recorded(d, typed, now)
    <2>1. CanTick(Start(replica[d], stored[d]), now) /\ running[d]
        BY <1>14 DEF BeginSave, BeginFirstSave, KillInFirstSave, CanSave, Ready
    <2>2. /\ s \in Edit /\ s.typed = typed
          /\ AllUsable(s.config, Usable[d])
          /\ Uncleared(s.edit)
          /\ Project(s.edit, s.config, Usable[d]) = s.config
          /\ Covers(s.edit, Start(replica[d], stored[d]))
          /\ \A k \in Key :
                /\ typed.value[k] # BaseValue(committed[d], k)
                /\ k \in Setting \/ typed.value[k] = None
                => s.edit[k].body = typed.value[k]
        BY <2>1, RecordedIsSound
    <2> HIDE DEF s
    <2>3. CASE BeginSave(d, typed, now)
        <3>1. save'[d] = s /\ UNCHANGED <<running, committed>>
            BY <1>1, <2>3 DEF BeginSave, TypeOK, s
        <3>2. SaveHolds(d)'
            BY <2>1, <2>2, <3>1 DEF SaveHolds, BeatsBase
        <3>3. QED
            BY <1>2, <1>6, <2>3, <3>2 DEF BeginSave, mailbox, ScreenStep
    <2>4. CASE BeginFirstSave(d, typed, now)
        <3>1. /\ save'[d] = [s EXCEPT !.persisted = TRUE]
              /\ stored'[d] = s.config
              /\ TakeFirstSave(d, s)
              /\ UNCHANGED <<running, committed, inFlight>>
            BY <1>1, <2>4 DEF BeginFirstSave, TypeOK, s, mailbox
        <3>2. /\ save'[d].edit = s.edit /\ save'[d].typed = s.typed
              /\ save'[d].config = s.config
            BY <2>2, <3>1 DEF Edit
        <3>3. replica'[d] = s.edit
            BY <1>1, <2>2, <3>1, FirstSaveReplaces DEF TypeOK
        <3>4. SaveHolds(d)'
            BY <2>1, <2>2, <3>1, <3>2 DEF SaveHolds, BeatsBase
        <3>5. StoreHolds(d)'
            BY <2>2, <3>1, <3>3 DEF StoreHolds, HasReplica
        <3>6. QED
            BY <1>2, <3>1, <3>4, <3>5 DEF ScreenStep
    <2>5. CASE KillInFirstSave(d, typed, now)
        <3>1. /\ TakeFirstSave(d, s) /\ save'[d] = NoSave /\ ~running'[d]
              /\ UNCHANGED <<stored, inFlight>>
            BY <1>5, <2>5 DEF KillInFirstSave, s, mailbox
        <3>2. replica'[d] = s.edit
            BY <1>1, <2>2, <3>1, FirstSaveReplaces DEF TypeOK
        <3>3. StoreHolds(d)'
            BY <1>1, <2>2, <3>1, <3>2 DEF StoreHolds, HasReplica
        <3>4. QED
            BY <1>2, <1>3, <3>1, <3>3 DEF ScreenStep
    <2>6. QED
        BY <1>14, <2>3, <2>4, <2>5
<1>15. CASE FinishSave(d)
    <2>1. save'[d] = NoSave /\ EndSave(d, RoundDigest)
        BY <1>1, <1>15 DEF FinishSave, TypeOK
    <2>2. QED
        BY <1>3, <1>7, <2>1, EndSaveKeepsStore DEF ScreenStep
<1>16. CASE RefuseSave(d)
    <2>1. save'[d] = NoSave
        BY <1>1, <1>16 DEF RefuseSave, TypeOK
    <2>2. QED
        BY <1>2, <1>3, <1>6, <1>16, <2>1 DEF RefuseSave, mailbox, ScreenStep
<1>17. CASE Kill(d)
    BY <1>2, <1>3, <1>5, <1>6, <1>17 DEF Kill, mailbox, ScreenStep
<1>18. ASSUME NEW cut \in KillPoint, KillInRound(d, cut) \/ KillInSave(d, cut)
       PROVE  ScreenStep(d)
    <2>1. save'[d] = NoSave /\ ~running'[d] /\ cut \in Nat
        BY <1>5, <1>7, <1>18 DEF KillInRound, KillInSave
    <2>2. StoreHolds(d)' /\ \A w \in inFlight' : Uncleared(w.text)
        BY <1>18, <2>1, OwnRoundKeepsStore, EndSaveKeepsStore
           DEF KillInRound, KillInSave
    <2>3. QED
        BY <1>3, <2>1, <2>2 DEF ScreenStep
<1>19. QED
    BY <1>8, <1>9, <1>10, <1>11, <1>12, <1>13, <1>14, <1>15, <1>16, <1>17, <1>18
       DEF DeviceStep

(* A step of one device leaves the others, and what was read, as they are. *)
LEMMA OthersStandStill ==
    ASSUME TypeOK, NEW d \in Device, DeviceStep(d)
    PROVE  /\ \A e \in Device \ {d} :
                 /\ running'[e] = running[e] /\ replica'[e] = replica[e]
                 /\ stored'[e] = stored[e] /\ committed'[e] = committed[e]
                 /\ save'[e] = save[e] /\ notice'[e] = notice[e]
           /\ UNCHANGED <<account, seen, cell>>
<1>1. ASSUME NEW rep, NEW set, NEW dig, NEW publishes, NEW created, NEW cut,
             RunRound(d, rep, set, dig, publishes, created, cut)
      PROVE  \A e \in Device \ {d} : replica'[e] = replica[e] /\ stored'[e] = stored[e]
    BY <1>1 DEF RunRound, TypeOK
<1>2. ASSUME NEW cut, EndSave(d, cut)
      PROVE  \A e \in Device \ {d} :
                 /\ replica'[e] = replica[e] /\ stored'[e] = stored[e]
                 /\ committed'[e] = committed[e]
    <2>1. \A e \in Device \ {d} : committed'[e] = committed[e]
        BY <1>2 DEF EndSave, TypeOK
    <2>2. QED
        BY <1>1, <1>2, <2>1 DEF EndSave
<1>3. \A counters : Die(d, counters) =>
          \A e \in Device \ {d} : running'[e] = running[e] /\ save'[e] = save[e]
    BY DEF Die, TypeOK
<1>4. CASE \/ Launch(d) \/ Round(d) \/ InitialSync(d) \/ InitialSyncSettled(d)
           \/ HandleAccountChange(d) \/ Reseed(d)
    BY <1>1, <1>4 DEF Launch, Round, InitialSync, InitialSyncSettled,
       HandleAccountChange, Reseed, mailbox, TypeOK
<1>5. CASE \E typed \in Typed(d, committed[d]), now \in 0 .. MaxMs :
              \/ BeginSave(d, typed, now)
              \/ BeginFirstSave(d, typed, now)
              \/ KillInFirstSave(d, typed, now)
    BY <1>3, <1>5 DEF BeginSave, BeginFirstSave, KillInFirstSave, TakeFirstSave,
       mailbox, TypeOK
<1>6. CASE FinishSave(d) \/ RefuseSave(d) \/ Kill(d)
    BY <1>2, <1>3, <1>6 DEF FinishSave, RefuseSave, Kill, mailbox, TypeOK
<1>7. CASE \E cut \in KillPoint : KillInRound(d, cut) \/ KillInSave(d, cut)
    BY <1>1, <1>2, <1>3, <1>7 DEF KillInRound, KillInSave, TypeOK
<1>8. QED
    BY <1>4, <1>5, <1>6, <1>7 DEF DeviceStep

LEMMA StillHolds ==
    ASSUME NEW d \in Device, SaveHolds(d), StoreHolds(d),
           running'[d] = running[d], replica'[d] = replica[d],
           stored'[d] = stored[d], committed'[d] = committed[d], save'[d] = save[d]
    PROVE  SaveHolds(d)' /\ StoreHolds(d)'
BY DEF SaveHolds, BeatsBase, StoreHolds, HasReplica

LEMMA ScreenInductive == ScreenInv /\ [Next]_vars => ScreenInv'
<1> SUFFICES ASSUME ScreenInv, [Next]_vars PROVE ScreenInv'
    OBVIOUS
<1>1. BaseInv' /\ TypeOK /\ TypeOK'
    BY BaseInductive DEF ScreenInv, BaseInv
<1>2. ASSUME NEW d \in Device, DeviceStep(d) PROVE ScreenInv'
    <2>1. ScreenStep(d)
        BY <1>1, <1>2, DeviceKeepsScreen
    <2>2. ASSUME NEW e \in Device PROVE SaveHolds(e)' /\ StoreHolds(e)'
        <3>1. CASE e = d
            BY <2>1, <3>1 DEF ScreenStep
        <3>2. CASE e # d
            BY <1>1, <1>2, <3>2, OthersStandStill, StillHolds DEF ScreenInv
        <3>3. QED
            BY <3>1, <3>2
    <2>3. MailHolds'
        <3>1. UNCHANGED <<seen, cell>>
            BY <1>1, <1>2, OthersStandStill
        <3>2. QED
            BY <2>1, <3>1 DEF ScreenStep, ScreenInv, MailHolds
    <2>4. QED
        BY <1>1, <2>2, <2>3 DEF ScreenInv
<1>3. ASSUME MailboxStep \/ UNCHANGED vars PROVE ScreenInv'
    <2>1. \A d \in Device : SaveHolds(d)' /\ StoreHolds(d)'
        BY <1>3, MailboxKeepsReplicas, StillHolds DEF ScreenInv, vars, device
    <2>2. MailHolds'
        <3>1. MailHolds /\ Uncleared(EmptyDocument)
            BY UnclearedEmpty DEF ScreenInv
        <3>2. CASE \E w \in inFlight : Land(w) \/ Drop(w)
            <4>1. PICK w \in inFlight : Land(w) \/ Drop(w)
                BY <3>2
            <4>2. Uncleared(w.text) /\ w.acc \in Account /\ Encoded(w.text).doc = w.text
                BY <1>1, <3>1 DEF MailHolds, TypeOK, Write, Encoded
            <4>3. CASE Land(w)
                <5>1. cell' = [cell EXCEPT ![w.acc] = Encoded(w.text)]
                      /\ UNCHANGED seen /\ inFlight' \subseteq inFlight
                    BY <4>3 DEF Land
                <5>2. \A a \in Account : Uncleared(cell'[a].doc)
                    BY <1>1, <3>1, <4>2, <5>1 DEF MailHolds, TypeOK
                <5>3. QED
                    BY <3>1, <5>1, <5>2 DEF MailHolds
            <4>4. CASE Drop(w)
                BY <3>1, <4>4 DEF Drop, MailHolds
            <4>5. QED
                BY <4>1, <4>3, <4>4
        <3>3. CASE \E d \in Device : Deliver(d)
            <4>1. PICK d \in Device : Deliver(d)
                BY <3>3
            <4>2. Uncleared(cell[account[d]].doc)
                BY <1>1, <3>1 DEF MailHolds, TypeOK
            <4>3. QED
                BY <1>1, <3>1, <4>1, <4>2 DEF Deliver, MailHolds, TypeOK
        <3>4. CASE \E a \in Account, text \in ForeignTexts : WriteForeign(a, text)
            <4>1. PICK a \in Account, text \in ForeignTexts : WriteForeign(a, text)
                BY <3>4
            <4>2. text.doc = EmptyDocument
                BY SyncAssumption DEF Newer, Junk
            <4>3. cell' = [cell EXCEPT ![a] = text] /\ UNCHANGED <<seen, inFlight>>
                BY <4>1 DEF WriteForeign
            <4>4. \A b \in Account : Uncleared(cell'[b].doc)
                BY <1>1, <3>1, <4>2, <4>3 DEF MailHolds, TypeOK
            <4>5. QED
                BY <3>1, <4>3, <4>4 DEF MailHolds
        <3>5. CASE \E d \in Device, a \in Account : SwitchAccount(d, a)
            BY <1>1, <3>1, <3>5 DEF SwitchAccount, MailHolds, TypeOK
        <3>6. CASE UNCHANGED vars
            BY <3>1, <3>6 DEF MailHolds, vars, mailbox
        <3>7. QED
            BY <1>3, <3>2, <3>3, <3>4, <3>5, <3>6 DEF MailboxStep
    <2>3. QED
        BY <1>1, <2>1, <2>2 DEF ScreenInv
<1>4. QED
    BY <1>2, <1>3 DEF Next

LEMMA ScreenInit == Init => ScreenInv
<1> SUFFICES ASSUME Init PROVE ScreenInv
    OBVIOUS
<1>1. BaseInv
    BY InitTypes DEF Init, BaseInv, EditsHold
<1>2. \A d \in Device : SaveHolds(d)
    BY DEF Init, SaveHolds
<1>3. \A d \in Device : StoreHolds(d)
    BY InitialAssumption DEF Init, StoreHolds, HasReplica, AllUsable
<1>4. MailHolds
    BY UnclearedEmpty DEF Init, MailHolds, Absent
<1>5. QED
    BY <1>1, <1>2, <1>3, <1>4 DEF ScreenInv

LEMMA ScreenInvariant == Spec => []ScreenInv
BY ScreenInit, ScreenInductive, PTL DEF Spec

(* Whatever arrives and whoever saved it, a device stores no text that its *)
(* build does not decode and accept.                                       *)
THEOREM StoredStaysUsable == Spec => []StoredIsUsable
<1>1. ScreenInv => StoredIsUsable
    BY DEF ScreenInv, StoreHolds, AllUsable, StoredIsUsable
<1>2. QED
    BY <1>1, ScreenInvariant, PTL

(* A Save in hand beats all it was made on top of, for any clock: the      *)
(* baseline it was diffed against does not move until the Save has ended.  *)
THEOREM SavesBeatTheirBase == Spec => []SaveBeatsItsBase
<1>1. ScreenInv => SaveBeatsItsBase
    BY DEF ScreenInv, SaveHolds, BeatsBase, SaveBeatsItsBase
<1>2. QED
    BY <1>1, ScreenInvariant, PTL

(* Between two steps of a running app the stored settings are what its     *)
(* replica projects to, also while a Save awaits core and whatever a kill  *)
(* had left behind.  No document ever clears a setting: a cleared one      *)
(* would keep its old value in a first Save and lose it in the next round. *)
THEOREM StoredAlwaysMatches == Spec => []StoredMatchesReplica
<1>1. ScreenInv => StoredMatchesReplica
    BY DEF ScreenInv, StoreHolds, StoredMatchesReplica
<1>2. QED
    BY <1>1, ScreenInvariant, PTL
-------------------------------------------------------------------------------
(* Saves mean what they say. *)

(* The screen and the Save it has in hand show k alike.                    *)
Untouched(d, k) == save[d].typed.value[k] = BaseValue(committed[d], k)

(* Whatever the device starts its next round from has caught up with what  *)
(* the Save in hand recorded for the values the user left alone.           *)
CaughtUp(d) ==
    save[d] # NoSave =>
        /\ ~notice[d]
        /\ \A k \in Key : Untouched(d, k) =>
              ~Below(k, Start(replica[d], stored[d])[k], save[d].edit[k])

HandInv == ScreenInv /\ \A d \in Device : CaughtUp(d)

LEMMA NotBelowCovered ==
    ASSUME NEW k \in Key, NEW high \in Document, NEW mid \in Document,
           NEW low \in Document, Covers(high, mid), ~Below(k, mid[k], low[k])
    PROVE  ~Below(k, high[k], low[k])
<1>1. high[k] \in Slot /\ mid[k] \in Slot /\ low[k] \in Slot
    BY SlotOf
<1>2. ~Below(k, high[k], mid[k])
    BY DEF Covers
<1>3. mid[k] = low[k] \/ Below(k, low[k], mid[k])
    BY <1>1, BelowTotal
<1>4. QED
    BY <1>1, <1>2, <1>3, BelowTransitive

(* A round never falls behind what it started from.                        *)
LEMMA RoundStaysAbove ==
    ASSUME TypeOK, NEW d \in Device, NEW cut,
           RoundApplies(d, replica[d], stored[d], cut)
    PROVE  Covers(Start(replica'[d], stored'[d]), Start(replica[d], stored[d]))
<1> DEFINE start == Start(replica[d], stored[d])
<1>1. start \in Document /\ seen[d] \in MailboxText /\ replica[d] \in LocalDocument
    BY StartType DEF TypeOK, LocalDocument
<1>2. Covers(start, start)
    BY <1>1, CoversReflexive
<1>3. CASE replica'[d] = NoReplica
    <2>1. replica[d] = NoReplica /\ stored'[d] = stored[d]
        BY <1>1, <1>3, StartType, MergedType, DecisionsAssumption
           DEF RoundApplies
    <2>2. QED
        BY <1>2, <1>3, <2>1
<1>4. CASE replica'[d] # NoReplica /\ replica'[d] = replica[d]
    BY <1>2, <1>4 DEF Start
<1>5. CASE replica'[d] # NoReplica /\ replica'[d] = Merged(start, seen[d])
    <2>1. Covers(Merged(start, seen[d]), start)
        BY <1>1, MergedCovers
    <2>2. Start(replica'[d], stored'[d]) = Merged(start, seen[d])
        BY <1>5 DEF Start
    <2>3. QED
        BY <2>1, <2>2
<1>6. QED
    BY <1>3, <1>4, <1>5 DEF RoundApplies

LEMMA OwnRoundCatchesUp ==
    ASSUME HandInv, TypeOK', NEW d \in Device, NEW publishes, NEW cut \in Nat,
           RunRound(d, replica[d], stored[d], digest[d], publishes, EmptyDocument, cut),
           UNCHANGED <<save, committed, notice>>
    PROVE  CaughtUp(d)'
<1>1. TypeOK /\ CaughtUp(d)
    BY DEF HandInv, ScreenInv, BaseInv
<1>2. replica[d] \in LocalDocument /\ stored[d] \in Settings /\ digest[d] \in Digest
    BY <1>1 DEF TypeOK, LocalDocument
<1>3. Covers(Start(replica'[d], stored'[d]), Start(replica[d], stored[d]))
    BY <1>1, <1>2, RoundIsApplied, RoundStaysAbove
<1>4. /\ Start(replica[d], stored[d]) \in Document
      /\ Start(replica'[d], stored'[d]) \in Document
    BY <1>1, StartType DEF TypeOK, LocalDocument
<1>5. SUFFICES ASSUME save[d] # NoSave, NEW k \in Key, Untouched(d, k)
               PROVE  ~Below(k, Start(replica'[d], stored'[d])[k], save[d].edit[k])
    BY <1>1 DEF CaughtUp, Untouched
<1>6. save[d].edit \in Document
    BY <1>1, <1>5, EditParts DEF TypeOK
<1>7. ~Below(k, Start(replica[d], stored[d])[k], save[d].edit[k])
    BY <1>1, <1>5 DEF CaughtUp
<1>8. QED
    BY <1>3, <1>4, <1>6, <1>7, NotBelowCovered

LEMMA DeviceCatchesUp ==
    ASSUME Orderly, HandInv, TypeOK', NEW d \in Device, DeviceStep(d)
    PROVE  CaughtUp(d)'
<1>1. TypeOK /\ CaughtUp(d) /\ SaveHolds(d) /\ ScreenInv
    BY DEF HandInv, ScreenInv, BaseInv
<1>2. save'[d] = NoSave => CaughtUp(d)'
    BY DEF CaughtUp
<1>3. \A counters : Die(d, counters) => save'[d] = NoSave
    BY <1>1 DEF Die, TypeOK
<1>4. RoundDigest \in Nat
    BY DEF RoundDigest
<1>5. CASE Launch(d)
    BY <1>1, <1>2, <1>5 DEF Launch, SaveHolds
<1>6. CASE Round(d) \/ InitialSync(d) \/ InitialSyncSettled(d)
    BY <1>4, <1>6, OwnRoundCatchesUp DEF Round, InitialSync, InitialSyncSettled
<1>7. CASE HandleAccountChange(d) \/ Reseed(d)
    BY <1>1, <1>2, <1>7 DEF HandleAccountChange, Reseed, CaughtUp
<1>8. ASSUME NEW typed \in Typed(d, committed[d]), NEW now \in 0 .. MaxMs,
             \/ BeginSave(d, typed, now)
             \/ BeginFirstSave(d, typed, now)
             \/ KillInFirstSave(d, typed, now)
      PROVE  CaughtUp(d)'
    <2> DEFINE s == Recorded(d, typed, now)
               start == Start(replica[d], stored[d])
               edits == Edits(start, committed[d], typed, Tick(start, now))
    <2>1. CanTick(start, now) /\ ~notice[d]
        BY <1>8 DEF BeginSave, BeginFirstSave, KillInFirstSave, CanSave, Ready
    <2>2. s \in Edit /\ s.typed = typed /\ Covers(s.edit, start)
        BY <1>1, <2>1, RecordedIsSound
    <2>3. start \in Document /\ s.edit \in Document
        BY <1>1, <2>2, StartType, EditParts DEF TypeOK, LocalDocument
    <2>4. s.edit = Join(start, edits)
        BY DEF Recorded
    <2>5. \A k \in Key : typed.value[k] = BaseValue(committed[d], k) =>
              s.edit[k] = start[k]
        BY <2>3, <2>4, EditsLeave
    <2>6. \A k \in Key : ~Below(k, s.edit[k], s.edit[k])
        BY <2>3, SlotOf, BelowIrreflexive
    <2> HIDE DEF s, edits
    <2>7. CASE BeginSave(d, typed, now)
        <3>1. save'[d] = s /\ UNCHANGED <<replica, stored, committed, notice>>
            BY <1>1, <2>7 DEF BeginSave, TypeOK, s, mailbox
        <3>2. \A k \in Key : Untouched(d, k)' => ~Below(k, start[k], s.edit[k])
            BY <2>2, <2>5, <2>6, <3>1 DEF Untouched
        <3>3. QED
            BY <2>1, <3>1, <3>2 DEF CaughtUp
    <2>8. CASE BeginFirstSave(d, typed, now)
        <3>1. /\ save'[d] = [s EXCEPT !.persisted = TRUE]
              /\ TakeFirstSave(d, s)
              /\ UNCHANGED notice
            BY <1>1, <2>8 DEF BeginFirstSave, TypeOK, s, mailbox
        <3>2. save'[d].edit = s.edit
            BY <2>2, <3>1 DEF Edit
        <3>3. replica'[d] = s.edit
            BY <1>1, <2>2, <3>1, FirstSaveReplaces DEF TypeOK
        <3>4. Start(replica'[d], stored'[d]) = s.edit
            BY <2>3, <3>3, DecisionsAssumption DEF Start
        <3>5. QED
            BY <2>1, <2>6, <3>1, <3>2, <3>4 DEF CaughtUp
    <2>9. CASE KillInFirstSave(d, typed, now)
        BY <1>2, <1>3, <2>9 DEF KillInFirstSave
    <2>10. QED
        BY <1>8, <2>7, <2>8, <2>9
<1>9. CASE FinishSave(d) \/ RefuseSave(d)
    BY <1>1, <1>2, <1>9 DEF FinishSave, RefuseSave, TypeOK
<1>10. CASE Kill(d) \/ \E cut \in KillPoint : KillInRound(d, cut) \/ KillInSave(d, cut)
    BY <1>2, <1>3, <1>10 DEF Kill, KillInRound, KillInSave
<1>11. QED
    BY <1>5, <1>6, <1>7, <1>8, <1>9, <1>10 DEF DeviceStep

LEMMA HandInductive ==
    ASSUME Orderly
    PROVE  HandInv /\ [Next]_vars => HandInv'
<1> SUFFICES ASSUME HandInv, [Next]_vars PROVE HandInv'
    OBVIOUS
<1>1. ScreenInv' /\ TypeOK /\ TypeOK'
    BY ScreenInductive DEF HandInv, ScreenInv, BaseInv
<1>2. ASSUME NEW d \in Device,
             UNCHANGED <<replica[d], stored[d], committed[d], save[d]>>,
             notice'[d] = notice[d] \/ save[d] = NoSave
      PROVE  CaughtUp(d)'
    BY <1>2 DEF HandInv, CaughtUp, Untouched
<1>3. ASSUME NEW d \in Device, DeviceStep(d), NEW e \in Device PROVE CaughtUp(e)'
    BY <1>1, <1>2, <1>3, DeviceCatchesUp, OthersStandStill
<1>4. CASE MailboxStep \/ UNCHANGED vars
    <2>1. UNCHANGED <<replica, stored, committed, save>>
        BY <1>4, MailboxKeepsReplicas DEF vars, device
    <2>2. ASSUME NEW d \in Device
          PROVE  notice'[d] = notice[d] \/ save[d] = NoSave
        <3>1. CASE \E e \in Device, a \in Account : SwitchAccount(e, a)
            BY <1>1, <3>1 DEF SwitchAccount, TypeOK
        <3>2. CASE UNCHANGED notice
            BY <3>2
        <3>3. QED
            BY <1>4, <3>1, <3>2
               DEF MailboxStep, Land, Drop, Deliver, WriteForeign, vars, mailbox
    <2>3. \A d \in Device : CaughtUp(d)'
        BY <1>2, <2>1, <2>2
    <2>4. QED
        BY <1>1, <2>3 DEF HandInv
<1>5. QED
    BY <1>1, <1>3, <1>4 DEF Next, HandInv

(* Joining the recorded Save leaves the larger of two entries, and for     *)
(* what the user left alone that is the replica's own.                     *)
LEMMA PersistKeepsUntouched ==
    ASSUME NEW edit \in Document, NEW current \in Document, NEW k \in Key,
           ~Below(k, current[k], edit[k])
    PROVE  Persisted(edit, current)[k] = current[k]
<1>1. current # NoReplica
    BY DecisionsAssumption
<1>2. edit[k] = current[k] \/ Below(k, edit[k], current[k])
    BY SlotOf, BelowTotal
<1>3. QED
    BY <1>1, <1>2 DEF Persisted, Join, Larger

(* A round takes for a key what the device has, or what it read.           *)
LEMMA MergedTakes ==
    ASSUME NEW start, NEW remote, NEW k \in Key
    PROVE  Merged(start, remote)[k] \in {start[k], Larger(k, start[k], remote.doc[k])}
BY DEF Merged, Join

LEMMA EndSaveKeepsUntouched ==
    ASSUME HandInv, NEW d \in Device, NEW cut \in Nat, EndSave(d, cut), HasReplica(d),
           NEW k \in Key, Untouched(d, k)
    PROVE  replica'[d][k] \in {replica[d][k], Larger(k, replica[d][k], seen[d].doc[k])}
<1> DEFINE s == save[d]
           persists == cut >= PersistEdit /\ ~s.persisted
           rep == IF persists THEN Persisted(s.edit, replica[d]) ELSE replica[d]
           created == IF persists THEN s.added ELSE EmptyDocument
<1>1. TypeOK /\ CaughtUp(d) /\ s # NoSave
    BY DEF HandInv, ScreenInv, BaseInv, EndSave
<1>2. s \in Edit /\ replica[d] \in Document /\ digest[d] \in Digest
    BY <1>1 DEF TypeOK, HasReplica
<1>3. s.edit \in Document /\ s.config \in Settings
    BY <1>2, EditParts
<1>4. ~Below(k, replica[d][k], s.edit[k])
    BY <1>1 DEF CaughtUp, Start, HasReplica
<1>5. rep \in Document /\ rep[k] = replica[d][k]
    BY <1>2, <1>3, <1>4, PersistKeepsUntouched, PersistedType DEF LocalDocument
<1>6. RunRound(d, rep, s.config, digest[d], TRUE, created, cut)
    BY DEF EndSave
<1> HIDE DEF rep, created, s
<1>7. RoundApplies(d, rep, s.config, cut)
    BY <1>1, <1>2, <1>3, <1>5, <1>6, RoundIsApplied DEF LocalDocument
<1>8. Start(rep, s.config) = rep
    BY <1>5, DecisionsAssumption DEF Start
<1>9. QED
    BY <1>5, <1>7, <1>8, MergedTakes DEF RoundApplies

LEMMA StepKeepsUntouched ==
    ASSUME HandInv, [Next]_vars, NEW d \in Device,
           save[d] # NoSave, save'[d] = NoSave, HasReplica(d),
           NEW k \in Key, Untouched(d, k)
    PROVE  replica'[d][k] \in {replica[d][k], Larger(k, replica[d][k], seen[d].doc[k])}
<1>1. TypeOK
    BY DEF HandInv, ScreenInv, BaseInv
<1>2. DeviceStep(d)
    BY <1>1, MailboxKeepsReplicas, OthersStandStill DEF Next, vars, device
<1>3. {RoundDigest} \cup KillPoint \subseteq Nat
    BY DEF RoundDigest, KillPoint
<1>4. \/ UNCHANGED replica
      \/ FinishSave(d)
      \/ \E cut \in KillPoint : KillInRound(d, cut) \/ KillInSave(d, cut)
    BY <1>2 DEF DeviceStep, Launch, Round, InitialSync, InitialSyncSettled,
       HandleAccountChange, Reseed, BeginSave, BeginFirstSave, KillInFirstSave,
       CanSave, RefuseSave, Kill
<1>5. CASE FinishSave(d)
    BY <1>3, <1>5, EndSaveKeepsUntouched DEF FinishSave
<1>6. ASSUME NEW cut \in KillPoint, KillInSave(d, cut)
      PROVE  replica'[d][k] \in {replica[d][k], Larger(k, replica[d][k], seen[d].doc[k])}
    BY <1>3, <1>6, EndSaveKeepsUntouched DEF KillInSave
<1>7. ASSUME NEW cut \in KillPoint, KillInRound(d, cut)
      PROVE  replica'[d][k] \in {replica[d][k], Larger(k, replica[d][k], seen[d].doc[k])}
    <2>1. RunRound(d, replica[d], stored[d], digest[d], TRUE, EmptyDocument, cut)
        BY <1>7 DEF KillInRound
    <2>2. /\ replica[d] \in LocalDocument /\ stored[d] \in Settings
          /\ digest[d] \in Digest /\ cut \in Nat
        BY <1>1, <1>3 DEF TypeOK, LocalDocument
    <2>3. RoundApplies(d, replica[d], stored[d], cut)
        BY <1>1, <2>1, <2>2, RoundIsApplied
    <2>4. Start(replica[d], stored[d]) = replica[d]
        BY DEF Start, HasReplica
    <2>5. QED
        BY <2>3, <2>4, MergedTakes DEF RoundApplies
<1>8. QED
    BY <1>4, <1>5, <1>6, <1>7

LEMMA StepKeepsDeleted ==
    ASSUME ScreenInv, ScreenInv', [Next]_vars, NEW d \in Device, NEW r \in Rule,
           HasReplica(d), IsTombstone(r, replica[d][r]),
           running'[d], notice'[d] = notice[d]
    PROVE  stored'[d].value[r] = None
<1>1. replica'[d] # NoReplica /\ Covers(replica'[d], replica[d]) /\ r \in Key
    BY StepsGrowReplicas DEF ScreenInv, Key
<1>2. IsTombstone(r, replica'[d][r])
    BY <1>1 DEF Covers, Below
<1>3. Project(replica'[d], stored'[d], Usable[d]) = stored'[d]
    BY <1>1 DEF ScreenInv, StoreHolds, HasReplica
<1>4. HasRuleEntries(replica'[d])
    BY <1>2 DEF HasRuleEntries, IsTombstone, Missing, None
<1>5. stored'[d].value[r] = ProjectRule(replica'[d][r], Usable[d])
    BY <1>1, <1>3, <1>4, DocumentAssumption DEF Project
<1>6. QED
    BY <1>2, <1>5, DocumentAssumption DEF ProjectRule, IsTombstone

(* If an account change is handled at once and no Save spans it, a Save    *)
(* changes what the user changed and nothing else, over any rounds, kills  *)
(* and stale or lost texts, and what a device knows to be deleted it never *)
(* stores again.                                                           *)
THEOREM SavesAlwaysMeanWhatTheySay ==
    ASSUME Orderly
    PROVE  Spec => SavesMeanWhatTheySay
<1>1. Init => HandInv
    <2>1. Init => ScreenInv
        BY ScreenInit
    <2>2. QED
        BY <2>1 DEF Init, HandInv, CaughtUp
<1>2. HandInv /\ [Next]_vars =>
          [\A d \in Device :
              save[d] # NoSave /\ save'[d] = NoSave /\ HasReplica(d) =>
                  \A k \in Key :
                      save[d].typed.value[k] = BaseValue(committed[d], k) =>
                          replica'[d][k] \in
                              {replica[d][k],
                               Larger(k, replica[d][k], seen[d].doc[k])}]_vars
    BY StepKeepsUntouched DEF Untouched
<1>3. HandInv /\ HandInv' /\ [Next]_vars =>
          [\A d \in Device : \A r \in Rule :
              /\ HasReplica(d)
              /\ IsTombstone(r, replica[d][r])
              /\ stored[d].value[r] = None
              /\ running'[d]
              /\ notice'[d] = notice[d]
              => stored'[d].value[r] = None]_vars
    BY StepKeepsDeleted DEF HandInv
<1>4. QED
    BY <1>1, <1>2, <1>3, HandInductive, PTL
       DEF Spec, SavesMeanWhatTheySay, UntouchedSurvives, DeletedStaysDeleted

-------------------------------------------------------------------------------
(* What an account holds was recorded for it.                              *)

(* The account's mailbox, the writes on their way to it and the devices    *)
(* signed in to it, which are not about to handle an account change, hold  *)
(* nothing that was not recorded for it.                                   *)
KnownAt(a) ==
    /\ Covers(saved[a], cell[a].doc)
    /\ \A w \in inFlight : w.acc = a => Covers(saved[a], w.text)
    /\ \A d \in Device : account[d] = a => ~notice[d] /\ Known(d)

(* A device may leave the account, and none comes to it from another.      *)
NoOneComesTo(a) == \A d \in Device : account'[d] = a => account[d] = a

(* The history of an account only grows.                                   *)
SavedGrows == \A a \in Account : Covers(saved'[a], saved[a])

LEMMA RecordingGrows ==
    ASSUME TypeOK, NEW a \in Account, NEW c \in Document,
           saved' = [saved EXCEPT ![a] = Join(@, c)]
    PROVE  /\ SavedGrows /\ saved'[a] = Join(saved[a], c) /\ Covers(saved'[a], c)
           /\ \A b \in Account \ {a} : saved'[b] = saved[b]
<1>1. saved[a] \in Document
    BY DEF TypeOK
<1>2. saved'[a] = Join(saved[a], c)
    BY DEF TypeOK
<1>3. Covers(saved'[a], saved[a]) /\ Covers(saved'[a], c)
    BY <1>1, <1>2, JoinCovers
<1>4. \A b \in Account \ {a} : saved'[b] = saved[b]
    BY DEF TypeOK
<1>5. ASSUME NEW b \in Account, b # a PROVE Covers(saved'[b], saved[b])
    <2>1. saved'[b] = saved[b] /\ saved[b] \in Document
        BY <1>4, <1>5 DEF TypeOK
    <2>2. QED
        BY <2>1, CoversReflexive
<1>6. QED
    BY <1>2, <1>3, <1>4, <1>5 DEF SavedGrows

(* What was known stays known as the history grows. *)
LEMMA StillCovered ==
    ASSUME TypeOK, TypeOK', SavedGrows, NEW a \in Account, NEW doc \in Document,
           Covers(saved[a], doc)
    PROVE  Covers(saved'[a], doc)
<1>1. saved[a] \in Document /\ saved'[a] \in Document
    BY DEF TypeOK
<1>2. QED
    BY <1>1, CoversTransitive DEF SavedGrows

LEMMA StillCoveredWith ==
    ASSUME TypeOK, TypeOK', SavedGrows, NEW a \in Account,
           NEW added \in Document, NEW doc \in Document,
           Covers(Join(saved[a], added), doc)
    PROVE  Covers(Join(saved'[a], added), doc)
<1> DEFINE before == Join(saved[a], added)
           after == Join(saved'[a], added)
<1>1. saved[a] \in Document /\ saved'[a] \in Document
    BY DEF TypeOK
<1>2. before \in Document /\ after \in Document
    BY <1>1, JoinType
<1>3. Covers(after, saved'[a]) /\ Covers(after, added)
    BY <1>1, JoinCovers
<1>4. Covers(after, saved[a])
    BY <1>1, <1>2, <1>3, CoversTransitive DEF SavedGrows
<1>5. Covers(after, before)
    BY <1>1, <1>2, <1>3, <1>4, JoinLeast
<1>6. QED
    BY <1>2, <1>5, CoversTransitive

LEMMA KnownStays ==
    ASSUME TypeOK, TypeOK', SavedGrows, NEW d \in Device, Known(d),
           replica'[d] = replica[d], save'[d] = save[d],
           seen'[d] = seen[d], account'[d] = account[d]
    PROVE  Known(d)'
<1>1. account[d] \in Account /\ seen[d].doc \in Document /\ View(d) \in Document
    BY ViewType DEF TypeOK, MailboxText
<1>2. View(d)' = View(d)
    BY DEF View, HasReplica
<1>3. Covers(saved'[account[d]], View(d)') /\ Covers(saved'[account[d]], seen'[d].doc)
    BY <1>1, <1>2, StillCovered DEF Known
<1>4. ASSUME save[d] # NoSave
      PROVE  Covers(Join(saved'[account[d]], save[d].added), save[d].edit)
    <2>1. save[d].added \in Document /\ save[d].edit \in Document
        BY <1>4, EditParts DEF TypeOK
    <2>2. QED
        BY <1>1, <1>4, <2>1, StillCoveredWith DEF Known
<1>5. QED
    BY <1>3, <1>4 DEF Known

(* What a device of the account does, while it handles no account change.  *)
LEMMA OwnStepKeepsKnown ==
    ASSUME BaseInv, TypeOK', NEW a \in Account, KnownAt(a),
           NEW d \in Device, DeviceStep(d), account[d] = a
    PROVE  KnownAt(a)'
<1>1. TypeOK /\ ~notice[d] /\ Known(d) /\ ~HandleAccountChange(d)
    BY DEF BaseInv, KnownAt, HandleAccountChange
<1>2. Gains(d) /\ SaveInHand(d) /\ Undisturbed /\ UNCHANGED notice
    BY <1>1, DeviceStepGains DEF BaseInv
<1>3. PICK c \in Document :
          /\ saved' = [saved EXCEPT ![a] = Join(@, c)]
          /\ Covers(View(d)', c)
          /\ Covers(Join(saved[a], c), View(d)')
    BY <1>1, <1>2 DEF Gains
<1>4. SavedGrows /\ saved'[a] = Join(saved[a], c)
    BY <1>1, <1>3, RecordingGrows
<1>5. Covers(saved'[a], View(d)')
    BY <1>3, <1>4
<1>6. Covers(saved'[a], seen[d].doc) /\ Covers(saved'[a], cell[a].doc)
    BY <1>1, <1>4, StillCovered DEF Known, KnownAt, TypeOK, MailboxText
<1>7. ASSUME save'[d] # NoSave
      PROVE  Covers(Join(saved'[a], save'[d].added), save'[d].edit)
    <2>1. save'[d].added \in Document /\ save'[d].edit \in Document
        BY <1>7, EditParts DEF TypeOK
    <2>2. Covers(Join(saved[a], save'[d].added), save'[d].edit)
        BY <1>1, <1>2, <1>7 DEF SaveInHand, Known
    <2>3. QED
        BY <1>1, <1>4, <2>1, <2>2, StillCoveredWith
<1>8. Known(d)'
    BY <1>2, <1>5, <1>6, <1>7 DEF Known, Undisturbed
<1>9. ASSUME NEW e \in Device, account'[e] = a PROVE ~notice'[e] /\ Known(e)'
    <2>1. account[e] = a /\ ~notice'[e]
        BY <1>2, <1>9 DEF KnownAt, Undisturbed
    <2>2. CASE e = d
        BY <1>8, <2>1, <2>2
    <2>3. CASE e # d
        <3>1. replica'[e] = replica[e] /\ save'[e] = save[e]
            BY <1>1, <1>2, <2>3 DEF Gains, SaveInHand, TypeOK
        <3>2. QED
            BY <1>1, <1>2, <1>4, <2>1, <3>1, KnownStays DEF KnownAt, Undisturbed
    <2>4. QED
        BY <2>2, <2>3
<1>10. ASSUME NEW w \in inFlight', w.acc = a PROVE Covers(saved'[a], w.text)
    <2>1. CASE w \in inFlight
        BY <1>1, <1>4, <1>10, <2>1, StillCovered DEF KnownAt, TypeOK, Write
    <2>2. CASE w \notin inFlight
        BY <1>2, <1>5, <2>2 DEF Gains, View, HasReplica
    <2>3. QED
        BY <2>1, <2>2
<1>11. QED
    BY <1>2, <1>6, <1>9, <1>10 DEF KnownAt, Undisturbed

(* A device that rebuilds its replica from its stored settings records     *)
(* and writes for the account it is signed in to.                          *)
LEMMA RebuildRecordsOwn ==
    ASSUME TypeOK, NEW d \in Device, HandleAccountChange(d)
    PROVE  /\ \E c \in Document : saved' = [saved EXCEPT ![account[d]] = Join(@, c)]
           /\ \A w \in inFlight' : w \in inFlight \/ w.acc = account[d]
<1>1. /\ NoReplica \in LocalDocument /\ EmptyDocument \in Document
      /\ stored[d] \in Settings /\ NoDigest \in Digest /\ RoundDigest \in Nat
    BY EmptyDocumentType DEF LocalDocument, TypeOK, NoDigest, Digest, RoundDigest
<1>2. Covers(ViewOf(NoReplica), EmptyDocument)
    BY <1>1, CoversReflexive DEF ViewOf
<1>3. RunRound(d, NoReplica, stored[d], NoDigest, TRUE, EmptyDocument, RoundDigest)
    BY DEF HandleAccountChange
<1>4. RoundLeaves(d, NoReplica, EmptyDocument)
    BY <1>1, <1>2, <1>3, RoundGains
<1>5. QED
    BY <1>4 DEF RoundLeaves

(* What a device of another account does, whichever account it was signed  *)
(* in to before and whether or not it has handled the change.              *)
LEMMA OtherStepKeepsKnown ==
    ASSUME BaseInv, TypeOK', NEW a \in Account, KnownAt(a),
           NEW d \in Device, DeviceStep(d), account[d] # a
    PROVE  KnownAt(a)'
<1>1. TypeOK /\ account[d] \in Account
    BY DEF BaseInv, TypeOK
<1>2. /\ \E c \in Document : saved' = [saved EXCEPT ![account[d]] = Join(@, c)]
      /\ \A w \in inFlight' : w \in inFlight \/ w.acc = account[d]
    <2>1. CASE HandleAccountChange(d)
        BY <1>1, <2>1, RebuildRecordsOwn
    <2>2. CASE ~HandleAccountChange(d)
        <3>1. Gains(d)
            BY <2>2, DeviceStepGains DEF BaseInv
        <3>2. QED
            BY <3>1 DEF Gains
    <2>3. QED
        BY <2>1, <2>2
<1>3. SavedGrows /\ saved'[a] = saved[a]
    BY <1>1, <1>2, RecordingGrows
<1>4. /\ \A e \in Device \ {d} : /\ replica'[e] = replica[e]
                                 /\ save'[e] = save[e] /\ notice'[e] = notice[e]
      /\ UNCHANGED <<account, seen, cell>>
    BY <1>1, OthersStandStill
<1>5. ASSUME NEW e \in Device, account'[e] = a PROVE ~notice'[e] /\ Known(e)'
    <2>1. e # d /\ account[e] = a
        BY <1>4, <1>5
    <2>2. QED
        BY <1>1, <1>3, <1>4, <2>1, KnownStays DEF KnownAt
<1>6. QED
    BY <1>2, <1>3, <1>4, <1>5 DEF KnownAt

(* Texts move between the mailboxes and the devices, and devices leave.    *)
LEMMA MailboxKeepsKnown ==
    ASSUME TypeOK, NEW a \in Account, KnownAt(a), MailboxStep, NoOneComesTo(a)
    PROVE  KnownAt(a)'
<1>1. UNCHANGED <<replica, save, saved>>
    BY MailboxKeepsReplicas
<1>2. ASSUME UNCHANGED <<account, notice>>,
             Covers(saved[a], cell'[a].doc),
             \A d \in Device : account[d] = a => Covers(saved[a], seen'[d].doc),
             inFlight' \subseteq inFlight
      PROVE  KnownAt(a)'
    BY <1>1, <1>2 DEF KnownAt, Known, View, HasReplica
<1>3. Covers(saved[a], cell[a].doc)
      /\ \A d \in Device : account[d] = a => Covers(saved[a], seen[d].doc)
    BY DEF KnownAt, Known
<1>4. ASSUME NEW w \in inFlight, Land(w) PROVE KnownAt(a)'
    <2>1. Covers(saved[a], cell'[a].doc)
        BY <1>3, <1>4 DEF Land, Encoded, KnownAt, TypeOK
    <2>2. QED
        BY <1>2, <1>3, <1>4, <2>1 DEF Land
<1>5. ASSUME NEW w \in inFlight, Drop(w) PROVE KnownAt(a)'
    BY <1>2, <1>3, <1>5 DEF Drop
<1>6. ASSUME NEW d \in Device, Deliver(d) PROVE KnownAt(a)'
    <2>1. \A e \in Device : account[e] = a => Covers(saved[a], seen'[e].doc)
        BY <1>3, <1>6 DEF Deliver, TypeOK
    <2>2. QED
        BY <1>2, <1>3, <1>6, <2>1 DEF Deliver
<1>7. ASSUME NEW b \in Account, NEW text \in ForeignTexts, WriteForeign(b, text)
      PROVE  KnownAt(a)'
    <2>1. text.doc = EmptyDocument /\ saved[a] \in Document
        BY SyncAssumption DEF Newer, Junk, TypeOK
    <2>2. Covers(saved[a], cell'[a].doc)
        BY <1>3, <1>7, <2>1, CoversEmpty DEF WriteForeign, TypeOK
    <2>3. QED
        BY <1>2, <1>3, <1>7, <2>2 DEF WriteForeign
<1>8. ASSUME NEW d \in Device, NEW b \in Account, SwitchAccount(d, b)
      PROVE  KnownAt(a)'
    <2>1. /\ UNCHANGED <<cell, inFlight>>
          /\ account' = [account EXCEPT ![d] = b] /\ b # account[d]
          /\ notice' = [notice EXCEPT ![d] = TRUE]
          /\ seen' = [seen EXCEPT ![d] = cell[b]]
        BY <1>8 DEF SwitchAccount
    <2>2. ASSUME NEW e \in Device, account'[e] = a PROVE ~notice'[e] /\ Known(e)'
        <3>1. account[e] = a
            BY <2>2 DEF NoOneComesTo
        <3>2. e # d
            BY <2>1, <2>2, <3>1 DEF TypeOK
        <3>3. notice'[e] = notice[e] /\ seen'[e] = seen[e] /\ account'[e] = account[e]
            BY <2>1, <3>2 DEF TypeOK
        <3>4. ~notice[e] /\ Known(e)
            BY <3>1 DEF KnownAt
        <3>5. QED
            BY <1>1, <3>3, <3>4 DEF Known, View, HasReplica
    <2>3. QED
        BY <1>1, <2>1, <2>2 DEF KnownAt
<1>9. QED
    BY <1>4, <1>5, <1>6, <1>7, <1>8 DEF MailboxStep

LEMMA KnownInductive ==
    ASSUME BaseInv, NEW a \in Account, KnownAt(a), [Next]_vars, [NoOneComesTo(a)]_vars
    PROVE  KnownAt(a)'
<1>1. TypeOK /\ TypeOK'
    BY BaseInductive DEF BaseInv
<1>2. CASE UNCHANGED vars
    BY <1>2 DEF vars, device, mailbox, KnownAt, Known, View, HasReplica
<1>3. CASE Next /\ NoOneComesTo(a)
    <2>1. ASSUME NEW d \in Device, DeviceStep(d) PROVE KnownAt(a)'
        BY <1>1, <2>1, OwnStepKeepsKnown, OtherStepKeepsKnown
    <2>2. CASE MailboxStep
        BY <1>1, <1>3, <2>2, MailboxKeepsKnown
    <2>3. QED
        BY <1>3, <2>1, <2>2 DEF Next
<1>4. QED
    BY <1>2, <1>3

LEMMA KnownInit ==
    ASSUME Init, NEW a \in Account
    PROVE  BaseInv /\ KnownAt(a)
<1>1. BaseInv
    BY InitTypes DEF Init, BaseInv, EditsHold
<1>2. Covers(EmptyDocument, EmptyDocument)
    BY EmptyDocumentType, CoversReflexive
<1>3. \A d \in Device : account[d] \in Account
    BY <1>1 DEF BaseInv, TypeOK
<1>4. \A d \in Device : ~notice[d] /\ Known(d)
    BY <1>2, <1>3 DEF Init, Known, View, HasReplica, Absent
<1>5. Covers(saved[a], cell[a].doc) /\ inFlight = {}
    BY <1>2 DEF Init, Absent
<1>6. QED
    BY <1>1, <1>4, <1>5 DEF KnownAt

(* An account that no device comes to from another holds only what was     *)
(* recorded for it: in its mailbox, on the way to it and on its devices.    *)
(* The other devices may move between the other accounts, or leave this    *)
(* one, handle the changes at once or late, with Saves in hand or not, and *)
(* be killed meanwhile (SettingsSync.swift:115 and 136): what SettingsSync *)
(* lets through, as in the run account_switch, comes with a device that    *)
(* comes to the account, and in no other way.                              *)
THEOREM OnlyComersBringEntries ==
    ASSUME NEW a \in Account
    PROVE  Spec /\ [][NoOneComesTo(a)]_vars =>
               [](/\ Covers(saved[a], cell[a].doc)
                  /\ \A w \in inFlight : w.acc = a => Covers(saved[a], w.text)
                  /\ \A d \in Device : account[d] = a => Covers(saved[a], View(d)))
<1> DEFINE Apart == /\ Covers(saved[a], cell[a].doc)
                    /\ \A w \in inFlight : w.acc = a => Covers(saved[a], w.text)
                    /\ \A d \in Device : account[d] = a => Covers(saved[a], View(d))
           Inv == BaseInv /\ KnownAt(a)
<1>1. Init => Inv
    BY KnownInit
<1>2. Inv /\ [Next]_vars /\ [NoOneComesTo(a)]_vars => Inv'
    BY BaseInductive, KnownInductive
<1>3. Inv => Apart
    BY DEF KnownAt, Known
<1> HIDE DEF Inv, Apart
<1>4. Spec /\ [][NoOneComesTo(a)]_vars => []Apart
    BY <1>1, <1>2, <1>3, PTL DEF Spec
<1>5. QED
    BY <1>4 DEF Apart

(* While no device has changed its account, all accounts are such.         *)
AllKnown == \A a \in Account : KnownAt(a)

SharingInv ==
    /\ BaseInv
    /\ NoSwitchYet
    /\ used.switches = 0 => AllKnown

(* An account change stays counted. *)
LEMMA SwitchesOnlyGrow ==
    ASSUME BaseInv, [Next]_vars, used'.switches = 0
    PROVE  used.switches = 0
<1>1. ASSUME NEW d \in Device, DeviceStep(d) PROVE used.switches = 0
    BY <1>1, DeviceStepGains DEF BaseInv, Undisturbed, HandleAccountChange
<1>2. CASE MailboxStep
    BY <1>2, SwitchIsCounted
       DEF MailboxStep, Land, Drop, Deliver, WriteForeign, Count, Counter,
           BaseInv, TypeOK
<1>3. CASE UNCHANGED vars
    BY <1>3 DEF vars
<1>4. QED
    BY <1>1, <1>2, <1>3 DEF Next

LEMMA SharingInductive == SharingInv /\ [Next]_vars => SharingInv'
<1> SUFFICES ASSUME SharingInv, [Next]_vars PROVE SharingInv'
    OBVIOUS
<1>1. BaseInv /\ BaseInv' /\ NoSwitchYet /\ NoSwitchYet'
    BY BaseInductive, NoSwitchYetInductive DEF SharingInv
<1>2. ASSUME used'.switches = 0, NEW a \in Account PROVE KnownAt(a)'
    <2>1. used.switches = 0
        BY <1>1, <1>2, SwitchesOnlyGrow
    <2>2. account' = account
        BY <1>1, <1>2, <2>1 DEF NoSwitchYet
    <2>3. [NoOneComesTo(a)]_vars
        BY <2>2 DEF NoOneComesTo
    <2>4. KnownAt(a)
        BY <2>1 DEF SharingInv, AllKnown
    <2>5. QED
        BY <1>1, <2>3, <2>4, KnownInductive
<1>3. QED
    BY <1>1, <1>2 DEF SharingInv, AllKnown

LEMMA SharingInit == Init => SharingInv
<1> SUFFICES ASSUME Init PROVE SharingInv
    OBVIOUS
<1>1. BaseInv /\ NoSwitchYet
    BY InitTypes DEF Init, BaseInv, EditsHold, NoSwitchYet
<1>2. AllKnown
    BY KnownInit DEF AllKnown
<1>3. QED
    BY <1>1, <1>2 DEF SharingInv

LEMMA SharingInvariant == Spec => []SharingInv
BY SharingInit, SharingInductive, PTL DEF Spec

-------------------------------------------------------------------------------
(* Nothing that was saved is lost. *)

LossInv == SharingInv /\ NoLostSave

(* An entry between two equal ones is that entry. *)
LEMMA Squeezed ==
    ASSUME NEW k \in Key, NEW low \in Document, NEW mid \in Document,
           NEW high \in Document, Covers(mid, low), Covers(high, mid),
           low[k] = high[k]
    PROVE  mid[k] = high[k]
BY SlotOf, BelowTotal DEF Covers

LEMMA StepLosesNothing ==
    ASSUME LossInv, TypeOK', used.switches = 0, NEW d \in Device, DeviceStep(d),
           NEW a \in Account, NEW k \in Key, saved'[a][k] # Missing
    PROVE  \E e \in Device : /\ account[e] = a
                             /\ HasReplica(e)'
                             /\ replica'[e][k] = saved'[a][k]
<1>1. BaseInv /\ TypeOK /\ AllKnown /\ ~notice[d] /\ ~HandleAccountChange(d)
    BY DEF LossInv, SharingInv, NoSwitchYet, BaseInv, HandleAccountChange
<1>2. Gains(d)
    BY <1>1, DeviceStepGains DEF BaseInv
<1>3. Known(d)
    BY <1>1 DEF AllKnown, KnownAt, TypeOK
<1>4. PICK c \in Document :
          /\ saved' = [saved EXCEPT ![account[d]] = Join(@, c)]
          /\ Covers(View(d)', c)
          /\ Covers(Join(saved[account[d]], c), View(d)')
    BY <1>2, <1>3 DEF Gains
<1>5. \A e \in Device \ {d} : replica'[e] = replica[e]
    BY <1>1, <1>2 DEF Gains, TypeOK
<1>6. ASSUME NEW e \in Device \ {d}, account[e] = a, HasReplica(e),
             replica[e][k] = saved'[a][k]
      PROVE  HasReplica(e)' /\ replica'[e][k] = saved'[a][k]
    BY <1>5, <1>6 DEF HasReplica
<1>7. saved[a][k] # Missing =>
          \E e \in Device : /\ account[e] = a
                            /\ HasReplica(e)
                            /\ replica[e][k] = saved[a][k]
    BY DEF LossInv, NoLostSave
<1>8. CASE account[d] # a
    <2>1. saved'[a] = saved[a]
        BY <1>4, <1>8, <1>1 DEF TypeOK
    <2>2. QED
        BY <1>6, <1>7, <1>8, <2>1
<1>9. CASE account[d] = a
    <2> DEFINE S == saved[a]
               J == Join(S, c)
    <2>1. S \in Document /\ saved'[a] = J /\ J \in Document
        BY <1>1, <1>4, <1>9, JoinType DEF TypeOK
    <2>2. View(d) \in Document /\ View(d)' \in Document
        BY <1>1, EmptyDocumentType DEF TypeOK, View, HasReplica
    <2>3. Covers(J, View(d)') /\ Covers(View(d)', c) /\ Covers(View(d)', View(d))
        BY <1>2, <1>4, <1>9 DEF Gains
    <2>4. View(d)'[k] = J[k] => HasReplica(d)' /\ replica'[d][k] = J[k]
        BY <2>1 DEF View, HasReplica, EmptyDocument
    <2>5. J[k] = c[k] \/ J[k] = S[k]
        BY DEF Join, Larger
    <2>6. CASE J[k] = c[k]
        BY <2>1, <2>2, <2>3, <2>4, <2>6, <1>9, Squeezed
    <2>7. CASE J[k] = S[k]
        <3>1. PICK e \in Device : /\ account[e] = a
                                  /\ HasReplica(e)
                                  /\ replica[e][k] = S[k]
            BY <1>7, <2>1, <2>7
        <3>2. CASE e # d
            BY <3>1, <3>2, <1>6, <2>1, <2>7
        <3>3. CASE e = d
            <4>1. View(d)[k] = J[k]
                BY <3>1, <3>3, <2>7 DEF View
            <4>2. QED
                BY <4>1, <2>1, <2>2, <2>3, <2>4, <1>9, Squeezed
        <3>4. QED
            BY <3>2, <3>3
    <2>8. QED
        BY <2>5, <2>6, <2>7
<1>10. QED
    BY <1>8, <1>9

LEMMA LossInductive == LossInv /\ [Next]_vars => LossInv'
<1> SUFFICES ASSUME LossInv, [Next]_vars PROVE LossInv'
    OBVIOUS
<1>1. SharingInv' /\ TypeOK /\ TypeOK' /\ BaseInv
    BY SharingInductive DEF LossInv, SharingInv, BaseInv
<1>2. ASSUME used'.switches = 0, NEW a \in Account, NEW k \in Key,
             saved'[a][k] # Missing
      PROVE  \E e \in Device : /\ account'[e] = a
                               /\ HasReplica(e)'
                               /\ replica'[e][k] = saved'[a][k]
    <2>1. used.switches = 0
        BY <1>1, <1>2, SwitchesOnlyGrow
    <2>2. ASSUME UNCHANGED <<replica, saved, account>>
          PROVE  \E e \in Device : /\ account'[e] = a
                                   /\ HasReplica(e)'
                                   /\ replica'[e][k] = saved'[a][k]
        BY <1>2, <2>1, <2>2 DEF LossInv, NoLostSave, HasReplica
    <2>3. ASSUME NEW d \in Device, DeviceStep(d)
          PROVE  \E e \in Device : /\ account'[e] = a
                                   /\ HasReplica(e)'
                                   /\ replica'[e][k] = saved'[a][k]
        <3>1. UNCHANGED account
            BY <1>1, <2>3, OthersStandStill
        <3>2. QED
            BY <1>1, <1>2, <2>1, <2>3, <3>1, StepLosesNothing
    <2>4. CASE MailboxStep
        <3>1. UNCHANGED account
            BY <1>1, <1>2, <2>4, SwitchIsCounted
               DEF MailboxStep, Land, Drop, Deliver, WriteForeign
        <3>2. QED
            BY <2>2, <2>4, <3>1, MailboxKeepsReplicas
    <2>5. CASE UNCHANGED vars
        BY <2>2, <2>5 DEF vars, device, mailbox
    <2>6. QED
        BY <2>3, <2>4, <2>5 DEF Next
<1>3. NoLostSave'
    BY <1>2 DEF NoLostSave
<1>4. QED
    BY <1>1, <1>3 DEF LossInv

(* Lost, stale and reordered texts, rounds during a Save and kills lose no *)
(* Save: its entries stay on some device until larger ones take over.      *)
THEOREM NoSaveIsLost == Spec => []NoLostSave
<1>1. Init => LossInv
    BY SharingInit DEF Init, NoLostSave, EmptyDocument, LossInv
<1>2. LossInv => NoLostSave
    BY DEF LossInv
<1>3. QED
    BY <1>1, <1>2, LossInductive, PTL DEF Spec

-------------------------------------------------------------------------------
(* The devices implement the shared document. *)

SharedView == [d \in Device |-> View(d)]

LEMMA SharedOperators ==
    /\ Shared!EmptyDocument = EmptyDocument
    /\ \A left, right : Shared!Join(left, right) = Join(left, right)
    /\ \A right, left : Shared!Covers(right, left) <=> Covers(right, left)
BY DEF Shared!EmptyDocument, Shared!Missing, Shared!Zero, Shared!Key,
       EmptyDocument, Missing, Zero, Key,
       Shared!Join, Shared!Larger, Shared!Below, Shared!IsTombstone,
       Shared!Earlier, Shared!None,
       Join, Larger, Below, IsTombstone, Earlier, None,
       Shared!Covers, Covers

NeverSwitched == used.switches = 0

LEMMA NeverSwitchedInductive ==
    ASSUME \A u \in Allowed : u.switches = 0, BaseInv, NeverSwitched, [Next]_vars
    PROVE  NeverSwitched'
<1>1. ASSUME NEW d \in Device, DeviceStep(d) PROVE NeverSwitched'
    BY <1>1, DeviceStepGains DEF BaseInv, Undisturbed, HandleAccountChange, NeverSwitched
<1>2. CASE MailboxStep
    BY <1>2 DEF MailboxStep, Land, Drop, Deliver, WriteForeign, SwitchAccount,
                Count, Counter, BaseInv, TypeOK, NeverSwitched
<1>3. CASE UNCHANGED vars
    BY <1>3 DEF vars, NeverSwitched
<1>4. QED
    BY <1>1, <1>2, <1>3 DEF Next

LEMMA StepAdvances ==
    ASSUME SharingInv, TypeOK', NeverSwitched, NEW d \in Device, DeviceStep(d)
    PROVE  Shared!Advance(d)
<1> DEFINE S == saved[account[d]]
<1>1. /\ BaseInv /\ TypeOK /\ AllKnown /\ ~notice[d] /\ ~HandleAccountChange(d)
      /\ account = FirstAccount
    BY DEF SharingInv, NoSwitchYet, NeverSwitched, BaseInv, HandleAccountChange
<1>2. Gains(d) /\ Known(d)
    BY <1>1, DeviceStepGains DEF BaseInv, AllKnown, KnownAt, TypeOK
<1>3. PICK c \in Document :
          /\ saved' = [saved EXCEPT ![account[d]] = Join(@, c)]
          /\ Covers(View(d)', c)
          /\ Covers(Join(S, c), View(d)')
    BY <1>2 DEF Gains
<1>4. SharedView[d] = View(d) /\ SharedView'[d] = View(d)'
    BY DEF SharedView
<1>5. View(d)' \in Document /\ S \in Document
    BY <1>1, EmptyDocumentType DEF TypeOK, View, HasReplica
<1>6. SharedView' = [SharedView EXCEPT ![d] = View(d)']
    BY <1>1, <1>2 DEF SharedView, Gains, View, HasReplica, TypeOK
<1>7. Join(S, View(d)') = Join(S, c)
    <2>1. Join(S, c) \in Document /\ Join(S, View(d)') \in Document
        BY <1>5, JoinType
    <2>2. Covers(Join(S, View(d)'), Join(S, c))
        BY <1>3, <1>5, JoinMonotone
    <2>3. Covers(Join(S, c), Join(S, View(d)'))
        BY <1>3, <1>5, <2>1, JoinCovers, JoinLeast
    <2>4. QED
        BY <2>1, <2>2, <2>3, CoversAntisymmetric
<1>8. saved' = [saved EXCEPT ![FirstAccount[d]] = Join(@, SharedView'[d])]
    BY <1>1, <1>3, <1>4, <1>7
<1>9. Covers(SharedView'[d], SharedView[d])
    BY <1>2, <1>4 DEF Gains
<1>10. QED
    BY <1>4, <1>6, <1>8, <1>9, SharedOperators DEF Shared!Advance, SharedView

(* With no account change, whatever the mailbox does to texts and kills do *)
(* to devices, the devices behave as views of one document per account: a  *)
(* view only gains entries, and those are exactly what was recorded.       *)
THEOREM DevicesShareTheDocument ==
    ASSUME \A u \in Allowed : u.switches = 0
    PROVE  Spec => SharedSpec
<1>1. Init => Shared!Init /\ NeverSwitched
    BY SharedOperators
       DEF Init, Shared!Init, View, HasReplica, NeverSwitched, Counter
<1>2. SharingInv /\ NeverSwitched /\ [Next]_vars =>
          NeverSwitched' /\ [Shared!Next]_<<SharedView, saved>>
    <2> SUFFICES ASSUME SharingInv, NeverSwitched, [Next]_vars
                 PROVE  NeverSwitched' /\ [Shared!Next]_<<SharedView, saved>>
        OBVIOUS
    <2>1. NeverSwitched' /\ TypeOK'
        BY NeverSwitchedInductive, SharingInductive DEF SharingInv, BaseInv
    <2>2. ASSUME NEW d \in Device, DeviceStep(d) PROVE Shared!Next
        BY <2>1, <2>2, StepAdvances DEF Shared!Next
    <2>3. CASE UNCHANGED <<replica, saved>>
        BY <2>1, <2>3 DEF SharedView, View, HasReplica
    <2>4. CASE MailboxStep
        BY <2>1, <2>3, <2>4, MailboxKeepsReplicas
    <2>5. CASE UNCHANGED vars
        BY <2>1, <2>3, <2>5 DEF vars, device
    <2>6. QED
        BY <2>1, <2>2, <2>4, <2>5 DEF Next
<1>3. QED
    BY <1>1, <1>2, SharingInvariant, PTL
       DEF Spec, SharedSpec, Shared!Spec, SharedView
===============================================================================
