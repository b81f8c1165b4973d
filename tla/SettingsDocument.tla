--------------------------- MODULE SettingsDocument ---------------------------
(***************************************************************************)
(* The settings document that a user's devices share: one stamped entry    *)
(* per synced setting and per alert rule, and the total order under which  *)
(* two copies are merged.  This is the pure part of                        *)
(* pessimal_client_core::settings_sync; it reads no clock and does no I/O. *)
(*                                                                         *)
(* A text (the JSON of a value or of a rule) is a natural number, and the  *)
(* order of the numbers stands for the order of the bytes.  None, which    *)
(* clears a setting or deletes a rule, is 0: the code orders it below      *)
(* every text.  A key that a document lacks is "below every entry", so it  *)
(* is represented by a least entry, Missing.                               *)
(***************************************************************************)
EXTENDS Integers, FiniteSets

CONSTANTS
    Setting,   \* the names of the synced registers
    Rule,      \* the URNs of the alert rules
    Text,      \* the texts a register or a rule entry can hold
    MaxMs,     \* the largest millisecond of a stamp (MAX_MS)
    MaxSeq     \* the largest counter of a stamp (u32::MAX)

ASSUME DocumentAssumption ==
    /\ Setting # {}
    /\ Setting \cap Rule = {}
    /\ IsFiniteSet(Setting \cup Rule)
    /\ Text \subseteq Nat \ {0}
    /\ MaxMs \in Nat
    /\ MaxSeq \in Nat

Key == Setting \cup Rule

None == 0
Payload == Text \cup {None}

Stamp == [ms : 0 .. MaxMs, seq : 0 .. MaxSeq]
Zero == [ms |-> 0, seq |-> 0]

Entry == [at : Stamp, body : Payload]
Missing == [at |-> Zero, body |-> -1]

Document == [Key -> Entry \cup {Missing}]
EmptyDocument == [k \in Key |-> Missing]

-------------------------------------------------------------------------------
(* The orders. *)

Earlier(s, t) == s.ms < t.ms \/ (s.ms = t.ms /\ s.seq < t.seq)

IsTombstone(k, e) == k \in Rule /\ e.body = None

(* A register is ordered by stamp, then value.  A rule entry is ordered by *)
(* rule.is_none() first, so every tombstone is above every live copy.      *)
Below(k, e, f) ==
    \/ ~IsTombstone(k, e) /\ IsTombstone(k, f)
    \/ /\ IsTombstone(k, e) <=> IsTombstone(k, f)
       /\ Earlier(e.at, f.at) \/ (e.at = f.at /\ e.body < f.body)

Larger(k, e, f) == IF Below(k, e, f) THEN f ELSE e

Join(left, right) == [k \in Key |-> Larger(k, left[k], right[k])]

(* right holds everything left holds, or something larger. *)
Covers(right, left) == \A k \in Key : ~Below(k, right[k], left[k])

-------------------------------------------------------------------------------
(* Minting the stamp of a Save. *)

Stamps(doc) == {doc[k].at : k \in Key}

TopStamp(doc) ==
    CHOOSE s \in Stamps(doc) : \A t \in Stamps(doc) : ~Earlier(s, t)

(* Otherwise tick fails with StampSpaceExhausted. *)
CanTick(doc, now) ==
    \/ now > TopStamp(doc).ms
    \/ TopStamp(doc).seq < MaxSeq
    \/ TopStamp(doc).ms < MaxMs

(* Mutant: the clock alone mints the stamp. *)
TickByClock(doc, now) == [ms |-> now, seq |-> 0]

Tick(doc, now) ==
    LET top == TopStamp(doc)
    IN  IF now > top.ms THEN [ms |-> now, seq |-> 0]
        ELSE IF top.seq < MaxSeq THEN [top EXCEPT !.seq = @ + 1]
        ELSE [ms |-> top.ms + 1, seq |-> 0]

===============================================================================
