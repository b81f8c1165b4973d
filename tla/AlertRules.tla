------------------------------ MODULE AlertRules ------------------------------
(***************************************************************************)
(* Alert rules and their evaluation on one host: alert.rs of the core      *)
(* domain, rules.rs and the phases of view.rs in the client.  A rule is a  *)
(* record [id, named, metric, selector, comparator, threshold, dwell,      *)
(* enabled]; named is whether its name has a character that is not blank,  *)
(* and a threshold that is not finite is the value NotFinite.              *)
(***************************************************************************)
EXTENDS Telemetry

CONSTANTS
    NotFinite,     \* NaN or an infinity
    MaxDwell       \* AlertRule::MAX_FOR_DURATION, 365 days

Evaluate(comparator, value, threshold) ==
    CASE comparator = ">"  -> value > threshold
      [] comparator = ">=" -> value >= threshold
      [] comparator = "<"  -> value < threshold
      [] comparator = "<=" -> value <= threshold

\* Every comparator is false against NaN.
Breaches(rule, value) ==
    /\ rule.threshold # NotFinite
    /\ Evaluate(rule.comparator, value, rule.threshold)

\* What AlertRule::new refuses: a rule made or deserialized passed this.
CoreAccepts(rule) ==
    /\ rule.named
    /\ rule.threshold # NotFinite
    /\ 0 <= rule.dwell /\ rule.dwell <= MaxDwell

\* check_fields, behind draft_rule and validate_rule: core's checks, a metric
\* rules may be written on, and a selector that can match.
ValidRule(rule) ==
    /\ CoreAccepts(rule)
    /\ Alertable(rule.metric)
    /\ rule.selector # SelectAnyOf({})

\* rule_fingerprint: the fields a change of which makes a dwell meaningless.
\* The 64-bit hash is taken to tell any two of them apart.
Fingerprint(rule) ==
    [metric |-> rule.metric, comparator |-> rule.comparator,
     threshold |-> rule.threshold, dwell |-> rule.dwell,
     selector |-> rule.selector]

-----------------------------------------------------------------------------
\* AlertState: a phase, and since when a breaching phase breaches.
NoData == [phase |-> "NoData", since |-> None]
Fine == [phase |-> "Ok", since |-> None]
Phases == {"Ok", "Pending", "Firing", "NoData"}

\* A breach as long as the dwell fires.
DwellIsOver(since, now, dwell) == now - since >= dwell

\* A point inside the horizon: no older than max_age, and not of the future.
IsEvidence(point, now, maxAge) ==
    point # None /\ point.at \in (now - maxAge) .. now

\* AlertEvaluation::observe: the state after judging the newest point of the
\* series that is not later than now.
Observe(state, rule, h, points, now, maxAge) ==
    LET point == LatestAt(points, now)
        since == IF state.since = None THEN point.at ELSE state.since
    IN IF ~rule.enabled \/ ~Matches(rule.selector, h) THEN Fine
       ELSE IF ~IsEvidence(point, now, maxAge) THEN NoData
       ELSE IF ~Breaches(rule, point.value) THEN Fine
       ELSE [phase |-> IF DwellIsOver(since, now, rule.dwell) THEN "Firing" ELSE "Pending",
             since |-> since]

\* AlertPhase::sort_rank.
SortRank == [Firing |-> 0, Pending |-> 1, NoData |-> 2, Ok |-> 3]

\* AlertTransition::is_fire and is_resolve, the two worth a notification.
IsFire(from, to) == to = "Firing" /\ from # "Firing"

IsResolve(from, to) == from = "Firing" /\ to = "Ok"

=============================================================================
