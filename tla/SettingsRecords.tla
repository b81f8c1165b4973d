--------------------------- MODULE SettingsRecords ---------------------------
(***************************************************************************)
(* The settings as an app holds them: the records of config_records.rs and *)
(* the scalars of convert.rs, into core and back.  Core's durations are in *)
(* the unit of Second, a record's are whole seconds.  What core makes of a *)
(* record is Accepted(value) or Refused(error), by FfiError's name for it. *)
(***************************************************************************)
EXTENDS PollTuning, AlertRules

CONSTANTS
    MaxCount,       \* the largest count a record holds, u32::MAX
    UnusableNames   \* environments that are empty or contain a "::"

ASSUME RecordsAssumption == MaxCount \in Nat

Accepted(value) == [ok |-> TRUE, value |-> value]
Refused(error) == [ok |-> FALSE, error |-> error]

\* What an app hands over as a tuning: PollTuningRecord.
TuningFields ==
    [liveness : [beat : Int, staleAfter : Nat, downAfter : Nat],
     pollInterval : Int, metricStep : Int, chartWindow : Int,
     maxStaleness : Int, lag : Int, forgetAfter : Int, maxHosts : Nat]

-----------------------------------------------------------------------------
\* duration_to_seconds drops what is below a second; seconds_to_duration
\* refuses what no span can hold.
ToSeconds(d) == d \div Second
FromSeconds(seconds) ==
    IF -DurationMax <= seconds * Second /\ seconds * Second <= DurationMax
    THEN Accepted(seconds * Second) ELSE Refused("Internal")

\* intervals_in: the multiplier a threshold was made with, or a 0 that core
\* will refuse.
IntervalsIn(threshold, interval) ==
    IF interval <= 0 THEN 0
    ELSE IF threshold % interval # 0 \/ threshold \div interval > MaxCount THEN 0
    ELSE threshold \div interval

LivenessRecord(l) ==
    [beat |-> ToSeconds(l.beat),
     staleAfter |-> IntervalsIn(StaleThreshold(l), l.beat),
     downAfter |-> IntervalsIn(DownThreshold(l), l.beat)]

\* A bad policy is a defect of the tuning, not of a rule (as_invalid_tuning).
LivenessFromRecord(record) ==
    LET beat == FromSeconds(record.beat)
        policy == [record EXCEPT !.beat = beat.value]
    IN IF ~beat.ok THEN beat
       ELSE IF LivenessValid(policy) THEN Accepted(policy)
       ELSE Refused("InvalidTuning")

TuningRecord(t) ==
    [liveness |-> LivenessRecord(t.liveness),
     pollInterval |-> ToSeconds(t.pollInterval),
     metricStep |-> ToSeconds(t.metricStep),
     chartWindow |-> ToSeconds(t.chartWindow),
     maxStaleness |-> ToSeconds(t.maxStaleness),
     lag |-> ToSeconds(t.lag),
     forgetAfter |-> ToSeconds(t.forgetAfter),
     maxHosts |-> t.maxHosts]

TuningSpans(record) ==
    << record.pollInterval, record.metricStep, record.chartWindow,
       record.maxStaleness, record.lag, record.forgetAfter >>

TuningFromRecord(record) ==
    LET liveness == LivenessFromRecord(record.liveness)
        tuning == [liveness |-> liveness.value,
                   pollInterval |-> record.pollInterval * Second,
                   metricStep |-> record.metricStep * Second,
                   chartWindow |-> record.chartWindow * Second,
                   maxStaleness |-> record.maxStaleness * Second,
                   lag |-> record.lag * Second,
                   forgetAfter |-> record.forgetAfter * Second,
                   maxHosts |-> record.maxHosts]
    IN IF ~liveness.ok THEN liveness
       ELSE IF \E i \in 1..6 : ~FromSeconds(TuningSpans(record)[i]).ok
       THEN Refused("Internal")
       ELSE IF TuningValid(tuning) THEN Accepted(tuning)
       ELSE Refused("InvalidTuning")

\* poll_tuning_from_liveness, whose result has not been validated.
TuningFromLiveness(record, hour, minute) ==
    LET liveness == LivenessFromRecord(record)
    IN IF ~liveness.ok THEN liveness
       ELSE Accepted(TuningRecord(FromLiveness(liveness.value, hour, minute)))

-----------------------------------------------------------------------------
\* A rule as the rule editor sees it; an id that is no URN is None.
RuleRecord(rule) == [rule EXCEPT !.dwell = ToSeconds(@)]

RuleFromRecord(record) ==
    LET rule == [record EXCEPT !.dwell = @ * Second]
    IN IF record.id = None THEN Refused("InvalidUrn")
       ELSE IF ~FromSeconds(record.dwell).ok THEN Refused("Internal")
       ELSE IF CoreAccepts(rule) THEN Accepted(rule) ELSE Refused("InvalidRule")

\* draft_alert_rule, and validate_alert_rule while one is edited: the half
\* that refuses what could never fire, which loading does not.
DraftRule(environment, fields) ==
    LET rule == [fields EXCEPT !.dwell = @ * Second]
    IN IF ~FromSeconds(fields.dwell).ok THEN Refused("Internal")
       ELSE IF ~ValidRule(rule) THEN Refused("InvalidRule")
       ELSE IF environment \in UnusableNames THEN Refused("InvalidUrn")
       ELSE Accepted(RuleRecord(rule))

ValidateRule(record) ==
    LET rule == RuleFromRecord(record)
    IN IF rule.ok /\ ~ValidRule(rule.value) THEN Refused("InvalidRule") ELSE rule

\* The rule set crosses as JSON, whole, so that ids survive; a text that is no
\* rule set is None.
EncodeRules(rules) == [rules |-> rules]
DecodeRules(json) ==
    IF json # None /\ \A r \in json.rules : CoreAccepts(r)
    THEN Accepted(json.rules) ELSE Refused("InvalidRule")

AlertRulesFromJson(json) ==
    LET rules == DecodeRules(json)
    IN IF rules.ok THEN Accepted({RuleRecord(r) : r \in rules.value}) ELSE rules

AlertRulesToJson(records) ==
    LET made == {RuleFromRecord(r) : r \in records}
    IN IF \E rule \in made : ~rule.ok THEN CHOOSE rule \in made : ~rule.ok
       ELSE Accepted(EncodeRules({rule.value : rule \in made}))

-----------------------------------------------------------------------------
\* FleetConfig: [environment, tuning, rules, overview, detail, focus].  The
\* tuning is judged first, then the environment, then the rules.
ConfigRecord(c) ==
    [environment |-> c.environment, tuning |-> TuningRecord(c.tuning),
     rulesJson |-> EncodeRules(c.rules), overview |-> c.overview,
     detail |-> c.detail, focus |-> c.focus]

ConfigFromRecord(record) ==
    LET tuning == TuningFromRecord(record.tuning)
        rules == DecodeRules(record.rulesJson)
    IN IF ~tuning.ok THEN tuning
       ELSE IF record.environment \in UnusableNames THEN Refused("InvalidConfig")
       ELSE IF ~rules.ok THEN rules
       ELSE Accepted([environment |-> record.environment, tuning |-> tuning.value,
                      rules |-> rules.value, overview |-> record.overview,
                      detail |-> record.detail, focus |-> record.focus])
=============================================================================
