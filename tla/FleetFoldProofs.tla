---------------------------- MODULE FleetFoldProofs ----------------------------
(***************************************************************************)
(* Facts about the settings, for every duration, count and multiplier: a    *)
(* configuration of whole seconds comes back from its records as it was,   *)
(* the preset core offers passes its own interlocks, and the interlocks     *)
(* buy what they are for: evidence expires before its host is given up,    *)
(* and a host the roster's window misses is one to be given up.            *)
(*                                                                         *)
(* And what holds of the fold for any fleet, configurations, weathers,     *)
(* outages and bounds: the configuration in force is one core accepts, no  *)
(* evaluation outlives its host, the notifications add up to the state     *)
(* they report, a dwell is one that was watched, the advised wait cuts no  *)
(* dwell short, an outage judges nobody, and no verdict, value or piece of *)
(* news is without evidence of its poll.                                   *)
(***************************************************************************)
EXTENDS FleetFold, ObservationProofs

-----------------------------------------------------------------------------
(***************************************************************************)
(* A policy and a tuning as core holds them; core's integers stand in for  *)
(* its spans, whose range the ceilings keep them well inside of.           *)
(***************************************************************************)
Policy == [beat : Nat, staleAfter : Nat, downAfter : Nat]
Tuning ==
    [liveness : Policy, pollInterval : Int, metricStep : Int, chartWindow : Int,
     maxStaleness : Int, lag : Int, forgetAfter : Int, maxHosts : Int]

Whole(d) == d % Second = 0
WholeTuning(t) ==
    /\ Whole(t.liveness.beat) /\ Whole(t.pollInterval) /\ Whole(t.metricStep)
    /\ Whole(t.chartWindow) /\ Whole(t.maxStaleness) /\ Whole(t.lag)
    /\ Whole(t.forgetAfter)

(* A span of whole seconds comes back from its seconds.                    *)
LEMMA SecondsCross ==
    ASSUME NEW d \in 0 .. DurationMax, Whole(d)
    PROVE  /\ ToSeconds(d) \in Int /\ ToSeconds(d) * Second = d
           /\ FromSeconds(ToSeconds(d)) = Accepted(d)
<1>1. Second \in Nat \ {0} /\ DurationMax \in Nat
    BY TelemetryAssumption, TuningAssumption
<1>2. d \div Second \in Int /\ d = Second * (d \div Second) + (d % Second)
    BY <1>1, DivisionTheorem
<1>3. d = Second * (d \div Second)
    <2>1. Second * (d \div Second) \in Int
        BY <1>1, <1>2
    <2>2. QED BY <1>2, <2>1 DEF Whole
<1>4. (d \div Second) * Second = d
    BY <1>1, <1>2, <1>3
<1>5. QED BY <1>1, <1>2, <1>4 DEF ToSeconds, FromSeconds

(* Below the ceiling nothing has saturated.                                *)
LEMMA BelowTheCeiling ==
    ASSUME NEW d \in Int, Saturated(d) <= MaxTuningDuration
    PROVE  Saturated(d) = d /\ d <= MaxTuningDuration /\ d <= DurationMax
BY TuningAssumption DEF Saturated

(* A multiplier comes back from the threshold it made.                     *)
LEMMA IntervalsCross ==
    ASSUME NEW beat \in Nat \ {0}, NEW n \in 0 .. MaxCount, NEW threshold \in Int,
           threshold = beat * n
    PROVE  IntervalsIn(threshold, beat) = n
<1>1. MaxCount \in Nat
    BY RecordsAssumption
<1>2. threshold % beat = 0 /\ threshold \div beat = n
    BY <1>1, ProductDivides
<1>3. QED BY <1>1, <1>2 DEF IntervalsIn

(* What the interlocks say of a policy: its thresholds are products that   *)
(* have not saturated, and it is one LivenessPolicy::new accepts.          *)
LEMMA UsablePolicy ==
    ASSUME NEW l \in Policy, LivenessUsable(l),
           DownThreshold(l) <= MaxTuningDuration, StaleThreshold(l) <= MaxTuningDuration
    PROVE  /\ l.beat \in Nat \ {0} /\ l.beat <= DurationMax
           /\ StaleThreshold(l) = l.beat * l.staleAfter
           /\ DownThreshold(l) = l.beat * l.downAfter
           /\ l.beat * l.staleAfter \in Nat /\ l.beat * l.downAfter \in Nat
           /\ LivenessValid(l)
           /\ l.staleAfter <= l.downAfter
<1>1. l.beat \in Nat \ {0} /\ l.staleAfter \in Nat /\ l.downAfter \in Nat
    BY DEF Policy, LivenessUsable
<1>2. l.beat * l.staleAfter \in Nat /\ l.beat * l.downAfter \in Nat
    BY <1>1
<1>3. /\ StaleThreshold(l) = l.beat * l.staleAfter
      /\ DownThreshold(l) = l.beat * l.downAfter
    BY <1>2, BelowTheCeiling DEF StaleThreshold, DownThreshold
<1>4. l.beat <= l.beat * l.staleAfter /\ l.beat <= DurationMax
    <2>1. StaleThreshold(l) >= Saturated(3 * l.beat) /\ 3 * l.beat \in Nat
        BY <1>1 DEF LivenessUsable
    <2>2. Saturated(3 * l.beat) <= MaxTuningDuration
        BY <1>2, <1>3, <2>1, TuningAssumption DEF Saturated
    <2>3. Saturated(3 * l.beat) = 3 * l.beat /\ 3 * l.beat <= DurationMax
        BY <2>1, <2>2, BelowTheCeiling
    <2>4. QED BY <1>1, <1>2, <1>3, <2>1, <2>3, TuningAssumption
<1>5. l.staleAfter >= 1
    <2>1. CASE l.staleAfter = 0
        <3>1. l.beat * l.staleAfter = 0
            BY <1>1, <2>1
        <3>2. QED BY <1>1, <1>4, <3>1
    <2>2. QED BY <1>1, <2>1
<1>6. l.staleAfter < l.downAfter
    <2>1. ASSUME l.downAfter <= l.staleAfter PROVE FALSE
        <3>1. l.beat * (l.staleAfter - l.downAfter) \in Nat
            BY <1>1, <2>1
        <3>2. l.beat * (l.staleAfter - l.downAfter)
                = l.beat * l.staleAfter - l.beat * l.downAfter
            BY <1>1, Distributes
        <3>3. QED BY <1>2, <1>3, <3>1, <3>2 DEF LivenessUsable
    <2>2. QED BY <1>1, <2>1
<1>7. QED BY <1>1, <1>2, <1>3, <1>4, <1>5, <1>6 DEF LivenessValid

(* A policy of whole seconds whose multipliers a record can hold crosses.  *)
LEMMA LivenessCrosses ==
    ASSUME NEW l \in Policy, LivenessUsable(l), Whole(l.beat),
           DownThreshold(l) <= MaxTuningDuration, StaleThreshold(l) <= MaxTuningDuration,
           l.downAfter <= MaxCount
    PROVE  LivenessFromRecord(LivenessRecord(l)) = Accepted(l)
<1> DEFINE seconds == ToSeconds(l.beat)
<1>1. /\ l.beat \in Nat \ {0} /\ l.beat <= DurationMax
      /\ StaleThreshold(l) = l.beat * l.staleAfter
      /\ DownThreshold(l) = l.beat * l.downAfter
      /\ l.beat * l.staleAfter \in Nat /\ l.beat * l.downAfter \in Nat
      /\ LivenessValid(l) /\ l.staleAfter <= l.downAfter
    BY UsablePolicy
<1>2. l.staleAfter \in 0 .. MaxCount /\ l.downAfter \in 0 .. MaxCount
    BY <1>1, RecordsAssumption DEF Policy
<1>3. /\ IntervalsIn(StaleThreshold(l), l.beat) = l.staleAfter
      /\ IntervalsIn(DownThreshold(l), l.beat) = l.downAfter
    BY <1>1, <1>2, IntervalsCross
<1>4. LivenessRecord(l) = [beat |-> seconds, staleAfter |-> l.staleAfter,
                           downAfter |-> l.downAfter]
    BY <1>3 DEF LivenessRecord
<1>5. FromSeconds(seconds) = Accepted(l.beat)
    BY <1>1, SecondsCross, TuningAssumption
<1>6. [LivenessRecord(l) EXCEPT !.beat = l.beat] = l
    BY <1>4 DEF Policy
<1>7. LivenessRecord(l).beat = seconds
    BY <1>4
<1>8. FromSeconds(LivenessRecord(l).beat).ok
      /\ FromSeconds(LivenessRecord(l).beat).value = l.beat
    BY <1>5, <1>7 DEF Accepted
<1>9. QED BY <1>1, <1>6, <1>8 DEF LivenessFromRecord

(* The spans of a tuning that passed the interlocks are no less than zero  *)
(* and no more than the ceiling.                                           *)
LEMMA ValidSpans ==
    ASSUME NEW t \in Tuning, TuningValid(t)
    PROVE  /\ t.pollInterval \in 0 .. DurationMax /\ t.metricStep \in 0 .. DurationMax
           /\ t.chartWindow \in 0 .. DurationMax /\ t.maxStaleness \in 0 .. DurationMax
           /\ t.lag \in 0 .. DurationMax /\ t.forgetAfter \in 0 .. DurationMax
           /\ t.liveness \in Policy /\ LivenessUsable(t.liveness)
           /\ DownThreshold(t.liveness) <= MaxTuningDuration
           /\ StaleThreshold(t.liveness) <= MaxTuningDuration
<1>1. /\ t.pollInterval \in Int /\ t.metricStep \in Int /\ t.chartWindow \in Int
      /\ t.maxStaleness \in Int /\ t.lag \in Int /\ t.forgetAfter \in Int
      /\ t.liveness \in Policy
    BY DEF Tuning
<1>2. /\ t.pollInterval <= MaxTuningDuration /\ t.metricStep <= MaxTuningDuration
      /\ t.chartWindow <= MaxTuningDuration /\ t.maxStaleness <= MaxTuningDuration
      /\ t.lag <= MaxTuningDuration /\ t.forgetAfter <= MaxTuningDuration
      /\ DownThreshold(t.liveness) <= MaxTuningDuration
      /\ StaleThreshold(t.liveness) <= MaxTuningDuration
    BY DEF TuningValid, WithinCeiling
<1>3. LivenessUsable(t.liveness) /\ Interlocked(t)
    BY DEF TuningValid
<1>4. t.pollInterval > 0 /\ t.metricStep > 0 /\ t.lag >= 0
    BY <1>1, <1>3, TelemetryAssumption DEF Interlocked
<1>5. t.maxStaleness > 0
    <2>1. t.maxStaleness >= Saturated(3 * t.metricStep)
        BY <1>3 DEF Interlocked
    <2>2. QED BY <1>1, <1>4, <2>1, TuningAssumption DEF Saturated
<1>6. t.chartWindow > 0
    <2>1. t.chartWindow >= Saturated(t.maxStaleness + t.metricStep)
        BY <1>3 DEF Interlocked
    <2>2. QED BY <1>1, <1>4, <1>5, <2>1, TuningAssumption DEF Saturated
<1>7. t.forgetAfter > 0
    <2>1. t.forgetAfter >= DownThreshold(t.liveness)
        BY <1>3 DEF Interlocked
    <2>2. t.maxStaleness <= DownThreshold(t.liveness)
        BY <1>3 DEF Interlocked
    <2>3. DownThreshold(t.liveness) \in Int
        BY <1>1, TuningAssumption DEF DownThreshold, Saturated, Policy
    <2>4. QED BY <1>1, <1>5, <2>1, <2>2, <2>3
<1>8. QED BY <1>1, <1>2, <1>3, <1>4, <1>5, <1>6, <1>7, TuningAssumption

(* What core makes of a tuning an app hands over has the type of one, and  *)
(* passed the interlocks (TryFrom<PollTuningRecord>).                      *)
LEMMA AcceptedTuning ==
    ASSUME NEW record \in TuningFields, TuningFromRecord(record).ok
    PROVE  /\ TuningFromRecord(record).value \in Tuning
           /\ TuningValid(TuningFromRecord(record).value)
           /\ TuningFromRecord(record).value.maxHosts \in Nat
<1> DEFINE given == record.liveness
           beat == FromSeconds(given.beat)
           policy == [given EXCEPT !.beat = beat.value]
           liveness == LivenessFromRecord(given)
           made == [liveness |-> liveness.value,
                    pollInterval |-> record.pollInterval * Second,
                    metricStep |-> record.metricStep * Second,
                    chartWindow |-> record.chartWindow * Second,
                    maxStaleness |-> record.maxStaleness * Second,
                    lag |-> record.lag * Second,
                    forgetAfter |-> record.forgetAfter * Second,
                    maxHosts |-> record.maxHosts]
<1>1. liveness.ok => liveness.value \in Policy
    <2> SUFFICES ASSUME liveness.ok PROVE liveness.value \in Policy
        OBVIOUS
    <2>1. given \in [beat : Int, staleAfter : Nat, downAfter : Nat]
        BY DEF TuningFields
    <2>2. beat.ok => beat.value \in Int
        <3>1. \A d \in Int : d * Second \in Int
            BY TelemetryAssumption
        <3>2. QED BY <2>1, <3>1 DEF FromSeconds, Accepted, Refused
    <2>3. beat.ok /\ LivenessValid(policy) /\ liveness.value = policy
        <3>1. ~beat.ok => liveness = beat
            BY DEF LivenessFromRecord
        <3>2. beat.ok => liveness = IF LivenessValid(policy) THEN Accepted(policy)
                                    ELSE Refused("InvalidTuning")
            BY DEF LivenessFromRecord
        <3> HIDE DEF liveness, beat, policy
        <3>3. QED BY <3>1, <3>2 DEF Accepted, Refused
    <2>4. policy.beat = beat.value /\ policy.beat > 0
        BY <2>1, <2>3 DEF LivenessValid
    <2>5. policy \in [beat : Int, staleAfter : Nat, downAfter : Nat]
        BY <2>1, <2>2, <2>3
    <2> HIDE DEF policy
    <2>6. policy \in Policy
        BY <2>4, <2>5 DEF Policy
    <2>7. QED BY <2>3, <2>6
<1>2. TuningFromRecord(record).ok =>
          liveness.ok /\ TuningValid(made) /\ TuningFromRecord(record) = Accepted(made)
    BY DEF TuningFromRecord, Accepted, Refused
<1>3. made.maxHosts = record.maxHosts
    OBVIOUS
<1>4. /\ record.pollInterval * Second \in Int /\ record.metricStep * Second \in Int
      /\ record.chartWindow * Second \in Int /\ record.maxStaleness * Second \in Int
      /\ record.lag * Second \in Int /\ record.forgetAfter * Second \in Int
      /\ record.maxHosts \in Nat
    BY TelemetryAssumption DEF TuningFields
<1>5. made \in Tuning
    <2> HIDE DEF liveness
    <2>1. QED BY <1>1, <1>2, <1>4 DEF Tuning
<1> HIDE DEF made, liveness
<1>6. QED BY <1>2, <1>3, <1>4, <1>5 DEF Accepted

(* A valid tuning of whole seconds comes back from its record as it was:   *)
(* what an app reads, shows and hands over again is what core had          *)
(* (From<PollTuning> and TryFrom<PollTuningRecord>).                       *)
THEOREM TuningCrosses ==
    ASSUME NEW t \in Tuning, TuningValid(t), WholeTuning(t),
           t.liveness.downAfter <= MaxCount
    PROVE  TuningFromRecord(TuningRecord(t)) = Accepted(t)
<1> DEFINE rec == TuningRecord(t)
<1>1. /\ t.pollInterval \in 0 .. DurationMax /\ t.metricStep \in 0 .. DurationMax
      /\ t.chartWindow \in 0 .. DurationMax /\ t.maxStaleness \in 0 .. DurationMax
      /\ t.lag \in 0 .. DurationMax /\ t.forgetAfter \in 0 .. DurationMax
    BY ValidSpans
<1>2. LivenessFromRecord(LivenessRecord(t.liveness)) = Accepted(t.liveness)
    BY ValidSpans, LivenessCrosses DEF WholeTuning
<1>3. /\ rec.pollInterval * Second = t.pollInterval
      /\ rec.metricStep * Second = t.metricStep
      /\ rec.chartWindow * Second = t.chartWindow
      /\ rec.maxStaleness * Second = t.maxStaleness
      /\ rec.lag * Second = t.lag
      /\ rec.forgetAfter * Second = t.forgetAfter
      /\ rec.maxHosts = t.maxHosts
      /\ rec.liveness = LivenessRecord(t.liveness)
    BY <1>1, SecondsCross DEF TuningRecord, WholeTuning
<1>4. /\ FromSeconds(rec.pollInterval).ok /\ FromSeconds(rec.metricStep).ok
      /\ FromSeconds(rec.chartWindow).ok /\ FromSeconds(rec.maxStaleness).ok
      /\ FromSeconds(rec.lag).ok /\ FromSeconds(rec.forgetAfter).ok
    BY <1>1, SecondsCross DEF TuningRecord, WholeTuning, Accepted
<1>5. \A i \in 1 .. 6 : FromSeconds(TuningSpans(rec)[i]).ok
    <2>1. \A i \in 1 .. 6 :
            TuningSpans(rec)[i] \in {rec.pollInterval, rec.metricStep, rec.chartWindow,
                                     rec.maxStaleness, rec.lag, rec.forgetAfter}
        BY DEF TuningSpans
    <2>2. QED BY <1>4, <2>1
<1>6. LivenessFromRecord(rec.liveness).ok
      /\ LivenessFromRecord(rec.liveness).value = t.liveness
    BY <1>2, <1>3 DEF Accepted
<1>7. [liveness |-> t.liveness, pollInterval |-> t.pollInterval,
       metricStep |-> t.metricStep, chartWindow |-> t.chartWindow,
       maxStaleness |-> t.maxStaleness, lag |-> t.lag,
       forgetAfter |-> t.forgetAfter, maxHosts |-> t.maxHosts] = t
    BY DEF Tuning
<1> HIDE DEF rec
<1>8. TuningFromRecord(rec) = Accepted(t)
    BY <1>3, <1>5, <1>6, <1>7 DEF TuningFromRecord
<1>9. QED BY <1>8 DEF rec

(* A configuration too, with its environment, rules, metrics and focus: no *)
(* edit of a settings screen changes a field it did not touch              *)
(* (FleetConfigRecord).                                                    *)
THEOREM ConfigCrosses ==
    ASSUME NEW environment \in STRING \ UnusableNames, NEW t \in Tuning, NEW rules,
           NEW overview, NEW detail, NEW focus,
           TuningValid(t), WholeTuning(t), t.liveness.downAfter <= MaxCount,
           \A r \in rules : CoreAccepts(r), EncodeRules(rules) # None
    PROVE  LET c == [environment |-> environment, tuning |-> t, rules |-> rules,
                     overview |-> overview, detail |-> detail, focus |-> focus]
           IN ConfigFromRecord(ConfigRecord(c)) = Accepted(c)
<1> DEFINE c == [environment |-> environment, tuning |-> t, rules |-> rules,
                 overview |-> overview, detail |-> detail, focus |-> focus]
           rec == ConfigRecord(c)
<1>1. rec = [environment |-> environment, tuning |-> TuningRecord(t),
             rulesJson |-> EncodeRules(rules), overview |-> overview,
             detail |-> detail, focus |-> focus]
    BY DEF ConfigRecord
<1>2. TuningFromRecord(rec.tuning).ok /\ TuningFromRecord(rec.tuning).value = t
    BY <1>1, TuningCrosses DEF Accepted
<1>3. DecodeRules(rec.rulesJson).ok /\ DecodeRules(rec.rulesJson).value = rules
    BY <1>1 DEF DecodeRules, EncodeRules, Accepted
<1> HIDE DEF rec
<1>4. ConfigFromRecord(rec) = Accepted(c)
    BY <1>1, <1>2, <1>3 DEF ConfigFromRecord
<1>5. QED BY <1>4 DEF rec

-----------------------------------------------------------------------------
(***************************************************************************)
(* What the interlocks are for.                                            *)
(***************************************************************************)
(* The preset passes the interlocks it was derived from whenever a host is *)
(* down, with one more beat, within the hour it charts, beats no faster    *)
(* than a second, and is stale after three beats (PollTuning::from_liveness *)
(* of any other policy is refused where it is used).                       *)
THEOREM PresetIsInterlocked ==
    ASSUME NEW l \in Policy, LivenessValid(l), l.beat >= Second, l.staleAfter >= 3,
           NEW hour \in Nat, NEW minute \in Nat,
           l.beat * l.downAfter + l.beat <= hour,
           24 * hour <= MaxTuningDuration, 3 * minute <= MaxTuningDuration
    PROVE  TuningValid(FromLiveness(l, hour, minute))
<1> DEFINE t == FromLiveness(l, hour, minute)
           stale == l.beat * l.staleAfter
           down == l.beat * l.downAfter
<1>1. l.beat \in Nat \ {0} /\ l.staleAfter \in Nat /\ l.downAfter \in Nat
    BY DEF Policy, LivenessValid
<1>2. stale \in Nat /\ down \in Nat
    BY <1>1
<1>3. 3 * l.beat <= stale
    <2>1. l.beat * (l.staleAfter - 3) \in Nat
        BY <1>1
    <2>2. \A q \in Int : l.beat * (l.staleAfter - q) = stale - l.beat * q
        BY <1>1, Distributes
    <2>3. l.beat * (l.staleAfter - 3) = stale - l.beat * 3
        BY <2>2
    <2>4. QED BY <1>1, <1>2, <2>1, <2>3
<1>4. stale + l.beat <= down
    <2>1. l.downAfter - l.staleAfter \in Nat \ {0}
        BY <1>1 DEF LivenessValid
    <2>2. l.beat * (l.downAfter - l.staleAfter) >= l.beat
        BY <1>1, <2>1, ProductIsAtLeast
    <2>3. l.beat * (l.downAfter - l.staleAfter) = down - stale
        BY <1>1, Distributes
    <2>4. QED BY <1>1, <1>2, <2>2, <2>3
<1> HIDE DEF stale, down
<1>5. down + l.beat <= hour
    BY DEF down
<1>6. StaleThreshold(l) = stale /\ DownThreshold(l) = down
    BY <1>1, <1>2, <1>4, <1>5, TuningAssumption
    DEF StaleThreshold, DownThreshold, Saturated, stale, down
<1>7. /\ t.liveness = l /\ t.pollInterval = l.beat /\ t.metricStep = l.beat
      /\ t.chartWindow = hour /\ t.maxStaleness = down /\ t.lag = 3 * minute
      /\ t.forgetAfter = 24 * hour /\ t.maxHosts = 256
    BY <1>6 DEF FromLiveness
<1> HIDE DEF t
<1>8. WithinCeiling(t)
    BY <1>1, <1>2, <1>4, <1>5, <1>6, <1>7, TuningAssumption DEF WithinCeiling
<1>9. LivenessUsable(t.liveness)
    BY <1>1, <1>2, <1>3, <1>4, <1>5, <1>6, <1>7, TuningAssumption
    DEF LivenessUsable, Saturated
<1>10. Interlocked(t)
    BY <1>1, <1>2, <1>3, <1>4, <1>5, <1>6, <1>7, TuningAssumption, TelemetryAssumption
    DEF Interlocked, Saturated, StalenessTolerance, FreshnessBudget
<1>11. QED BY <1>8, <1>9, <1>10 DEF TuningValid, t

(* A multiple of whole seconds is whole.                                   *)
LEMMA WholeMultiple ==
    ASSUME NEW d \in Nat, NEW k \in Nat, Whole(d)
    PROVE  Whole(d * k)
<1>1. Second \in Nat \ {0}
    BY TelemetryAssumption
<1>2. d \div Second \in Int /\ d = Second * (d \div Second) + (d % Second)
    BY <1>1, DivisionTheorem
<1> DEFINE q == d \div Second
<1>3. q \in Nat /\ d = Second * q
    <2>1. q \in Int /\ Second * q \in Int /\ d = Second * q + 0
        BY <1>1, <1>2 DEF Whole
    <2>2. ~(q <= -1)
        <3>1. ASSUME q <= -1 PROVE FALSE
            <4>1. -q \in Nat \ {0}
                BY <2>1, <3>1
            <4>2. Second * (-q) >= Second
                BY <1>1, <4>1, ProductIsAtLeast
            <4>3. Second * (0 - q) = Second * 0 - Second * q
                BY <1>1, <2>1, Distributes
            <4>4. Second * 0 = 0 /\ -q = 0 - q
                BY <1>1, <2>1
            <4>5. QED BY <1>1, <2>1, <4>2, <4>3, <4>4
        <3>2. QED BY <3>1
    <2>3. QED BY <2>1, <2>2
<1> HIDE DEF q
<1>4. q * k \in Nat /\ d * k = Second * (q * k) /\ d * k \in Int
    BY <1>1, <1>3
<1>5. QED BY <1>1, <1>4, ProductDivides DEF Whole

(* The preset an app is offered for a policy, handed back to core, is the  *)
(* preset: no screen offers a tuning that core then refuses or reads as    *)
(* another one (poll_tuning_from_liveness).                                *)
THEOREM PresetCrosses ==
    ASSUME NEW l \in Policy, LivenessValid(l), Whole(l.beat),
           l.beat >= Second, l.staleAfter >= 3, l.downAfter <= MaxCount,
           NEW hour \in Nat, NEW minute \in Nat, Whole(hour), Whole(minute),
           l.beat * l.downAfter + l.beat <= hour,
           24 * hour <= MaxTuningDuration, 3 * minute <= MaxTuningDuration
    PROVE  TuningFromRecord(TuningFromLiveness(LivenessRecord(l), hour, minute).value)
             = Accepted(FromLiveness(l, hour, minute))
<1> DEFINE t == FromLiveness(l, hour, minute)
<1>1. l.beat \in Nat \ {0} /\ l.staleAfter \in Nat /\ l.downAfter \in Nat
    BY DEF Policy, LivenessValid
<1>2. TuningValid(t)
    BY PresetIsInterlocked
<1>3. /\ t.liveness = l /\ t.pollInterval = l.beat /\ t.metricStep = l.beat
      /\ t.chartWindow = hour /\ t.maxStaleness = DownThreshold(l)
      /\ t.lag = 3 * minute /\ t.forgetAfter = 24 * hour
    BY DEF FromLiveness
<1>4. t \in Tuning
    <2>1. l.beat * l.downAfter \in Nat
        BY <1>1
    <2>2. DownThreshold(l) \in Int
        BY <2>1, TuningAssumption DEF DownThreshold, Saturated
    <2>3. QED BY <1>1, <2>2 DEF FromLiveness, Tuning
<1> HIDE DEF t
<1>5. /\ LivenessUsable(l) /\ DownThreshold(l) <= MaxTuningDuration
      /\ StaleThreshold(l) <= MaxTuningDuration
    BY <1>2, <1>3, <1>4, ValidSpans
<1>6. DownThreshold(l) = l.beat * l.downAfter
    BY <1>5, UsablePolicy
<1>7. Whole(l.beat * l.downAfter) /\ Whole(hour * 24) /\ Whole(minute * 3)
    BY <1>1, WholeMultiple
<1>8. Whole(24 * hour) /\ Whole(3 * minute)
    <2>1. 24 * hour = hour * 24 /\ 3 * minute = minute * 3
        OBVIOUS
    <2>2. QED BY <1>7, <2>1
<1>9. WholeTuning(t)
    BY <1>3, <1>6, <1>7, <1>8 DEF WholeTuning
<1>10. TuningFromRecord(TuningRecord(t)) = Accepted(t)
    BY <1>2, <1>3, <1>4, <1>9, TuningCrosses
<1>11. LivenessFromRecord(LivenessRecord(l)) = Accepted(l)
    BY <1>5, LivenessCrosses
<1>12. TuningFromLiveness(LivenessRecord(l), hour, minute) = Accepted(TuningRecord(t))
    BY <1>11 DEF TuningFromLiveness, Accepted, t
<1>13. QED BY <1>10, <1>12 DEF Accepted, t

(* Evidence expires before its host is given up: what is older than the    *)
(* heartbeat of a host that is Down is beyond the evidence horizon         *)
(* (max_staleness against down_threshold, both with the lag).              *)
LEMMA DownIsBeyondTheHorizon ==
    ASSUME NEW t \in Tuning, TuningValid(t), NEW beat \in Int, NEW now \in Int,
           Liveness(t.liveness, beat, now - t.lag) = "Down"
    PROVE  now - beat > EvidenceHorizon(t)
<1>1. /\ t.maxStaleness \in 0 .. DurationMax /\ t.lag \in 0 .. DurationMax
      /\ t.liveness \in Policy /\ DownThreshold(t.liveness) <= MaxTuningDuration
    BY ValidSpans
<1>2. DownThreshold(t.liveness) \in Int /\ StaleThreshold(t.liveness) \in Int
    BY <1>1, TuningAssumption DEF DownThreshold, StaleThreshold, Saturated, Policy
<1>3. (now - t.lag) - beat > DownThreshold(t.liveness)
    BY <1>1, <1>2 DEF Liveness
<1>4. t.maxStaleness <= DownThreshold(t.liveness)
    BY DEF TuningValid, Interlocked
<1>5. EvidenceHorizon(t) <= t.maxStaleness + t.lag
    BY <1>1, TuningAssumption DEF EvidenceHorizon, Saturated
<1>6. EvidenceHorizon(t) \in Int
    BY <1>1, TuningAssumption DEF EvidenceHorizon, Saturated
<1>7. QED BY <1>1, <1>2, <1>3, <1>4, <1>5, <1>6

(* LatestAt answers with a point of the series, or with None.              *)
LEMMA LatestAtIsAPoint ==
    ASSUME NEW Point, NEW points \in Seq(Point), NEW now
    PROVE  LatestAt(points, now) \in {None} \cup {points[i] : i \in DOMAIN points}
<1> DEFINE seen == {i \in DOMAIN points : points[i].at <= now}
           last == CHOOSE i \in seen : \A j \in seen : j <= i
<1>1. CASE seen = {}
    BY <1>1 DEF LatestAt
<1>2. CASE seen # {}
    <2>1. seen \in SUBSET (1 .. Len(points)) /\ Len(points) \in Nat
        OBVIOUS
    <2>2. \E i \in seen : \A j \in seen : j <= i
        BY <1>2, <2>1, LastOfPositions
    <2>3. last \in seen
        BY <2>2
    <2>4. LatestAt(points, now) = points[last]
        BY <1>2 DEF LatestAt
    <2>5. QED BY <2>3, <2>4
<1>3. QED BY <1>1, <1>2

(* A host that is Down has no alert that breaches: whatever rule is judged *)
(* on what it exported by its last heartbeat, an agent that died takes its *)
(* alerts with it (AlertEvaluation::observe under PollTuning's interlocks). *)
THEOREM DownIsSilent ==
    ASSUME NEW t \in Tuning, TuningValid(t), NEW beat \in Int, NEW now \in Int,
           Liveness(t.liveness, beat, now - t.lag) = "Down",
           NEW points \in Seq([at : Int, value : Int]),
           \A i \in DOMAIN points : points[i].at <= beat,
           NEW state, NEW rule, NEW h
    PROVE  Observe(state, rule, h, points, now, EvidenceHorizon(t)) \in {Fine, NoData}
<1> DEFINE point == LatestAt(points, now)
<1>1. point \in {None} \cup {points[i] : i \in DOMAIN points}
    BY LatestAtIsAPoint
<1> DEFINE Point == [at : Int, value : Int]
<1>0. points \in Seq(Point)
    OBVIOUS
<1>2. ASSUME NEW i \in DOMAIN points
      PROVE  points[i].at \in Int /\ points[i].at <= beat
    <2> HIDE DEF Point
    <2>0. i \in 1 .. Len(points)
        BY <1>0
    <2>9. points[i] \in Point
        BY <1>0, <2>0, ElementOfSeq
    <2>1. points[i] \in [at : Int, value : Int]
        BY <2>9 DEF Point
    <2>2. points[i].at \in Int
        BY <2>1
    <2>3. QED BY <2>2
<1> HIDE DEF point
<1>3. point = None \/ (point.at \in Int /\ point.at <= beat)
    BY <1>1, <1>2
<1>4. EvidenceHorizon(t) \in Int /\ now - beat > EvidenceHorizon(t)
    BY DownIsBeyondTheHorizon, ValidSpans, TuningAssumption
    DEF EvidenceHorizon, Saturated
<1>5. ~IsEvidence(point, now, EvidenceHorizon(t))
    BY <1>3, <1>4 DEF IsEvidence
<1>6. ~IsEvidence(LatestAt(points, now), now, EvidenceHorizon(t))
    BY <1>5 DEF point
<1>7. QED BY <1>6, Zenon DEF Observe

(* A host the roster's window misses is one to be given up: whoever is not *)
(* Down yet has a heartbeat the roster is asked for (PollTuning::host_window). *)
THEOREM RosterCoversTheLiving ==
    ASSUME NEW t \in Tuning, TuningValid(t), NEW beat \in Int, NEW now \in Int,
           Liveness(t.liveness, beat, now - t.lag) # "Down"
    PROVE  now - beat <= HostWindow(t)
<1>1. /\ t.lag \in 0 .. DurationMax /\ t.liveness \in Policy
      /\ LivenessUsable(t.liveness)
      /\ DownThreshold(t.liveness) <= MaxTuningDuration
      /\ StaleThreshold(t.liveness) <= MaxTuningDuration
    BY ValidSpans
<1>2. DownThreshold(t.liveness) \in Int /\ StaleThreshold(t.liveness) \in Int
      /\ t.liveness.beat \in Nat
    BY <1>1, TuningAssumption DEF DownThreshold, StaleThreshold, Saturated, Policy
<1>3. StaleThreshold(t.liveness) < DownThreshold(t.liveness)
    BY <1>1 DEF LivenessUsable
<1>4. (now - t.lag) - beat <= DownThreshold(t.liveness)
    BY <1>1, <1>2, <1>3, TelemetryAssumption DEF Liveness
<1>5. t.lag <= MaxTuningDuration /\ t.liveness.beat <= MaxTuningDuration
    BY DEF TuningValid, WithinCeiling
<1>6. DownThreshold(t.liveness) >= 0
    BY <1>1, UsablePolicy
<1>7. HostWindow(t) = DownThreshold(t.liveness) + 2 * t.liveness.beat + t.lag
    BY <1>1, <1>2, <1>5, <1>6, TuningAssumption DEF HostWindow, Saturated
<1>8. QED BY <1>1, <1>2, <1>4, <1>7

LEMMA BackoffType ==
    ASSUME NEW t \in Tuning, TuningValid(t), NEW failures \in Nat
    PROVE  BackoffAfter(t, failures) \in Nat
<1>1. t.pollInterval \in Nat \ {0}
    BY ValidSpans DEF TuningValid, Interlocked
<1>2. PICK n \in {0, 1, 2, 3, 4, 5} : n = IF failures < 5 THEN failures ELSE 5
    OBVIOUS
<1>3. << 1, 2, 4, 8, 16, 32 >>[1 + n] \in {1, 2, 4, 8, 16, 32}
    OBVIOUS
<1>4. \A k \in {1, 2, 4, 8, 16, 32} : Saturated(t.pollInterval * k) \in Nat
    BY <1>1, TuningAssumption DEF Saturated
<1>5. QED BY <1>2, <1>3, <1>4, TuningAssumption DEF BackoffAfter

(* The back-off waits, never longer than five minutes, and never less long *)
(* after one failure more: a backend that is down is asked again           *)
(* (PollTuning::backoff_after).                                            *)
THEOREM BackoffIsBounded ==
    ASSUME NEW t \in Tuning, TuningValid(t), NEW failures \in Nat
    PROVE  /\ BackoffAfter(t, failures) > 0
           /\ BackoffAfter(t, failures) <= BackoffCeiling
           /\ BackoffAfter(t, failures) <= BackoffAfter(t, failures + 1)
<1>1. t.pollInterval \in Nat \ {0}
    BY ValidSpans DEF TuningValid, Interlocked
<1>2. CASE failures >= 5
    BY <1>1, <1>2, TuningAssumption DEF BackoffAfter, Saturated
<1>3. CASE failures = 0
    BY <1>1, <1>3, TuningAssumption DEF BackoffAfter, Saturated
<1>4. CASE failures = 1
    BY <1>1, <1>4, TuningAssumption DEF BackoffAfter, Saturated
<1>5. CASE failures = 2
    BY <1>1, <1>5, TuningAssumption DEF BackoffAfter, Saturated
<1>6. CASE failures = 3
    BY <1>1, <1>6, TuningAssumption DEF BackoffAfter, Saturated
<1>7. CASE failures = 4
    BY <1>1, <1>7, TuningAssumption DEF BackoffAfter, Saturated
<1>8. QED BY <1>2, <1>3, <1>4, <1>5, <1>6, <1>7

-----------------------------------------------------------------------------
(***************************************************************************)
(* The configuration.                                                      *)
(***************************************************************************)
LEMMA AcceptedIsUsable ==
    ASSUME NEW record, ConfigFromRecord(record).ok
    PROVE  /\ TuningValid(ConfigFromRecord(record).value.tuning)
           /\ ConfigFromRecord(record).value.environment \notin UnusableNames
           /\ \A r \in ConfigFromRecord(record).value.rules : CoreAccepts(r)
<1> DEFINE tuning == TuningFromRecord(record.tuning)
           rules == DecodeRules(record.rulesJson)
<1>1. tuning.ok => TuningValid(tuning.value)
    BY DEF TuningFromRecord, LivenessFromRecord, FromSeconds, Accepted, Refused
<1>2. rules.ok => \A r \in rules.value : CoreAccepts(r)
    BY DEF DecodeRules, Accepted, Refused
<1> HIDE DEF tuning, rules
<1>3. tuning.ok /\ record.environment \notin UnusableNames /\ rules.ok
    BY DEF ConfigFromRecord, Accepted, Refused, tuning, rules
<1>4. ConfigFromRecord(record).value =
        [environment |-> record.environment, tuning |-> tuning.value,
         rules |-> rules.value, overview |-> record.overview,
         detail |-> record.detail, focus |-> record.focus]
    BY <1>3 DEF ConfigFromRecord, Accepted, tuning, rules
<1>5. QED BY <1>1, <1>2, <1>3, <1>4

(* Whatever records an app hands over, the configuration in force passed   *)
(* core's interlocks (set_config, FleetConfig::try_from).                  *)
THEOREM ConfigStaysUsable == Spec => []ConfigIsUsable
<1>1. Init => ConfigIsUsable
    BY AcceptedIsUsable, FoldAssumption DEF Init, ConfigIsUsable, FirstConfig
<1>2. ConfigIsUsable /\ [Next]_vars => ConfigIsUsable'
    <2> SUFFICES ASSUME ConfigIsUsable, [Next]_vars
                 PROVE  ConfigIsUsable'
        OBVIOUS
    <2>1. ASSUME NEW record \in Records, SetConfig(record)
          PROVE  ConfigIsUsable'
        BY <2>1, AcceptedIsUsable DEF SetConfig, ConfigIsUsable
    <2>2. CASE UNCHANGED config
        BY <2>2 DEF ConfigIsUsable
    <2>3. QED BY <2>1, <2>2 DEF Next, vars, Poll, Restart, Forget
<1>3. QED BY <1>1, <1>2, PTL DEF Spec

-----------------------------------------------------------------------------
(***************************************************************************)
(* A fleet and what the user was told of it.  The fields of the fleet are  *)
(* spelled out so that an update of one leaves the others; no evaluation   *)
(* outlives its host; and what was told is what fires.                     *)
(***************************************************************************)
Fields == {"asOf", "advised", "lastClean", "lastRoster", "failures", "lastFailure",
           "polled", "hosts", "series", "evals"}

(* A record keeps its shape when one of its fields is replaced.            *)
RecordOf(S, r) == r \in [S -> {r[x] : x \in S}]

LEMMA RecordExcept ==
    ASSUME NEW S, NEW r, RecordOf(S, r), NEW x \in S, NEW v
    PROVE  /\ RecordOf(S, [r EXCEPT ![x] = v])
           /\ [r EXCEPT ![x] = v][x] = v
           /\ \A y \in S \ {x} : [r EXCEPT ![x] = v][y] = r[y]
<1>1. DOMAIN r = S
    BY DEF RecordOf
<1>2. [r EXCEPT ![x] = v] = [y \in S |-> IF y = x THEN v ELSE r[y]]
    BY <1>1, Zenon DEF RecordOf
<1>3. QED BY <1>2 DEF RecordOf

Shaped(f) == RecordOf(Fields, f)

Housed(f) == \A p \in DOMAIN f.evals : p[1] \in DOMAIN f.hosts

Firing(f) == {p \in DOMAIN f.evals : f.evals[p].state.phase = "Firing"}

HistoryFields == {"judgedBy", "told", "watchedFrom"}
HistoryShaped(h) == RecordOf(HistoryFields, h)

Accounted(f, h) == Shaped(f) /\ Housed(f) /\ HistoryShaped(h) /\ h.told = Firing(f)

Inv == Accounted(fleet, history) /\ Accounted(cache, savedHistory)

LEMMA ShapedExcept ==
    ASSUME NEW f, Shaped(f), NEW x \in Fields, NEW v
    PROVE  /\ Shaped([f EXCEPT ![x] = v])
           /\ [f EXCEPT ![x] = v][x] = v
           /\ \A y \in Fields \ {x} : [f EXCEPT ![x] = v][y] = f[y]
BY RecordExcept DEF Shaped

LEMMA NothingYet == Accounted(NewFleet, NoHistory)
BY DEF Accounted, Shaped, Housed, HistoryShaped, RecordOf, Firing, NewFleet, NoHistory, Fields,
       HistoryFields

-----------------------------------------------------------------------------
(***************************************************************************)
(* The steps of the fold, one lemma each: what becomes of the hosts and of *)
(* the pairs that are evaluated.                                           *)
(***************************************************************************)
(* What is not of the hosts, the series or the evaluations.                *)
Booked == {"asOf", "advised", "lastClean", "lastRoster", "failures", "lastFailure",
           "polled"}
SameBooks(f, g) == \A x \in Booked : g[x] = f[x]

LEMMA FieldsAre ==
    /\ Booked \subseteq Fields /\ "hosts" \in Fields \ Booked
    /\ "series" \in Fields \ Booked /\ "evals" \in Fields \ Booked
BY DEF Booked, Fields

(* One field that is not of the books is replaced.                         *)
LEMMA OneFieldOf ==
    ASSUME NEW f, Shaped(f), NEW v, NEW g
    PROVE  /\ g = [f EXCEPT !.hosts = v] =>
              Shaped(g) /\ SameBooks(f, g) /\ g.hosts = v
              /\ g.series = f.series /\ g.evals = f.evals
           /\ g = [f EXCEPT !.series = v] =>
              Shaped(g) /\ SameBooks(f, g) /\ g.hosts = f.hosts
              /\ g.series = v /\ g.evals = f.evals
           /\ g = [f EXCEPT !.evals = v] =>
              Shaped(g) /\ SameBooks(f, g) /\ g.hosts = f.hosts
              /\ g.series = f.series /\ g.evals = v
<1>1. ASSUME NEW x \in Fields \ Booked, g = [f EXCEPT ![x] = v]
      PROVE  /\ Shaped(g) /\ g[x] = v /\ SameBooks(f, g)
             /\ \A y \in Fields \ {x} : g[y] = f[y]
    <2>1. x \in Fields
        OBVIOUS
    <2>2. /\ Shaped([f EXCEPT ![x] = v]) /\ [f EXCEPT ![x] = v][x] = v
          /\ \A y \in Fields \ {x} : [f EXCEPT ![x] = v][y] = f[y]
        BY <2>1, ShapedExcept
    <2>3. Shaped(g) /\ g[x] = v /\ \A y \in Fields \ {x} : g[y] = f[y]
        BY ONLY <1>1, <2>2
    <2>4. QED BY <2>3, FieldsAre DEF SameBooks
<1>3. g = [f EXCEPT !.hosts = v] =>
          Shaped(g) /\ SameBooks(f, g) /\ g.hosts = v
          /\ g.series = f.series /\ g.evals = f.evals
    BY <1>1, FieldsAre
<1>4. g = [f EXCEPT !.series = v] =>
          Shaped(g) /\ SameBooks(f, g) /\ g.hosts = f.hosts
          /\ g.series = v /\ g.evals = f.evals
    BY <1>1, FieldsAre
<1>5. g = [f EXCEPT !.evals = v] =>
          Shaped(g) /\ SameBooks(f, g) /\ g.hosts = f.hosts
          /\ g.series = f.series /\ g.evals = v
    BY <1>1, FieldsAre
<1>6. QED BY <1>3, <1>4, <1>5

(* Step 1: after a blind gap every evaluation starts over.                 *)
StartedOver(evals) == [p \in DOMAIN evals |-> FreshEvaluation(evals[p].fingerprint)]

LEMMA ResetOf ==
    ASSUME NEW f, Shaped(f), NEW now, NEW t
    PROVE  LET g == ResetAfterBlindGap(f, now, t)
           IN /\ Shaped(g) /\ SameBooks(f, g) /\ g.hosts = f.hosts
              /\ g.evals = IF IsBlindGap(f, now, t) THEN StartedOver(f.evals) ELSE f.evals
<1>1. SameBooks(f, f)
    BY DEF SameBooks
<1>2. ResetAfterBlindGap(f, now, t)
        = IF IsBlindGap(f, now, t) THEN [f EXCEPT !.evals = StartedOver(f.evals)] ELSE f
    BY DEF ResetAfterBlindGap, StartedOver
<1>3. QED BY <1>1, <1>2, OneFieldOf

(* What is left of the hosts, and of what is kept by pairs.                *)
HostsKept(m, kept) == [h \in kept |-> m[h]]
PairsKept(m, kept) == [p \in {q \in DOMAIN m : q[1] \in kept} |-> m[p]]

LEMMA KeepHostsOf ==
    ASSUME NEW f, Shaped(f), NEW kept, NEW g, g = KeepHosts(f, kept)
    PROVE  /\ Shaped(g) /\ SameBooks(f, g)
           /\ g.hosts = HostsKept(f.hosts, kept)
           /\ g.series = PairsKept(f.series, kept)
           /\ g.evals = PairsKept(f.evals, kept)
<1> DEFINE f1 == [f EXCEPT !.hosts = HostsKept(f.hosts, kept)]
           f2 == [f1 EXCEPT !.series = PairsKept(f1.series, kept)]
           f3 == [f2 EXCEPT !.evals = PairsKept(f2.evals, kept)]
<1>1. KeepHosts(f, kept) = f3
    BY DEF KeepHosts, Restrict, HostsKept, PairsKept
<1>2. /\ Shaped(f1) /\ SameBooks(f, f1) /\ f1.hosts = HostsKept(f.hosts, kept)
      /\ f1.series = f.series /\ f1.evals = f.evals
    BY OneFieldOf
<1> HIDE DEF f1
<1>3. /\ Shaped(f2) /\ SameBooks(f1, f2) /\ f2.hosts = f1.hosts
      /\ f2.series = PairsKept(f.series, kept) /\ f2.evals = f.evals
    BY <1>2, OneFieldOf
<1> HIDE DEF f2
<1>4. /\ Shaped(f3) /\ SameBooks(f2, f3) /\ f3.hosts = f2.hosts
      /\ f3.series = f2.series /\ f3.evals = PairsKept(f.evals, kept)
    BY <1>3, OneFieldOf
<1> HIDE DEF f3
<1>5. SameBooks(f, f3)
    BY <1>2, <1>3, <1>4 DEF SameBooks
<1>6. QED BY <1>1, <1>2, <1>3, <1>4, <1>5

(* Steps 2 and 3: the hosts a roster leaves, and the pairs of those.       *)
JudgedHosts(f, o, t) == Judged(Sighted(f, o.roster.hosts, o.at), o.at, t)
HostsAfter(f, o, t) ==
    IF o.roster.kind # "Listed" THEN f.hosts
    ELSE HostsKept(JudgedHosts(f, o, t), Retained(JudgedHosts(f, o, t), o.at, t))

LEMMA RosterOf ==
    ASSUME NEW f, Shaped(f), NEW o, NEW t
    PROVE  LET g == ApplyRoster(f, o, t)
           IN /\ Shaped(g) /\ SameBooks(f, g) /\ g.hosts = HostsAfter(f, o, t)
              /\ \A p : p[1] \in DOMAIN g.hosts =>
                    /\ p \in DOMAIN g.evals <=> p \in DOMAIN f.evals
                    /\ p \in DOMAIN f.evals => g.evals[p] = f.evals[p]
<1> DEFINE judged == JudgedHosts(f, o, t)
           kept == Retained(judged, o.at, t)
           f1 == [f EXCEPT !.hosts = judged]
<1>1. CASE o.roster.kind # "Listed"
    <2>1. SameBooks(f, f)
        BY DEF SameBooks
    <2>2. QED BY <1>1, <2>1 DEF ApplyRoster, HostsAfter
<1>2. CASE o.roster.kind = "Listed"
    <2>1. ApplyRoster(f, o, t) = KeepHosts(f1, kept)
        BY <1>2 DEF ApplyRoster, JudgedHosts
    <2>2. HostsAfter(f, o, t) = HostsKept(judged, kept)
        BY <1>2 DEF HostsAfter
    <2> HIDE DEF judged, kept
    <2>3. /\ Shaped(f1) /\ SameBooks(f, f1) /\ f1.hosts = judged /\ f1.evals = f.evals
        BY OneFieldOf
    <2> HIDE DEF f1
    <2> DEFINE g == KeepHosts(f1, kept)
    <2> HIDE DEF g
    <2>4. /\ Shaped(g) /\ SameBooks(f1, g) /\ g.hosts = HostsKept(judged, kept)
          /\ g.evals = PairsKept(f.evals, kept)
        BY <2>3, KeepHostsOf DEF g
    <2>5. SameBooks(f, g)
        BY <2>3, <2>4 DEF SameBooks
    <2>6. DOMAIN g.hosts = kept
        BY <2>4 DEF HostsKept
    <2>7. \A p : p[1] \in kept =>
            /\ p \in DOMAIN g.evals <=> p \in DOMAIN f.evals
            /\ p \in DOMAIN f.evals => g.evals[p] = f.evals[p]
        BY <2>4 DEF PairsKept
    <2>8. QED BY <2>1, <2>2, <2>4, <2>5, <2>6, <2>7 DEF g
<1>3. QED BY <1>1, <1>2

(* Step 4: the pairs worth judging, each with the rule as it is now.       *)
PrintOf(cfg, p) == Fingerprint(RuleOf(cfg, p[2]))
RuleIds(cfg) == {r.id : r \in cfg.rules}
WantedPairs(f, cfg) ==
    {p \in (DOMAIN f.hosts) \X RuleIds(cfg) : Judgeable(RuleOf(cfg, p[2]), p[1])}
Reconciled(evals, cfg, p) ==
    IF p \in DOMAIN evals /\ evals[p].fingerprint = PrintOf(cfg, p)
    THEN evals[p] ELSE FreshEvaluation(PrintOf(cfg, p))

LEMMA ReconcileOf ==
    ASSUME NEW f, Shaped(f), NEW cfg
    PROVE  LET g == ReconcileEvaluations(f, cfg)
           IN /\ Shaped(g) /\ SameBooks(f, g) /\ g.hosts = f.hosts
              /\ g.evals = [p \in WantedPairs(f, cfg) |-> Reconciled(f.evals, cfg, p)]
<1>1. ReconcileEvaluations(f, cfg)
        = [f EXCEPT !.evals = [p \in WantedPairs(f, cfg) |-> Reconciled(f.evals, cfg, p)]]
    BY DEF ReconcileEvaluations, WantedPairs, Reconciled, PrintOf, RuleIds
<1>2. QED BY <1>1, OneFieldOf

(* Step 5.                                                                 *)
LEMMA StoreSeriesOf ==
    ASSUME NEW f, Shaped(f), NEW cfg, NEW o
    PROVE  LET g == StoreSeries(f, cfg, o)
           IN /\ Shaped(g) /\ SameBooks(f, g) /\ g.hosts = f.hosts /\ g.evals = f.evals
              /\ \A p \in DOMAIN g.series : p[1] \in DOMAIN f.hosts
<1> DEFINE pairs == UNION {{h} \X PlannedMetricsFor(cfg, h) : h \in DOMAIN f.hosts}
           series == [p \in pairs |-> StoreMetric(f, o, p[1], p[2])]
<1>1. StoreSeries(f, cfg, o) = [f EXCEPT !.series = series]
    BY DEF StoreSeries
<1>2. \A p \in pairs : p[1] \in DOMAIN f.hosts
    OBVIOUS
<1>3. DOMAIN series = pairs
    OBVIOUS
<1> HIDE DEF series, pairs
<1>4. QED BY <1>1, <1>2, <1>3, OneFieldOf

(* Step 6.                                                                 *)
Observed(stored, o, cfg, p) ==
    ObserveAlert(stored, o, RuleOf(cfg, p[2]), p[1], cfg.tuning)

LEMMA ObserveAlertsOf ==
    ASSUME NEW f, Shaped(f), NEW cfg, NEW o
    PROVE  LET g == ObserveAlerts(f, cfg, o)
           IN /\ Shaped(g) /\ SameBooks(f, g)
              /\ g.hosts = f.hosts /\ g.series = f.series
              /\ g.evals = [p \in DOMAIN f.evals |-> Observed(f.evals[p], o, cfg, p)]
<1>1. ObserveAlerts(f, cfg, o)
        = [f EXCEPT !.evals = [p \in DOMAIN f.evals |-> Observed(f.evals[p], o, cfg, p)]]
    BY DEF ObserveAlerts, Observed
<1>2. QED BY <1>1, OneFieldOf

(* Step 7: the books alone.                                                *)
Unbooked(f, g) ==
    Shaped(g) /\ g.hosts = f.hosts /\ g.series = f.series /\ g.evals = f.evals

LEMMA BookingOf ==
    ASSUME NEW f, Shaped(f), NEW x \in Booked, NEW v
    PROVE  /\ Unbooked(f, [f EXCEPT ![x] = v])
           /\ [f EXCEPT ![x] = v][x] = v
           /\ \A y \in Booked \ {x} : [f EXCEPT ![x] = v][y] = f[y]
<1>1. x \in Fields /\ {"hosts", "series", "evals"} \subseteq Fields \ {x}
      /\ Booked \subseteq Fields
    BY FieldsAre
<1>2. QED BY <1>1, ShapedExcept DEF Unbooked

LEMMA BookkeepingOf ==
    ASSUME NEW f, Shaped(f), NEW o
    PROVE  LET g == RecordBookkeeping(f, o)
           IN /\ Unbooked(f, g)
              /\ g.asOf = o.at /\ g.polled = TRUE
              /\ g.lastRoster \in {o.at, f.lastRoster}
              /\ g.lastClean \in {o.at, f.lastClean}
              /\ g.failures = 0 \/ g.failures = f.failures + 1
<1> DEFINE f1 == [f EXCEPT !.asOf = o.at]
           f2 == [f1 EXCEPT !.lastRoster = IF o.roster.kind = "Listed" THEN o.at ELSE @]
           f3 == [f2 EXCEPT !.lastClean = IF IsClean(o) THEN o.at ELSE @]
           f4 == [f3 EXCEPT !.failures = IF Failures(o) = {} THEN 0 ELSE @ + 1]
           f5 == [f4 EXCEPT !.lastFailure = WorstFailure(Failures(o))]
           f6 == [f5 EXCEPT !.polled = TRUE]
<1>1. RecordBookkeeping(f, o) = f6
    BY DEF RecordBookkeeping
<1>2. /\ Unbooked(f, f1) /\ f1.asOf = o.at
      /\ f1.lastRoster = f.lastRoster /\ f1.lastClean = f.lastClean
      /\ f1.failures = f.failures
    BY BookingOf DEF Booked
<1> HIDE DEF f1
<1>3. /\ Unbooked(f1, f2) /\ f2.asOf = f1.asOf
      /\ f2.lastRoster \in {o.at, f1.lastRoster} /\ f2.lastClean = f1.lastClean
      /\ f2.failures = f1.failures
    BY <1>2, BookingOf DEF Booked, Unbooked
<1> HIDE DEF f2
<1>4. /\ Unbooked(f2, f3) /\ f3.asOf = f2.asOf /\ f3.lastRoster = f2.lastRoster
      /\ f3.lastClean \in {o.at, f2.lastClean} /\ f3.failures = f2.failures
    BY <1>3, BookingOf DEF Booked, Unbooked
<1> HIDE DEF f3
<1>5. /\ Unbooked(f3, f4) /\ f4.asOf = f3.asOf /\ f4.lastRoster = f3.lastRoster
      /\ f4.lastClean = f3.lastClean
      /\ f4.failures = 0 \/ f4.failures = f3.failures + 1
    BY <1>4, BookingOf DEF Booked, Unbooked
<1> HIDE DEF f4
<1>6. /\ Unbooked(f4, f5) /\ f5.asOf = f4.asOf /\ f5.lastRoster = f4.lastRoster
      /\ f5.lastClean = f4.lastClean /\ f5.failures = f4.failures
    BY <1>5, BookingOf DEF Booked, Unbooked
<1> HIDE DEF f5
<1>7. /\ Unbooked(f5, f6) /\ f6.asOf = f5.asOf /\ f6.lastRoster = f5.lastRoster
      /\ f6.lastClean = f5.lastClean /\ f6.failures = f5.failures /\ f6.polled = TRUE
    BY <1>6, BookingOf DEF Booked, Unbooked
<1> HIDE DEF f6
<1>8. QED BY <1>1, <1>2, <1>3, <1>4, <1>5, <1>6, <1>7 DEF Unbooked

(* The fold: the hosts its roster leaves, the pairs of those worth judging *)
(* under the configuration, each observed from what was known of it, and   *)
(* the books of the poll.                                                  *)
Prior(f, o, cfg, p) ==
    IF /\ p \in DOMAIN f.evals /\ f.evals[p].fingerprint = PrintOf(cfg, p)
       /\ ~IsBlindGap(f, o.at, cfg.tuning)
    THEN f.evals[p] ELSE FreshEvaluation(PrintOf(cfg, p))

BooksAfter(f, o, cfg, g) ==
    /\ g.asOf = o.at /\ g.polled = TRUE
    /\ g.lastRoster \in {o.at, f.lastRoster}
    /\ g.lastClean \in {o.at, f.lastClean}
    /\ g.failures = 0 \/ g.failures = f.failures + 1
    /\ \E b : b.failures = g.failures
              /\ g.advised = o.at + Advice(b, cfg.tuning).after

LEMMA ApplyOf ==
    ASSUME NEW f, Shaped(f), NEW cfg, NEW o
    PROVE  LET u == Apply(f, cfg, o)
               g == u.fleet
           IN /\ Shaped(g) /\ g.hosts = HostsAfter(f, o, cfg.tuning)
              /\ \A p \in DOMAIN g.series : p[1] \in DOMAIN g.hosts
              /\ DOMAIN g.evals \subseteq (DOMAIN g.hosts) \X RuleIds(cfg)
              /\ \A p \in DOMAIN g.evals :
                    /\ Judgeable(RuleOf(cfg, p[2]), p[1])
                    /\ g.evals[p] = Observed(Prior(f, o, cfg, p), o, cfg, p)
              /\ BooksAfter(f, o, cfg, g)
              /\ u.transitions = TransitionsSince(f.evals, g.evals)
<1> DEFINE t == cfg.tuning
           reset == ResetAfterBlindGap(f, o.at, t)
           rostered == ApplyRoster(reset, o, t)
           reconciled == ReconcileEvaluations(rostered, cfg)
           stored == StoreSeries(reconciled, cfg, o)
           observed == ObserveAlerts(stored, cfg, o)
           booked == RecordBookkeeping(observed, o)
           advised == [booked EXCEPT !.advised = o.at + Advice(booked, t).after]
<1>1. Apply(f, cfg, o) = [fleet |-> advised,
                          transitions |-> TransitionsSince(f.evals, booked.evals)]
    BY DEF Apply
<1>2. /\ Shaped(reset) /\ SameBooks(f, reset) /\ reset.hosts = f.hosts
      /\ reset.evals = IF IsBlindGap(f, o.at, t) THEN StartedOver(f.evals) ELSE f.evals
    BY ResetOf
<1>3. HostsAfter(reset, o, t) = HostsAfter(f, o, t)
    BY <1>2 DEF HostsAfter, JudgedHosts, Sighted
<1> HIDE DEF reset
<1>4. /\ Shaped(rostered) /\ SameBooks(reset, rostered)
      /\ rostered.hosts = HostsAfter(f, o, t)
      /\ \A p : p[1] \in DOMAIN rostered.hosts =>
            /\ p \in DOMAIN rostered.evals <=> p \in DOMAIN reset.evals
            /\ p \in DOMAIN reset.evals => rostered.evals[p] = reset.evals[p]
    BY <1>2, <1>3, RosterOf
<1> HIDE DEF rostered
<1>5. /\ Shaped(reconciled) /\ SameBooks(rostered, reconciled)
      /\ reconciled.hosts = rostered.hosts
      /\ reconciled.evals = [p \in WantedPairs(rostered, cfg) |->
                               Reconciled(rostered.evals, cfg, p)]
    BY <1>4, ReconcileOf
<1> HIDE DEF reconciled
<1>6. /\ Shaped(stored) /\ SameBooks(reconciled, stored)
      /\ stored.hosts = reconciled.hosts /\ stored.evals = reconciled.evals
      /\ \A p \in DOMAIN stored.series : p[1] \in DOMAIN reconciled.hosts
    BY <1>5, StoreSeriesOf
<1> HIDE DEF stored
<1>7. /\ Shaped(observed) /\ SameBooks(stored, observed)
      /\ observed.hosts = stored.hosts /\ observed.series = stored.series
      /\ observed.evals = [p \in DOMAIN stored.evals |->
                             Observed(stored.evals[p], o, cfg, p)]
    BY <1>6, ObserveAlertsOf
<1> HIDE DEF observed
<1>8. /\ Unbooked(observed, booked) /\ booked.asOf = o.at /\ booked.polled = TRUE
      /\ booked.lastRoster \in {o.at, observed.lastRoster}
      /\ booked.lastClean \in {o.at, observed.lastClean}
      /\ booked.failures = 0 \/ booked.failures = observed.failures + 1
    BY <1>7, BookkeepingOf
<1> HIDE DEF booked
<1>9. /\ Unbooked(booked, advised) /\ advised.asOf = booked.asOf
      /\ advised.polled = booked.polled /\ advised.lastRoster = booked.lastRoster
      /\ advised.lastClean = booked.lastClean /\ advised.failures = booked.failures
      /\ advised.advised = o.at + Advice(booked, t).after
    BY <1>8, BookingOf DEF Booked, Unbooked
<1> HIDE DEF advised
<1>10. SameBooks(f, observed)
    BY <1>2, <1>4, <1>5, <1>6, <1>7 DEF SameBooks
<1>11. /\ observed.lastRoster = f.lastRoster /\ observed.lastClean = f.lastClean
       /\ observed.failures = f.failures
    BY <1>10 DEF SameBooks, Booked
<1>12. DOMAIN advised.evals = WantedPairs(rostered, cfg)
    BY <1>5, <1>6, <1>7, <1>8, <1>9 DEF Unbooked
<1>13. advised.hosts = rostered.hosts
    BY <1>5, <1>6, <1>7, <1>8, <1>9 DEF Unbooked
<1>14. /\ WantedPairs(rostered, cfg) \subseteq (DOMAIN rostered.hosts) \X RuleIds(cfg)
       /\ \A p \in WantedPairs(rostered, cfg) : Judgeable(RuleOf(cfg, p[2]), p[1])
    BY DEF WantedPairs
<1>15. ASSUME NEW p \in WantedPairs(rostered, cfg)
       PROVE  Reconciled(rostered.evals, cfg, p) = Prior(f, o, cfg, p)
    <2>1. p[1] \in DOMAIN rostered.hosts
        BY <1>14
    <2>2. DOMAIN reset.evals = DOMAIN f.evals
        BY <1>2 DEF StartedOver
    <2>3. p \in DOMAIN rostered.evals <=> p \in DOMAIN f.evals
        BY <1>4, <2>1, <2>2
    <2>4. CASE p \notin DOMAIN f.evals
        BY <2>3, <2>4 DEF Reconciled, Prior
    <2>5. CASE p \in DOMAIN f.evals /\ ~IsBlindGap(f, o.at, t)
        <3>1. rostered.evals[p] = f.evals[p]
            BY <1>2, <1>4, <2>1, <2>2, <2>5
        <3>2. QED BY <2>3, <2>5, <3>1 DEF Reconciled, Prior
    <2>6. CASE p \in DOMAIN f.evals /\ IsBlindGap(f, o.at, t)
        <3>1. rostered.evals[p] = FreshEvaluation(f.evals[p].fingerprint)
            BY <1>2, <1>4, <2>1, <2>2, <2>6 DEF StartedOver
        <3>2. rostered.evals[p].fingerprint = f.evals[p].fingerprint
            BY <3>1 DEF FreshEvaluation
        <3>3. Reconciled(rostered.evals, cfg, p) = FreshEvaluation(PrintOf(cfg, p))
            BY <3>1, <3>2 DEF Reconciled
        <3>4. QED BY <2>6, <3>3 DEF Prior
    <2>7. QED BY <2>4, <2>5, <2>6
<1>16. ASSUME NEW p \in DOMAIN advised.evals
       PROVE  advised.evals[p] = Observed(Prior(f, o, cfg, p), o, cfg, p)
    <2>1. advised.evals = observed.evals /\ stored.evals = reconciled.evals
        BY <1>6, <1>8, <1>9 DEF Unbooked
    <2>2. p \in DOMAIN stored.evals /\ stored.evals[p] = Reconciled(rostered.evals, cfg, p)
        BY <1>5, <1>12, <2>1
    <2>3. QED BY <1>7, <1>12, <1>15, <2>1, <2>2
<1>17. \A p \in DOMAIN advised.series : p[1] \in DOMAIN advised.hosts
    BY <1>5, <1>6, <1>7, <1>8, <1>9 DEF Unbooked
<1>18. booked.evals = advised.evals
    BY <1>9 DEF Unbooked
<1>19. Shaped(advised)
    BY <1>9 DEF Unbooked
<1>20. BooksAfter(f, o, cfg, advised)
    <2>1. \E b : b.failures = advised.failures
                /\ advised.advised = o.at + Advice(b, t).after
        BY <1>9
    <2>2. /\ advised.asOf = o.at /\ advised.polled = TRUE
          /\ advised.lastRoster \in {o.at, f.lastRoster}
          /\ advised.lastClean \in {o.at, f.lastClean}
          /\ advised.failures = 0 \/ advised.failures = f.failures + 1
        BY <1>8, <1>9, <1>11
    <2>3. QED BY <2>1, <2>2 DEF BooksAfter
<1>21. Apply(f, cfg, o).fleet = advised
       /\ Apply(f, cfg, o).transitions = TransitionsSince(f.evals, advised.evals)
    BY <1>1, <1>18
<1>22. QED BY <1>4, <1>12, <1>13, <1>14, <1>16, <1>17, <1>19, <1>20, <1>21

-----------------------------------------------------------------------------
(***************************************************************************)
(* Each action keeps the account.                                          *)
(***************************************************************************)
(* What was told before, and the news of a fold, make what fires after it. *)
Fired(transitions) == {n.pair : n \in {m \in transitions : IsFire(m.from, m.to)}}
Ended(transitions) == {n.pair : n \in {m \in transitions : m.to # "Firing"}}

LEMMA NewsAddUp ==
    ASSUME NEW f, NEW g, NEW transitions,
           transitions = TransitionsSince(f.evals, g.evals)
    PROVE  ((Firing(f) \cup Fired(transitions)) \ Ended(transitions))
              \cap DOMAIN g.evals = Firing(g)
<1> DEFINE before == f.evals
           evals == g.evals
           note(p) == [pair |-> p, from |-> PhaseOf(before, p),
                       to |-> evals[p].state.phase]
<1>1. \A n : n \in transitions <=>
          \E p \in DOMAIN evals : n = note(p) /\ PhaseOf(before, p) # evals[p].state.phase
    BY DEF TransitionsSince
<1>2. \A p : note(p).pair = p /\ note(p).from = PhaseOf(before, p)
             /\ note(p).to = evals[p].state.phase
    OBVIOUS
<1> HIDE DEF note
<1>3. \A p \in DOMAIN evals :
          p \in Fired(transitions) <=> /\ PhaseOf(before, p) # "Firing"
                                       /\ evals[p].state.phase = "Firing"
    BY <1>1, <1>2 DEF IsFire, Fired
<1>4. \A p \in DOMAIN evals :
          p \in Ended(transitions) <=> /\ PhaseOf(before, p) # evals[p].state.phase
                                       /\ evals[p].state.phase # "Firing"
    BY <1>1, <1>2 DEF Ended
<1>5. \A p : p \in Firing(f) <=> PhaseOf(before, p) = "Firing"
    BY DEF PhaseOf, Firing
<1>6. QED BY <1>3, <1>4, <1>5 DEF Firing

LEMMA PollAccounts ==
    ASSUME Inv, NEW late, NEW weather, NEW outage, NEW saved,
           Poll(late, weather, outage, saved)
    PROVE  Inv'
<1> PICK now, update : /\ update = Apply(fleet, config, obs')
                       /\ fleet' = update.fleet
                       /\ history' = Remembered(update, now)
    BY DEF Poll
<1>1. /\ Shaped(fleet') /\ Housed(fleet')
      /\ update.transitions = TransitionsSince(fleet.evals, fleet'.evals)
    <2>1. Shaped(fleet)
        BY DEF Inv, Accounted
    <2>2. /\ Shaped(fleet') /\ DOMAIN fleet'.evals \subseteq (DOMAIN fleet'.hosts) \X RuleIds(config)
          /\ update.transitions = TransitionsSince(fleet.evals, fleet'.evals)
        BY <2>1, ApplyOf
    <2>3. QED BY <2>2 DEF Housed
<1>2. history.told = Firing(fleet)
    BY DEF Inv, Accounted
<1>3. HistoryShaped(history')
    BY DEF Remembered, HistoryShaped, RecordOf, HistoryFields
<1>4. history'.told = Firing(fleet')
    <2>1. history'.told = ((history.told \cup Fired(update.transitions))
                             \ Ended(update.transitions)) \cap DOMAIN fleet'.evals
        BY DEF Remembered, Fired, Ended
    <2>2. QED BY <1>1, <1>2, <2>1, NewsAddUp
<1>5. Accounted(fleet', history')
    BY <1>1, <1>3, <1>4 DEF Accounted
<1>6. \/ cache' = fleet' /\ savedHistory' = history'
      \/ UNCHANGED << cache, savedHistory >>
    BY DEF Poll
<1>7. QED BY <1>5, <1>6 DEF Inv

LEMMA RestartAccounts ==
    ASSUME Inv, NEW readable, Restart(readable)
    PROVE  Inv'
<1>1. CASE readable
    <2>1. fleet' = [cache EXCEPT !.polled = FALSE] /\ history' = savedHistory
        BY <1>1 DEF Restart, Restore
    <2>2. /\ Shaped(fleet') /\ fleet'.hosts = cache.hosts /\ fleet'.evals = cache.evals
        BY <2>1, ShapedExcept DEF Inv, Accounted, Fields
    <2>3. Accounted(fleet', history')
        BY <2>1, <2>2 DEF Inv, Accounted, Housed, Firing
    <2>4. QED BY <2>3 DEF Inv, Restart
<1>2. CASE ~readable
    <2>1. fleet' = NewFleet /\ history' = NoHistory
        BY <1>2 DEF Restart, Restore
    <2>2. QED BY <2>1, NothingYet DEF Inv, Restart
<1>3. QED BY <1>1, <1>2

LEMMA ForgetAccounts ==
    ASSUME Inv, NEW h, Forget(h)
    PROVE  Inv'
<1> DEFINE kept == DOMAIN fleet.hosts \ {h}
           after == {p \in history.told : p[1] # h}
<1>1. fleet' = KeepHosts(fleet, kept) /\ history' = [history EXCEPT !.told = after]
    BY DEF Forget, ForgetHost
<1>2. /\ Shaped(fleet') /\ fleet'.hosts = HostsKept(fleet.hosts, kept)
      /\ fleet'.evals = PairsKept(fleet.evals, kept)
    <2>1. Shaped(fleet)
        BY DEF Inv, Accounted
    <2>2. QED BY <1>1, <2>1, KeepHostsOf
<1>3. \A p \in DOMAIN fleet.evals : p[1] \in kept <=> p[1] # h
    BY DEF Inv, Accounted, Housed
<1>4. HistoryShaped(history') /\ history'.told = after
    BY <1>1 DEF Inv, Accounted, HistoryShaped, RecordOf, HistoryFields
<1>5. history.told = Firing(fleet)
    BY DEF Inv, Accounted
<1> HIDE DEF kept
<1>6. after = Firing(fleet')
    BY <1>2, <1>3, <1>5 DEF Firing, PairsKept
<1>7. Accounted(fleet', history')
    BY <1>2, <1>4, <1>6 DEF Accounted, Housed, HostsKept, PairsKept
<1>8. QED BY <1>7 DEF Inv, Forget

(* The notifications an app was given add up to the alerts that fire, over *)
(* every sequence of polls, outages, blind gaps, lost saves, restores,     *)
(* edits and forgotten hosts (transitions_since, apply, restore).          *)
THEOREM NotificationsAddUpAlways == Spec => []NotificationsAddUp
<1>1. Init => Inv
    BY NothingYet DEF Init, Inv
<1>2. Inv /\ [Next]_vars => Inv'
    <2> SUFFICES ASSUME Inv, [Next]_vars
                 PROVE  Inv'
        OBVIOUS
    <2>1. CASE \E late \in Delays, weather \in Weathers, outage \in Outages,
                  saved \in BOOLEAN : Poll(late, weather, outage, saved)
        BY <2>1, PollAccounts
    <2>2. CASE \E readable \in BOOLEAN : Restart(readable)
        BY <2>2, RestartAccounts
    <2>3. CASE \E record \in Records : SetConfig(record)
        BY <2>3 DEF SetConfig, Inv
    <2>4. CASE \E h \in Hosts : Forget(h)
        BY <2>4, ForgetAccounts
    <2>5. CASE UNCHANGED vars
        BY <2>5 DEF vars, Inv
    <2>6. QED BY <2>1, <2>2, <2>3, <2>4, <2>5 DEF Next
<1>3. Inv => NotificationsAddUp
    BY DEF Inv, Accounted, Firing, NotificationsAddUp
<1>4. QED BY <1>1, <1>2, <1>3, PTL DEF Spec
-----------------------------------------------------------------------------
(***************************************************************************)
(* What a fold makes of one evaluation.                                    *)
(***************************************************************************)
EvalFields == {"fingerprint", "state", "frozen", "value", "label"}
EvalSane(e) == RecordOf(EvalFields, e) /\ e.state.phase \in Phases

LEMMA FreshIsSane ==
    ASSUME NEW print
    PROVE  LET e == FreshEvaluation(print)
           IN EvalSane(e) /\ e.fingerprint = print /\ e.state.since = None
BY DEF FreshEvaluation, EvalSane, RecordOf, EvalFields, NoData, Phases

(* A state after judging has a phase, and a breach is dated by the state   *)
(* before or by a point inside the horizon (AlertEvaluation::observe).     *)
LEMMA ObserveOf ==
    ASSUME NEW state, NEW rule, NEW h, NEW points, NEW now, NEW maxAge,
           NEW s, s = Observe(state, rule, h, points, now, maxAge)
    PROVE  /\ s.phase \in Phases
           /\ s.since # None => IF state.since # None THEN s.since = state.since
                                ELSE s.since \in (now - maxAge) .. now
<1> DEFINE point == LatestAt(points, now)
           since == IF state.since = None THEN point.at ELSE state.since
           phase == IF DwellIsOver(since, now, rule.dwell) THEN "Firing" ELSE "Pending"
<1>1. \/ s = Fine \/ s = NoData
      \/ IsEvidence(point, now, maxAge) /\ s = [phase |-> phase, since |-> since]
    BY DEF Observe
<1>2. CASE s = Fine \/ s = NoData
    BY <1>2 DEF Fine, NoData, Phases
<1>3. CASE IsEvidence(point, now, maxAge) /\ s = [phase |-> phase, since |-> since]
    <2>1. point.at \in (now - maxAge) .. now
        BY <1>3 DEF IsEvidence
    <2>2. s.since = since /\ s.phase = phase
        BY <1>3
    <2> HIDE DEF point
    <2>3. QED BY <2>1, <2>2 DEF Phases
<1>4. QED BY <1>1, <1>2, <1>3

(* Frozen, an evaluation is as it was; judged, its state and the value it   *)
(* shows are what observing makes of the one before.                       *)
FrozenAs(g, e, o) ==
    g.state = e.state /\ g.frozen = IF e.frozen = None THEN o.at ELSE e.frozen

JudgedAs(g, e, o, cfg, p) ==
    LET rule == RuleOf(cfg, p[2])
        points == Candidate(o, rule, p[1])
        horizon == EvidenceHorizon(cfg.tuning)
    IN /\ g.frozen = None
       /\ g.state = Observe(e.state, rule, p[1], points, o.at, horizon)
       /\ g.value = ShownValue(points, o.at, horizon)

LEMMA ObservedOf ==
    ASSUME NEW e, RecordOf(EvalFields, e), NEW o, NEW cfg, NEW p,
           NEW g, g = Observed(e, o, cfg, p)
    PROVE  /\ RecordOf(EvalFields, g) /\ g.fingerprint = e.fingerprint
           /\ FrozenAs(g, e, o) \/ JudgedAs(g, e, o, cfg, p)
<1> DEFINE rule == RuleOf(cfg, p[2])
           horizon == EvidenceHorizon(cfg.tuning)
           frozen == IF e.frozen = None THEN o.at ELSE e.frozen
           points == Candidate(o, rule, p[1])
           state == Observe(e.state, rule, p[1], points, o.at, horizon)
           value == ShownValue(points, o.at, horizon)
           label == DominantLabel(o, rule, p[1], JudgedPoint(points, o.at, horizon))
           e1 == [e EXCEPT !.frozen = None]
           e2 == [e1 EXCEPT !.state = state]
           e3 == [e2 EXCEPT !.value = value]
           e4 == [e3 EXCEPT !.label = label]
<1>1. g = [e EXCEPT !.frozen = frozen] \/ g = e4
    BY DEF Observed, ObserveAlert, Freezing, Judging
<1>2. CASE g = [e EXCEPT !.frozen = frozen]
    <2> HIDE DEF frozen
    <2>1. RecordOf(EvalFields, g) /\ g.fingerprint = e.fingerprint
          /\ g.state = e.state /\ g.frozen = frozen
        BY <1>2, RecordExcept DEF EvalFields
    <2>2. QED BY <2>1 DEF FrozenAs, frozen
<1>3. CASE g = e4
    <2> HIDE DEF state, value, label
    <2>1. RecordOf(EvalFields, e1) /\ e1.frozen = None /\ e1.fingerprint = e.fingerprint
        BY RecordExcept DEF EvalFields
    <2> HIDE DEF e1
    <2>2. /\ RecordOf(EvalFields, e2) /\ e2.frozen = None
          /\ e2.fingerprint = e.fingerprint /\ e2.state = state
        BY <2>1, RecordExcept DEF EvalFields
    <2> HIDE DEF e2
    <2>3. /\ RecordOf(EvalFields, e3) /\ e3.frozen = None
          /\ e3.fingerprint = e.fingerprint /\ e3.state = state /\ e3.value = value
        BY <2>2, RecordExcept DEF EvalFields
    <2> HIDE DEF e3
    <2>4. /\ RecordOf(EvalFields, e4) /\ e4.frozen = None
          /\ e4.fingerprint = e.fingerprint /\ e4.state = state /\ e4.value = value
        BY <2>3, RecordExcept DEF EvalFields
    <2> HIDE DEF e4
    <2>5. JudgedAs(g, e, o, cfg, p)
        BY <1>3, <2>4 DEF JudgedAs, state, value
    <2>6. QED BY <1>3, <2>4, <2>5
<1>4. QED BY <1>1, <1>2, <1>3

Sane(f) == Shaped(f) /\ \A p \in DOMAIN f.evals : EvalSane(f.evals[p])

LEMMA PriorIsSane ==
    ASSUME NEW f, Sane(f), NEW o, NEW cfg, NEW p
    PROVE  EvalSane(Prior(f, o, cfg, p)) /\ Prior(f, o, cfg, p).fingerprint = PrintOf(cfg, p)
BY FreshIsSane DEF Prior, Sane

(* The evaluation of a pair after a fold: frozen it is as it was before,   *)
(* unless that was of another rule or before a blind gap; and a breach is   *)
(* dated before the fold or inside its horizon.                            *)
LEMMA PairAfter ==
    ASSUME NEW f, Sane(f), NEW o, NEW cfg, NEW g, g = Apply(f, cfg, o).fleet,
           NEW p \in DOMAIN g.evals
    PROVE  LET e == g.evals[p]
               before == Prior(f, o, cfg, p)
           IN /\ EvalSane(e) /\ e.fingerprint = PrintOf(cfg, p)
              /\ FrozenAs(e, before, o) \/ JudgedAs(e, before, o, cfg, p)
              /\ e.frozen # None => e.state = before.state
              /\ e.state.since # None =>
                    IF before.state.since # None
                    THEN e.state.since = before.state.since
                    ELSE e.state.since \in (o.at - EvidenceHorizon(cfg.tuning)) .. o.at
<1> DEFINE before == Prior(f, o, cfg, p)
           e == g.evals[p]
<1>1. e = Observed(before, o, cfg, p)
    BY ApplyOf DEF Sane
<1>2. EvalSane(before) /\ before.fingerprint = PrintOf(cfg, p)
    BY PriorIsSane
<1> HIDE DEF before, e
<1>3. /\ RecordOf(EvalFields, e) /\ e.fingerprint = before.fingerprint
      /\ FrozenAs(e, before, o) \/ JudgedAs(e, before, o, cfg, p)
    BY <1>1, <1>2, ObservedOf DEF EvalSane
<1>4. CASE FrozenAs(e, before, o)
    <2>1. e.state = before.state
        BY <1>4 DEF FrozenAs
    <2>2. QED BY <1>2, <1>3, <2>1 DEF EvalSane, e, before
<1>5. ASSUME JudgedAs(e, before, o, cfg, p)
      PROVE  /\ e.frozen = None /\ e.state.phase \in Phases
             /\ e.state.since # None =>
                   IF before.state.since # None
                   THEN e.state.since = before.state.since
                   ELSE e.state.since \in (o.at - EvidenceHorizon(cfg.tuning)) .. o.at
    <2>1. /\ e.frozen = None
          /\ \E points : e.state = Observe(before.state, RuleOf(cfg, p[2]), p[1], points,
                                           o.at, EvidenceHorizon(cfg.tuning))
        BY <1>5 DEF JudgedAs
    <2>2. QED BY <2>1, ObserveOf
<1>6. QED BY <1>2, <1>3, <1>4, <1>5 DEF EvalSane, e, before
-----------------------------------------------------------------------------
(***************************************************************************)
(* The hosts after a roster.                                               *)
(***************************************************************************)
HostFields == {"beat", "os", "liveness", "livenessAt", "seenAt", "listed"}
HostsShaped(hosts) == \A h \in DOMAIN hosts : RecordOf(HostFields, hosts[h])

LEMMA MergeKeepsShape ==
    ASSUME NEW r, RecordOf(HostFields, r), NEW host
    PROVE  RecordOf(HostFields, Merge(r, host))
<1> DEFINE beat == IF r.beat = None THEN host.beat
                   ELSE IF host.beat # None /\ host.beat > r.beat THEN host.beat ELSE r.beat
           r1 == [r EXCEPT !.beat = beat]
           os == IF host.os # "Other" THEN host.os ELSE r1.os
<1>1. Merge(r, host) = [r1 EXCEPT !.os = os]
    BY DEF Merge
<1> HIDE DEF beat, os
<1>2. RecordOf(HostFields, r1)
    BY RecordExcept DEF HostFields
<1> HIDE DEF r1
<1>3. QED BY <1>1, <1>2, RecordExcept DEF HostFields

(* A listed host is seen now; one that is not was seen when it was.        *)
SeenAs(g, hosts, roster, now) ==
    /\ \A h : h \in DOMAIN g <=> h \in DOMAIN hosts \/ h \in DOMAIN roster
    /\ \A h \in DOMAIN g :
          /\ RecordOf(HostFields, g[h])
          /\ h \in DOMAIN roster => g[h].seenAt = now /\ g[h].listed = TRUE
          /\ h \notin DOMAIN roster => g[h].seenAt = hosts[h].seenAt

LEMMA SightedOf ==
    ASSUME NEW f, HostsShaped(f.hosts), NEW roster, NEW now,
           NEW g, g = Sighted(f, roster, now)
    PROVE  SeenAs(g, f.hosts, roster, now)
<1>1. DOMAIN g = DOMAIN f.hosts \cup DOMAIN roster
    BY DEF Sighted
<1>2. ASSUME NEW h \in DOMAIN g, h \notin DOMAIN roster
      PROVE  RecordOf(HostFields, g[h]) /\ g[h].seenAt = f.hosts[h].seenAt
    <2>1. g[h] = [f.hosts[h] EXCEPT !.listed = FALSE]
        BY <1>1, <1>2 DEF Sighted
    <2>2. RecordOf(HostFields, f.hosts[h])
        BY <1>1, <1>2 DEF HostsShaped
    <2>3. QED BY <2>1, <2>2, RecordExcept DEF HostFields
<1>3. ASSUME NEW h \in DOMAIN g, h \in DOMAIN roster
      PROVE  RecordOf(HostFields, g[h]) /\ g[h].seenAt = now /\ g[h].listed = TRUE
    <2> DEFINE new == [beat |-> roster[h].beat, os |-> roster[h].os,
                       liveness |-> "Unknown", livenessAt |-> now,
                       seenAt |-> now, listed |-> TRUE]
               record == IF h \in DOMAIN f.hosts THEN Merge(f.hosts[h], roster[h]) ELSE new
               r1 == [record EXCEPT !.seenAt = now]
    <2>1. g[h] = [r1 EXCEPT !.listed = TRUE]
        BY <1>1, <1>3 DEF Sighted
    <2>2. RecordOf(HostFields, new)
        BY DEF RecordOf, HostFields
    <2> HIDE DEF new
    <2>3. RecordOf(HostFields, record)
        BY <2>2, MergeKeepsShape DEF HostsShaped
    <2> HIDE DEF record
    <2>4. RecordOf(HostFields, r1) /\ r1.seenAt = now
        BY <2>3, RecordExcept DEF HostFields
    <2> HIDE DEF r1
    <2>5. QED BY <2>1, <2>4, RecordExcept DEF HostFields
<1>4. \A h : h \in DOMAIN g <=> h \in DOMAIN f.hosts \/ h \in DOMAIN roster
    BY <1>1
<1>5. QED BY <1>2, <1>3, <1>4 DEF SeenAs

(* Judging a host leaves when it was seen and whether it is listed.        *)
LEMMA JudgedOf ==
    ASSUME NEW hosts, HostsShaped(hosts), NEW now, NEW t, NEW g, g = Judged(hosts, now, t)
    PROVE  /\ DOMAIN g = DOMAIN hosts
           /\ \A h \in DOMAIN g : /\ RecordOf(HostFields, g[h])
                                  /\ g[h].seenAt = hosts[h].seenAt
                                  /\ g[h].listed = hosts[h].listed
<1>1. DOMAIN g = DOMAIN hosts
    BY DEF Judged
<1>2. ASSUME NEW h \in DOMAIN g
      PROVE  /\ RecordOf(HostFields, g[h]) /\ g[h].seenAt = hosts[h].seenAt
             /\ g[h].listed = hosts[h].listed
    <2> DEFINE liveness == Liveness(t.liveness, hosts[h].beat, now - t.lag)
               r1 == [hosts[h] EXCEPT !.liveness = liveness]
    <2>1. g[h] = [r1 EXCEPT !.livenessAt = now]
        BY <1>1 DEF Judged
    <2>2. RecordOf(HostFields, hosts[h])
        BY <1>1 DEF HostsShaped
    <2> HIDE DEF liveness
    <2>3. RecordOf(HostFields, r1) /\ r1.seenAt = hosts[h].seenAt
          /\ r1.listed = hosts[h].listed
        BY <2>2, RecordExcept DEF HostFields
    <2> HIDE DEF r1
    <2>4. QED BY <2>1, <2>3, RecordExcept DEF HostFields
<1>3. QED BY <1>1, <1>2

LEMMA JudgedHostsOf ==
    ASSUME NEW f, HostsShaped(f.hosts), NEW o, NEW t, NEW g, g = JudgedHosts(f, o, t)
    PROVE  SeenAs(g, f.hosts, o.roster.hosts, o.at)
<1> DEFINE sighted == Sighted(f, o.roster.hosts, o.at)
<1>1. g = Judged(sighted, o.at, t)
    BY DEF JudgedHosts
<1>2. SeenAs(sighted, f.hosts, o.roster.hosts, o.at)
    BY SightedOf
<1> HIDE DEF sighted
<1>3. HostsShaped(sighted)
    BY <1>2 DEF HostsShaped, SeenAs
<1>4. /\ DOMAIN g = DOMAIN sighted
      /\ \A h \in DOMAIN g : /\ RecordOf(HostFields, g[h])
                             /\ g[h].seenAt = sighted[h].seenAt
                             /\ g[h].listed = sighted[h].listed
    BY <1>1, <1>3, JudgedOf
<1>5. QED BY <1>2, <1>4 DEF SeenAs

(* Of the hosts seen of late, sighted at known instants, the ones retained *)
(* fill the fleet when one of them is not, and each was sighted no earlier  *)
(* than one that is not (retain_hosts).                                    *)
LEMMA RetainedOf ==
    ASSUME NEW hosts, NEW now \in Int, NEW t, t.maxHosts \in Nat,
           DOMAIN hosts \subseteq Int, IsFiniteSet(DOMAIN hosts),
           \A h \in DOMAIN hosts : hosts[h].seenAt \in Int,
           NEW kept, kept = Retained(hosts, now, t),
           NEW h \in DOMAIN hosts, h \notin kept, now - hosts[h].seenAt <= t.forgetAfter
    PROVE  /\ Cardinality(kept) = t.maxHosts
           /\ \A g \in kept : hosts[g].seenAt >= hosts[h].seenAt
<1> DEFINE seen == {g \in DOMAIN hosts : now - hosts[g].seenAt <= t.forgetAfter}
           R == {p \in seen \X seen : SparedBefore(hosts, p[1], p[2])}
<1>1. \A x, y \in seen : << x, y >> \in R <=> SparedBefore(hosts, x, y)
    OBVIOUS
<1>2. seen \in SUBSET DOMAIN hosts /\ h \in seen
    OBVIOUS
<1>3. IsFiniteSet(seen)
    BY <1>2, FS_Subset
<1>4. kept = FirstOf(seen, R, t.maxHosts)
    <2>1. \A x \in seen : {g \in seen : SparedBefore(hosts, g, x)} = Ahead(seen, R, x)
        BY DEF Ahead
    <2>2. kept = {x \in seen : Cardinality({g \in seen : SparedBefore(hosts, g, x)})
                                  < t.maxHosts}
        BY DEF Retained
    <2>3. QED BY <2>1, <2>2 DEF FirstOf, Rank
<1>5. \A x \in seen : x \in Int /\ hosts[x].seenAt \in Int
    OBVIOUS
<1> HIDE DEF seen, R
<1>6. StrictOrder(seen, R)
    <2>1. \A x \in seen : ~SparedBefore(hosts, x, x)
        BY <1>5 DEF SparedBefore
    <2>2. \A x, y, z \in seen : SparedBefore(hosts, x, y) /\ SparedBefore(hosts, y, z)
                                   => SparedBefore(hosts, x, z)
        BY <1>5 DEF SparedBefore
    <2>3. \A x, y \in seen : x # y => SparedBefore(hosts, x, y) \/ SparedBefore(hosts, y, x)
        BY <1>5 DEF SparedBefore
    <2>4. QED BY <1>1, <2>1, <2>2, <2>3 DEF StrictOrder
<1>7. /\ Cardinality(kept) = t.maxHosts
      /\ \A x \in kept, z \in seen \ kept : << x, z >> \in R
    BY <1>2, <1>3, <1>4, <1>6, TheFirst
<1>8. \A g \in kept : g \in seen
    BY <1>4 DEF FirstOf
<1>9. \A g \in kept : SparedBefore(hosts, g, h)
    BY <1>1, <1>2, <1>7, <1>8
<1>10. QED BY <1>2, <1>5, <1>7, <1>8, <1>9 DEF SparedBefore

(* Hosts of the fleet, seen no later than an instant.                      *)
Sightings(hosts, now) ==
    /\ DOMAIN hosts \subseteq Hosts /\ HostsShaped(hosts)
    /\ \A h \in DOMAIN hosts : hosts[h].seenAt \in 0 .. now

(* An observation of a later instant, with hosts of the fleet in its       *)
(* roster.                                                                 *)
Observes(o, before) ==
    /\ o.at \in Nat /\ o.at > before /\ o.roster.kind \in {"Listed", "Failed"}
    /\ o.roster.kind = "Listed" => DOMAIN o.roster.hosts \subseteq Hosts

LEMMA JudgedHostsAreSightings ==
    ASSUME NEW f, NEW before \in Nat, Sightings(f.hosts, before),
           NEW o, Observes(o, before), o.roster.kind = "Listed", NEW t
    PROVE  Sightings(JudgedHosts(f, o, t), o.at)
<1> DEFINE g == JudgedHosts(f, o, t)
<1> HIDE DEF g
<1>1. SeenAs(g, f.hosts, o.roster.hosts, o.at)
    BY JudgedHostsOf DEF Sightings, g
<1>2. ASSUME NEW h \in DOMAIN g PROVE h \in Hosts /\ g[h].seenAt \in 0 .. o.at
    <2>1. CASE h \in DOMAIN o.roster.hosts
        BY <1>1, <2>1 DEF SeenAs, Observes
    <2>2. CASE h \notin DOMAIN o.roster.hosts
        <3>1. h \in DOMAIN f.hosts /\ g[h].seenAt = f.hosts[h].seenAt
            BY <1>1, <2>2 DEF SeenAs
        <3>2. f.hosts[h].seenAt \in 0 .. before /\ o.at \in Nat /\ o.at > before
            BY <3>1 DEF Sightings, Observes
        <3>3. QED BY <3>1, <3>2 DEF Sightings
    <2>3. QED BY <2>1, <2>2
<1>3. HostsShaped(g)
    BY <1>1 DEF SeenAs, HostsShaped
<1>4. QED BY <1>2, <1>3 DEF Sightings, g

LEMMA HostsAfterAreSightings ==
    ASSUME NEW f, NEW before \in Nat, Sightings(f.hosts, before),
           NEW o, Observes(o, before), NEW t
    PROVE  Sightings(HostsAfter(f, o, t), o.at)
<1> DEFINE judged == JudgedHosts(f, o, t)
           kept == Retained(judged, o.at, t)
<1>1. CASE o.roster.kind # "Listed"
    <2>1. HostsAfter(f, o, t) = f.hosts
        BY <1>1 DEF HostsAfter
    <2>2. \A h \in DOMAIN f.hosts : f.hosts[h].seenAt \in 0 .. o.at
        BY DEF Sightings, Observes
    <2>3. QED BY <2>1, <2>2 DEF Sightings
<1>2. CASE o.roster.kind = "Listed"
    <2>1. HostsAfter(f, o, t) = HostsKept(judged, kept)
        BY <1>2 DEF HostsAfter
    <2>2. Sightings(judged, o.at)
        BY <1>2, JudgedHostsAreSightings
    <2>3. kept \subseteq DOMAIN judged
        BY DEF Retained
    <2> HIDE DEF judged, kept
    <2>4. QED BY <2>1, <2>2, <2>3 DEF Sightings, HostsShaped, HostsKept
<1>3. QED BY <1>1, <1>2

(* A host a fold lets go of: not listed and unseen for long, or the fleet  *)
(* is full, of listed hosts if it was listed itself.                       *)
LetGo(f, o, t, hosts, h) ==
    /\ o.roster.kind = "Listed"
    /\ \/ /\ h \notin DOMAIN o.roster.hosts
          /\ o.at - f.hosts[h].seenAt > t.forgetAfter
       \/ /\ Cardinality(DOMAIN hosts) = t.maxHosts
          /\ h \in DOMAIN o.roster.hosts => \A g \in DOMAIN hosts : hosts[g].listed

LEMMA LetGoOf ==
    ASSUME NEW f, NEW before \in Nat, Sightings(f.hosts, before),
           NEW o, Observes(o, before), NEW t, t.maxHosts \in Nat, t.forgetAfter \in Nat,
           NEW hosts, hosts = HostsAfter(f, o, t),
           NEW h \in DOMAIN f.hosts, h \notin DOMAIN hosts
    PROVE  LetGo(f, o, t, hosts, h)
<1> DEFINE judged == JudgedHosts(f, o, t)
           kept == Retained(judged, o.at, t)
<1>1. o.roster.kind = "Listed"
    BY DEF HostsAfter
<1>2. hosts = HostsKept(judged, kept)
    BY <1>1 DEF HostsAfter
<1>3. SeenAs(judged, f.hosts, o.roster.hosts, o.at)
    BY JudgedHostsOf DEF Sightings
<1>4. Sightings(judged, o.at)
    BY <1>1, JudgedHostsAreSightings
<1>5. kept \subseteq DOMAIN judged
    BY DEF Retained
<1>6. o.at \in Nat /\ o.at > before
    BY DEF Observes
<1>7. f.hosts[h].seenAt \in 0 .. before
    BY DEF Sightings
<1>8. ASSUME judged[h].seenAt \in Int, o.at - judged[h].seenAt <= t.forgetAfter,
             h \in DOMAIN judged, h \notin kept
      PROVE  /\ Cardinality(kept) = t.maxHosts
             /\ \A g \in kept : judged[g].seenAt >= judged[h].seenAt
    <2>1. DOMAIN judged \subseteq Hosts /\ \A g \in DOMAIN judged : judged[g].seenAt \in Int
        BY <1>4, <1>6 DEF Sightings
    <2>2. DOMAIN judged \subseteq Int /\ IsFiniteSet(DOMAIN judged)
        BY <2>1, FoldAssumption, FS_Subset
    <2>3. kept = Retained(judged, o.at, t) /\ o.at \in Int
        BY <1>6
    <2> HIDE DEF judged, kept
    <2>4. QED BY <1>8, <2>1, <2>2, <2>3, RetainedOf
<1> HIDE DEF judged, kept
<1>9. DOMAIN hosts = kept /\ \A g \in kept : hosts[g] = judged[g]
    BY <1>2 DEF HostsKept
<1>10. h \in DOMAIN judged /\ h \notin kept
    BY <1>3, <1>9 DEF SeenAs
<1>11. CASE h \in DOMAIN o.roster.hosts
    <2>1. judged[h].seenAt = o.at
        BY <1>3, <1>10, <1>11 DEF SeenAs
    <2>2. /\ Cardinality(kept) = t.maxHosts
          /\ \A g \in kept : judged[g].seenAt >= o.at
        BY <1>6, <1>8, <1>10, <2>1
    <2>3. ASSUME NEW g \in kept PROVE judged[g].listed
        <3>1. SUFFICES ASSUME g \notin DOMAIN o.roster.hosts PROVE FALSE
            BY <1>3, <1>5 DEF SeenAs
        <3>2. g \in DOMAIN f.hosts /\ judged[g].seenAt = f.hosts[g].seenAt
            BY <1>3, <1>5, <3>1 DEF SeenAs
        <3>3. f.hosts[g].seenAt \in 0 .. before
            BY <3>2 DEF Sightings
        <3>4. QED BY <1>6, <2>2, <3>2, <3>3
    <2>4. QED BY <1>1, <1>9, <2>2, <2>3 DEF LetGo
<1>12. CASE h \notin DOMAIN o.roster.hosts
    <2>1. judged[h].seenAt = f.hosts[h].seenAt
        BY <1>3, <1>10, <1>12 DEF SeenAs
    <2>2. CASE o.at - f.hosts[h].seenAt > t.forgetAfter
        BY <1>1, <1>12, <2>2 DEF LetGo
    <2>3. CASE ~(o.at - f.hosts[h].seenAt > t.forgetAfter)
        <3>1. o.at - judged[h].seenAt <= t.forgetAfter /\ judged[h].seenAt \in Int
            BY <1>6, <1>7, <2>1, <2>3
        <3>2. QED BY <1>1, <1>8, <1>9, <1>10, <1>12, <3>1 DEF LetGo
    <2>4. QED BY <2>2, <2>3
<1>13. QED BY <1>11, <1>12

-----------------------------------------------------------------------------
(***************************************************************************)
(* The inductive invariant: what the fold keeps is typed, its pairs are of *)
(* its hosts, no host was seen after now, and every evaluation is of the   *)
(* rule it was last judged under and dates a breach from no earlier than   *)
(* that rule was watched.  The saved fleet is no different.                *)
(***************************************************************************)
ConfigTyped ==
    config.tuning \in Tuning /\ TuningValid(config.tuning) /\ config.tuning.maxHosts \in Nat

Numbered(f) ==
    /\ f.asOf \in Instants /\ f.advised \in Instants
    /\ f.lastClean \in Instants /\ f.lastRoster \in Instants
    /\ f.failures \in Nat /\ f.polled \in BOOLEAN

SeriesHoused(f) == \A p \in DOMAIN f.series : p[1] \in DOMAIN f.hosts

Watched(f, hist) ==
    /\ \A r \in DOMAIN hist.watchedFrom : hist.watchedFrom[r] \in Int
    /\ \A p \in DOMAIN f.evals :
          /\ f.evals[p].fingerprint = PrintOf(hist.judgedBy, p)
          /\ p[2] \in DOMAIN hist.watchedFrom
          /\ f.evals[p].state.since # None =>
                /\ f.evals[p].state.since \in Int
                /\ f.evals[p].state.since >= hist.watchedFrom[p[2]]

Held(f, hist, now) ==
    /\ Sane(f) /\ Numbered(f) /\ Sightings(f.hosts, now)
    /\ Housed(f) /\ SeriesHoused(f)
    /\ HistoryShaped(hist) /\ Watched(f, hist)

FoldInv ==
    /\ clock \in Nat /\ ConfigTyped /\ ConfigIsUsable
    /\ Held(fleet, history, clock) /\ Held(cache, savedHistory, clock)

LEMMA AcceptedIsTyped ==
    ASSUME NEW record \in Records, ConfigFromRecord(record).ok,
           NEW c, c = ConfigFromRecord(record).value
    PROVE  c.tuning \in Tuning /\ TuningValid(c.tuning) /\ c.tuning.maxHosts \in Nat
<1> DEFINE tuning == TuningFromRecord(record.tuning)
           rules == DecodeRules(record.rulesJson)
<1>1. tuning.ok /\ c.tuning = tuning.value
    <2> HIDE DEF tuning, rules
    <2>1. tuning.ok /\ record.environment \notin UnusableNames /\ rules.ok
        BY DEF ConfigFromRecord, Accepted, Refused, tuning, rules
    <2>2. ConfigFromRecord(record).value =
            [environment |-> record.environment, tuning |-> tuning.value,
             rules |-> rules.value, overview |-> record.overview,
             detail |-> record.detail, focus |-> record.focus]
        BY <2>1 DEF ConfigFromRecord, Accepted, tuning, rules
    <2>3. QED BY <2>1, <2>2
<1>2. record.tuning \in TuningFields
    BY FoldAssumption
<1>3. QED BY <1>1, <1>2, AcceptedTuning

LEMMA TypedSpans ==
    ASSUME ConfigTyped
    PROVE  /\ config.tuning.forgetAfter \in Nat /\ config.tuning.maxStaleness \in Nat
           /\ config.tuning.pollInterval \in Nat /\ config.tuning.maxHosts \in Nat
           /\ EvidenceHorizon(config.tuning) \in Int
<1>1. /\ config.tuning.forgetAfter \in 0 .. DurationMax
      /\ config.tuning.maxStaleness \in 0 .. DurationMax
      /\ config.tuning.pollInterval \in 0 .. DurationMax
      /\ config.tuning.lag \in 0 .. DurationMax
    BY ValidSpans DEF ConfigTyped
<1>2. DurationMax \in Nat
    BY TuningAssumption
<1>3. QED BY <1>1, <1>2 DEF ConfigTyped, EvidenceHorizon, Saturated

LEMMA AdviceType ==
    ASSUME ConfigTyped, NEW f, f.failures \in Nat
    PROVE  Advice(f, config.tuning).after \in Nat
<1>1. BackoffAfter(config.tuning, f.failures) \in Nat
    BY BackoffType DEF ConfigTyped
<1>2. config.tuning.pollInterval \in Nat
    BY TypedSpans
<1>3. QED BY <1>1, <1>2 DEF Advice

LEMMA NothingHeld == Held(NewFleet, NoHistory, 0)
<1>1. Sane(NewFleet) /\ HistoryShaped(NoHistory) /\ Housed(NewFleet)
    BY NothingYet DEF Accounted, Sane, NewFleet
<1>2. Numbered(NewFleet)
    BY DEF Numbered, NewFleet, Instants
<1>3. /\ NewFleet.hosts = << >> /\ NewFleet.series = << >> /\ NewFleet.evals = << >>
      /\ NoHistory.watchedFrom = << >>
    BY DEF NewFleet, NoHistory
<1>4. DOMAIN NewFleet.hosts = {} /\ DOMAIN NewFleet.series = {}
      /\ DOMAIN NewFleet.evals = {} /\ DOMAIN NoHistory.watchedFrom = {}
    BY <1>3
<1>5. Sightings(NewFleet.hosts, 0) /\ SeriesHoused(NewFleet) /\ Watched(NewFleet, NoHistory)
    BY <1>4 DEF Sightings, HostsShaped, SeriesHoused, Watched
<1>6. QED BY <1>1, <1>2, <1>5 DEF Held

(* Time goes on.                                                           *)
LEMMA HeldLater ==
    ASSUME NEW f, NEW hist, NEW now \in Nat, Held(f, hist, now),
           NEW later \in Nat, later >= now
    PROVE  Held(f, hist, later)
<1>1. \A h \in DOMAIN f.hosts : f.hosts[h].seenAt \in 0 .. later
    BY DEF Held, Sightings
<1>2. QED BY <1>1 DEF Held, Sightings

(* What a poll does to the state, for the properties to start from.        *)
LEMMA PollIs ==
    ASSUME FoldInv, NEW late \in Delays, NEW weather, NEW outage, NEW saved,
           Poll(late, weather, outage, saved)
    PROVE  /\ clock' \in Nat /\ clock' > clock /\ obs'.at = clock' /\ Observes(obs', clock)
           /\ fleet' = Apply(fleet, config, obs').fleet
           /\ history' = Remembered(Apply(fleet, config, obs'), clock')
           /\ config' = config
           /\ \/ cache' = fleet' /\ savedHistory' = history'
              \/ UNCHANGED << cache, savedHistory >>
<1> DEFINE now == (IF fleet.advised = None \/ fleet.advised < clock + 1
                   THEN clock + 1 ELSE fleet.advised) + late
<1>1. clock \in Nat /\ fleet.advised \in Instants /\ late \in Nat
    BY FoldAssumption DEF FoldInv, Held, Numbered
<1>2. now \in Nat /\ now > clock
    BY <1>1, TelemetryAssumption DEF Instants
<1>3. clock' = now /\ obs' = Observation(agents', config, now, outage)
    BY DEF Poll
<1> HIDE DEF now
<1>4. obs'.at = now /\ obs'.roster.kind \in {"Listed", "Failed"}
    BY <1>3 DEF Observation, Listed, RosterFailed
<1>5. obs'.roster.kind = "Listed" => DOMAIN obs'.roster.hosts \subseteq Hosts
    BY <1>3 DEF Observation, Listed, RosterFailed
<1>6. Observes(obs', clock)
    BY <1>2, <1>4, <1>5 DEF Observes
<1>7. /\ fleet' = Apply(fleet, config, obs').fleet
      /\ history' = Remembered(Apply(fleet, config, obs'), clock')
    BY <1>3 DEF Poll, now
<1>8. QED BY <1>2, <1>3, <1>4, <1>6, <1>7 DEF Poll

(* After a fold, every evaluation is of a rule in force, and its breach is  *)
(* dated from where that rule is known to have been watched.               *)
LEMMA FoldIsWatched ==
    ASSUME FoldInv, NEW o, o.at \in Nat,
           NEW u, u = Apply(fleet, config, o), NEW hist, hist = Remembered(u, o.at)
    PROVE  Watched(u.fleet, hist)
<1> DEFINE t == config.tuning
           reach == o.at - EvidenceHorizon(t)
           watched == history.watchedFrom
           gap == IsBlindGap(fleet, o.at, t)
           startsOver(r) ==
              \/ gap \/ r \notin DOMAIN watched
              \/ Fingerprint(RuleOf(config, r)) # Fingerprint(RuleOf(history.judgedBy, r))
           g == u.fleet
<1>1. Sane(fleet) /\ Watched(fleet, history)
    BY DEF FoldInv, Held
<1>2. reach \in Int
    BY TypedSpans DEF FoldInv
<1>3. /\ hist.judgedBy = config
      /\ hist.watchedFrom = [r \in RuleIds(config) |->
                               IF startsOver(r) \/ reach < watched[r]
                               THEN reach ELSE watched[r]]
    BY DEF Remembered, RuleIds
<1>4. \A r \in DOMAIN watched : watched[r] \in Int
    BY <1>1 DEF Watched
<1> HIDE DEF reach, watched, gap
<1>5. DOMAIN hist.watchedFrom = RuleIds(config)
    BY <1>3
<1>6. \A r \in RuleIds(config) :
          /\ hist.watchedFrom[r] \in Int /\ hist.watchedFrom[r] <= reach
          /\ ~startsOver(r) => hist.watchedFrom[r] <= watched[r]
    <2>1. SUFFICES ASSUME NEW r \in RuleIds(config)
                   PROVE  /\ hist.watchedFrom[r] \in Int /\ hist.watchedFrom[r] <= reach
                          /\ ~startsOver(r) => hist.watchedFrom[r] <= watched[r]
        OBVIOUS
    <2>2. hist.watchedFrom[r] = IF startsOver(r) \/ reach < watched[r]
                                THEN reach ELSE watched[r]
        BY <1>3
    <2>3. CASE startsOver(r)
        <3>1. hist.watchedFrom[r] = reach
            BY <2>2, <2>3
        <3>2. QED BY <1>2, <2>3, <3>1
    <2>4. CASE ~startsOver(r)
        <3>1. watched[r] \in Int
            BY <1>4, <2>4
        <3>2. hist.watchedFrom[r] = IF reach < watched[r] THEN reach ELSE watched[r]
            BY <2>2, <2>4
        <3>3. QED BY <1>2, <3>1, <3>2
    <2>5. QED BY <2>3, <2>4
<1>7. DOMAIN g.evals \subseteq (DOMAIN g.hosts) \X RuleIds(config)
    BY <1>1, ApplyOf DEF Sane
<1> HIDE DEF startsOver
<1>8. ASSUME NEW p \in DOMAIN g.evals
      PROVE  /\ g.evals[p].fingerprint = PrintOf(config, p)
             /\ p[2] \in RuleIds(config)
             /\ g.evals[p].state.since # None =>
                   /\ g.evals[p].state.since \in Int
                   /\ g.evals[p].state.since >= hist.watchedFrom[p[2]]
    <2> DEFINE e == g.evals[p]
               before == Prior(fleet, o, config, p)
    <2>1. p[2] \in RuleIds(config)
        BY <1>7
    <2>2. /\ e.fingerprint = PrintOf(config, p)
          /\ e.state.since # None =>
                IF before.state.since # None THEN e.state.since = before.state.since
                ELSE e.state.since \in reach .. o.at
        BY <1>1, PairAfter DEF reach
    <2> HIDE DEF g, e, before
    <2>3. ASSUME e.state.since # None, before.state.since = None
          PROVE  e.state.since \in Int /\ e.state.since >= hist.watchedFrom[p[2]]
        <3>1. e.state.since \in reach .. o.at
            BY <2>2, <2>3
        <3>2. QED BY <1>2, <1>6, <2>1, <3>1
    <2>4. ASSUME e.state.since # None, before.state.since # None
          PROVE  e.state.since \in Int /\ e.state.since >= hist.watchedFrom[p[2]]
        <3>1. e.state.since = before.state.since
            BY <2>2, <2>4
        <3>2. /\ p \in DOMAIN fleet.evals /\ before = fleet.evals[p] /\ ~gap
              /\ fleet.evals[p].fingerprint = PrintOf(config, p)
            <4>1. FreshEvaluation(PrintOf(config, p)).state.since = None
                BY FreshIsSane
            <4>2. QED BY <2>4, <4>1 DEF Prior, before, gap
        <3>3. /\ fleet.evals[p].fingerprint = PrintOf(history.judgedBy, p)
              /\ p[2] \in DOMAIN watched /\ watched[p[2]] \in Int
              /\ fleet.evals[p].state.since \in Int
              /\ fleet.evals[p].state.since >= watched[p[2]]
            BY <1>1, <2>4, <3>2 DEF Watched, watched
        <3>4. ~startsOver(p[2])
            BY <3>2, <3>3 DEF startsOver, PrintOf
        <3>5. hist.watchedFrom[p[2]] \in Int /\ hist.watchedFrom[p[2]] <= watched[p[2]]
            BY <1>6, <2>1, <3>4
        <3>6. QED BY <3>1, <3>2, <3>3, <3>5
    <2>5. QED BY <2>1, <2>2, <2>3, <2>4 DEF e
<1>9. QED BY <1>3, <1>5, <1>6, <1>8 DEF Watched, g

LEMMA FoldIsHeld ==
    ASSUME FoldInv, NEW o, Observes(o, clock),
           NEW u, u = Apply(fleet, config, o), NEW hist, hist = Remembered(u, o.at)
    PROVE  Held(u.fleet, hist, o.at)
<1> DEFINE g == u.fleet
<1>1. Sane(fleet) /\ Numbered(fleet) /\ Sightings(fleet.hosts, clock)
    BY DEF FoldInv, Held
<1>2. o.at \in Nat /\ o.at > clock /\ clock \in Nat
    BY DEF Observes, FoldInv
<1>3. /\ Shaped(g) /\ g.hosts = HostsAfter(fleet, o, config.tuning)
      /\ \A p \in DOMAIN g.series : p[1] \in DOMAIN g.hosts
      /\ DOMAIN g.evals \subseteq (DOMAIN g.hosts) \X RuleIds(config)
      /\ BooksAfter(fleet, o, config, g)
    BY <1>1, ApplyOf DEF Sane
<1>4. \A p \in DOMAIN g.evals : EvalSane(g.evals[p])
    BY <1>1, PairAfter
<1>5. Watched(g, hist)
    BY <1>2, FoldIsWatched
<1>6. HistoryShaped(hist)
    BY DEF Remembered, HistoryShaped, RecordOf, HistoryFields
<1> HIDE DEF g
<1>7. Sightings(g.hosts, o.at)
    BY <1>1, <1>2, <1>3, HostsAfterAreSightings
<1>8. Numbered(g)
    <2>1. g.failures \in Nat
        BY <1>1, <1>3 DEF Numbered, BooksAfter
    <2>2. g.advised \in Nat
        BY <1>2, <1>3, <2>1, AdviceType DEF FoldInv, BooksAfter
    <2>3. QED BY <1>1, <1>2, <1>3, <2>1, <2>2 DEF Numbered, Instants, BooksAfter
<1>9. Housed(g) /\ SeriesHoused(g)
    BY <1>3 DEF Housed, SeriesHoused
<1>10. QED BY <1>3, <1>4, <1>5, <1>6, <1>7, <1>8, <1>9 DEF Held, Sane, g

LEMMA PollHolds ==
    ASSUME FoldInv, NEW late \in Delays, NEW weather, NEW outage, NEW saved,
           Poll(late, weather, outage, saved)
    PROVE  FoldInv'
<1> DEFINE u == Apply(fleet, config, obs')
<1>1. /\ clock' \in Nat /\ clock' > clock /\ obs'.at = clock' /\ Observes(obs', clock)
      /\ fleet' = u.fleet /\ history' = Remembered(u, clock') /\ config' = config
      /\ \/ cache' = fleet' /\ savedHistory' = history'
         \/ UNCHANGED << cache, savedHistory >>
    BY PollIs
<1>2. Held(u.fleet, Remembered(u, obs'.at), obs'.at)
    BY <1>1, FoldIsHeld
<1> HIDE DEF u
<1>3. Held(fleet', history', clock')
    BY <1>1, <1>2
<1>4. clock \in Nat /\ Held(cache, savedHistory, clock)
    BY DEF FoldInv
<1>5. Held(cache, savedHistory, clock')
    BY <1>1, <1>4, HeldLater
<1>6. Held(cache', savedHistory', clock')
    BY <1>1, <1>3, <1>5
<1>7. ConfigTyped' /\ ConfigIsUsable'
    BY <1>1 DEF FoldInv, ConfigTyped, ConfigIsUsable
<1>8. QED BY <1>1, <1>3, <1>6, <1>7 DEF FoldInv

LEMMA RestartHolds ==
    ASSUME FoldInv, NEW readable, Restart(readable)
    PROVE  FoldInv'
<1>1. /\ clock' = clock /\ config' = config /\ cache' = cache
      /\ savedHistory' = savedHistory /\ clock \in Nat
    BY DEF Restart, FoldInv
<1>2. Held(fleet', history', clock)
    <2>1. CASE readable
        <3>1. fleet' = [cache EXCEPT !.polled = FALSE] /\ history' = savedHistory
            BY <2>1 DEF Restart, Restore
        <3>2. Held(cache, savedHistory, clock)
            BY DEF FoldInv
        <3>3. /\ Shaped(fleet') /\ fleet'.polled = FALSE
              /\ \A y \in Fields \ {"polled"} : fleet'[y] = cache[y]
            BY <3>1, <3>2, ShapedExcept DEF Held, Sane, Fields
        <3>4. /\ fleet'.hosts = cache.hosts /\ fleet'.series = cache.series
              /\ fleet'.evals = cache.evals /\ fleet'.asOf = cache.asOf
              /\ fleet'.advised = cache.advised /\ fleet'.lastClean = cache.lastClean
              /\ fleet'.lastRoster = cache.lastRoster /\ fleet'.failures = cache.failures
            BY <3>3 DEF Fields
        <3>5. Numbered(fleet')
            BY <3>2, <3>3, <3>4 DEF Held, Numbered
        <3>6. Sane(fleet') /\ Sightings(fleet'.hosts, clock) /\ Housed(fleet')
              /\ SeriesHoused(fleet') /\ Watched(fleet', savedHistory)
            BY <3>2, <3>3, <3>4 DEF Held, Sane, Housed, SeriesHoused, Watched
        <3>7. QED BY <3>1, <3>2, <3>5, <3>6 DEF Held
    <2>2. CASE ~readable
        <3>1. fleet' = NewFleet /\ history' = NoHistory
            BY <2>2 DEF Restart, Restore
        <3>2. QED BY <1>1, <3>1, NothingHeld, HeldLater
    <2>3. QED BY <2>1, <2>2
<1>3. Held(fleet', history', clock')
    BY <1>1, <1>2
<1>4. ConfigTyped' /\ ConfigIsUsable'
    BY <1>1 DEF FoldInv, ConfigTyped, ConfigIsUsable
<1>5. QED BY <1>1, <1>3, <1>4 DEF FoldInv

LEMMA ForgetHolds ==
    ASSUME FoldInv, NEW h, Forget(h)
    PROVE  FoldInv'
<1> DEFINE kept == DOMAIN fleet.hosts \ {h}
           told == {p \in history.told : p[1] # h}
<1>1. /\ clock' = clock /\ config' = config /\ cache' = cache
      /\ savedHistory' = savedHistory /\ clock \in Nat
    BY DEF Forget, FoldInv
<1>2. fleet' = KeepHosts(fleet, kept) /\ history' = [history EXCEPT !.told = told]
    BY DEF Forget, ForgetHost
<1>3. Held(fleet, history, clock)
    BY DEF FoldInv
<1>4. /\ Shaped(fleet') /\ SameBooks(fleet, fleet')
      /\ fleet'.hosts = HostsKept(fleet.hosts, kept)
      /\ fleet'.series = PairsKept(fleet.series, kept)
      /\ fleet'.evals = PairsKept(fleet.evals, kept)
    BY <1>2, <1>3, KeepHostsOf DEF Held, Sane
<1>5. /\ HistoryShaped(history') /\ history'.judgedBy = history.judgedBy
      /\ history'.watchedFrom = history.watchedFrom
    <2> HIDE DEF told
    <2>1. QED BY <1>2, <1>3, RecordExcept DEF Held, HistoryShaped, HistoryFields
<1>6. kept \subseteq DOMAIN fleet.hosts
    OBVIOUS
<1> HIDE DEF kept
<1>7. Numbered(fleet')
    BY <1>3, <1>4 DEF Held, Numbered, SameBooks, Booked
<1>8. Sightings(fleet'.hosts, clock)
    BY <1>3, <1>4, <1>6 DEF Held, Sightings, HostsShaped, HostsKept
<1>9. Sane(fleet') /\ Watched(fleet', history')
    BY <1>3, <1>4, <1>5 DEF Held, Sane, Watched, PairsKept
<1>10. Housed(fleet') /\ SeriesHoused(fleet')
    BY <1>4 DEF Housed, SeriesHoused, HostsKept, PairsKept
<1>11. Held(fleet', history', clock')
    BY <1>1, <1>4, <1>5, <1>7, <1>8, <1>9, <1>10 DEF Held
<1>12. ConfigTyped' /\ ConfigIsUsable'
    BY <1>1 DEF FoldInv, ConfigTyped, ConfigIsUsable
<1>13. QED BY <1>1, <1>11, <1>12 DEF FoldInv

LEMMA SetConfigHolds ==
    ASSUME FoldInv, NEW record \in Records, SetConfig(record)
    PROVE  FoldInv'
<1>1. /\ clock' = clock /\ fleet' = fleet /\ history' = history /\ cache' = cache
      /\ savedHistory' = savedHistory
    BY DEF SetConfig
<1>2. ConfigFromRecord(record).ok /\ config' = ConfigFromRecord(record).value
    BY DEF SetConfig
<1>3. ConfigTyped'
    BY <1>2, AcceptedIsTyped DEF ConfigTyped
<1>4. ConfigIsUsable'
    BY <1>2, AcceptedIsUsable DEF ConfigIsUsable
<1>5. QED BY <1>1, <1>3, <1>4 DEF FoldInv

LEMMA FoldInvStarts == Init => FoldInv
<1> SUFFICES ASSUME Init PROVE FoldInv
    OBVIOUS
<1>1. /\ clock = 0 /\ fleet = NewFleet /\ cache = NewFleet
      /\ history = NoHistory /\ savedHistory = NoHistory /\ config = FirstConfig
    BY DEF Init
<1>2. ConfigTyped /\ ConfigIsUsable
    BY <1>1, FoldAssumption, AcceptedIsTyped, AcceptedIsUsable
       DEF FirstConfig, ConfigTyped, ConfigIsUsable
<1>3. QED BY <1>1, <1>2, NothingHeld DEF FoldInv

LEMMA FoldInvStays == FoldInv /\ [Next]_vars => FoldInv'
<1> SUFFICES ASSUME FoldInv, [Next]_vars
             PROVE  FoldInv'
    OBVIOUS
<1>1. CASE \E late \in Delays, weather \in Weathers, outage \in Outages,
              saved \in BOOLEAN : Poll(late, weather, outage, saved)
    BY <1>1, PollHolds
<1>2. CASE \E readable \in BOOLEAN : Restart(readable)
    BY <1>2, RestartHolds
<1>3. CASE \E record \in Records : SetConfig(record)
    BY <1>3, SetConfigHolds
<1>4. CASE \E h \in Hosts : Forget(h)
    BY <1>4, ForgetHolds
<1>5. CASE UNCHANGED vars
    BY <1>5 DEF vars, FoldInv, ConfigTyped, ConfigIsUsable
<1>6. QED BY <1>1, <1>2, <1>3, <1>4, <1>5 DEF Next

LEMMA FoldInvHolds == Spec => []FoldInv
BY FoldInvStarts, FoldInvStays, PTL DEF Spec

(* Whatever the fleet went through, what the fold keeps has its shape, no   *)
(* series or evaluation is of a host that left, and the configuration in    *)
(* force is one core accepts (FleetState, fold.rs).                         *)
THEOREM FoldStaysTyped == Spec => []TypeOK
<1>1. FoldInv => TypeOK
    BY DEF FoldInv, Held, Sane, EvalSane, Numbered, Sightings, Housed, SeriesHoused, TypeOK
<1>2. QED BY <1>1, FoldInvHolds, PTL

(* A breach is never dated from before the evidence its rule was watched on *)
(* since the last blind gap, the last edit of the rule or the last restart  *)
(* without a cache (reset_after_blind_gap, reconcile_evaluations, observe). *)
THEOREM DwellIsAlwaysWatched == Spec => []DwellIsWatched
<1>1. FoldInv => DwellIsWatched
    BY DEF FoldInv, Held, Watched, DwellIsWatched, Breaching, Since
<1>2. QED BY <1>1, FoldInvHolds, PTL

(* Only a poll folds anything.                                             *)
LEMMA FoldedIsPolled ==
    ASSUME FoldInv, [Next]_vars, Folded
    PROVE  /\ Observes(obs', clock) /\ clock \in Nat /\ obs'.at = fleet'.asOf
           /\ fleet' = Apply(fleet, config, obs').fleet
<1>1. CASE \E late \in Delays, weather \in Weathers, outage \in Outages,
              saved \in BOOLEAN : Poll(late, weather, outage, saved)
    <2>1. /\ Observes(obs', clock) /\ fleet' = Apply(fleet, config, obs').fleet
        BY <1>1, PollIs
    <2>2. Shaped(fleet) /\ clock \in Nat
        BY DEF FoldInv, Held, Sane
    <2>3. BooksAfter(fleet, obs', config, fleet')
        BY <2>1, <2>2, ApplyOf
    <2>4. QED BY <2>1, <2>2, <2>3 DEF BooksAfter
<1>2. CASE \E readable \in BOOLEAN : Restart(readable)
    <2>1. fleet' = [cache EXCEPT !.polled = FALSE] \/ fleet' = NewFleet
        BY <1>2 DEF Restart, Restore
    <2>2. Shaped(cache)
        BY DEF FoldInv, Held, Sane
    <2>3. [cache EXCEPT !.polled = FALSE].polled = FALSE /\ NewFleet.polled = FALSE
        BY <2>2, ShapedExcept DEF Fields, NewFleet
    <2>4. QED BY <2>1, <2>3 DEF Folded
<1>3. CASE \E record \in Records : SetConfig(record)
    BY <1>3 DEF SetConfig, Folded
<1>4. CASE \E h \in Hosts : Forget(h)
    <2>1. Shaped(fleet) /\ \E kept : fleet' = KeepHosts(fleet, kept)
        BY <1>4 DEF FoldInv, Held, Sane, Forget, ForgetHost
    <2>2. fleet'.asOf = fleet.asOf
        BY <2>1, KeepHostsOf DEF SameBooks, Booked
    <2>3. QED BY <2>2 DEF Folded
<1>5. CASE UNCHANGED vars
    BY <1>5 DEF vars, Folded
<1>6. QED BY <1>1, <1>2, <1>3, <1>4, <1>5 DEF Next

(* A pair that was judged under the same rule before an interval that was   *)
(* watched is judged from where it was.                                     *)
LEMMA PriorIsSame ==
    ASSUME FoldInv, NEW o, ~IsBlindGap(fleet, o.at, config.tuning),
           NEW g, g = Apply(fleet, config, o).fleet,
           NEW p \in DOMAIN fleet.evals, p \in DOMAIN g.evals,
           g.evals[p].fingerprint = fleet.evals[p].fingerprint
    PROVE  /\ Prior(fleet, o, config, p) = fleet.evals[p]
           /\ g.evals[p].frozen # None => g.evals[p].state = fleet.evals[p].state
           /\ g.evals[p].state.since # None /\ fleet.evals[p].state.since # None =>
                 g.evals[p].state.since = fleet.evals[p].state.since
<1> DEFINE before == Prior(fleet, o, config, p)
           e == g.evals[p]
<1>1. Sane(fleet)
    BY DEF FoldInv, Held
<1>2. /\ e.fingerprint = PrintOf(config, p)
      /\ e.frozen # None => e.state = before.state
      /\ e.state.since # None =>
            IF before.state.since # None THEN e.state.since = before.state.since
            ELSE e.state.since \in (o.at - EvidenceHorizon(config.tuning)) .. o.at
    BY <1>1, PairAfter
<1>3. before = fleet.evals[p]
    BY <1>2 DEF Prior
<1> HIDE DEF before
<1>4. QED BY <1>2, <1>3 DEF before

(* A poll at the instant the fold advised, or before it, keeps the start of *)
(* every breach that goes on: no back-off is long enough to be a blind gap  *)
(* (next_poll_after, reset_after_blind_gap).                                *)
THEOREM AdvisedWaitAlwaysKeepsDwell == Spec => AdvisedWaitKeepsDwell
<1> DEFINE A == Folded /\ fleet.advised # None /\ fleet'.asOf <= fleet.advised =>
                \A p \in (DOMAIN fleet.evals) \cap DOMAIN fleet'.evals :
                   /\ SameRule(p) /\ fleet.evals[p].state.since # None
                   /\ fleet'.evals[p].state.since # None
                   => fleet'.evals[p].state.since = fleet.evals[p].state.since
<1>1. ASSUME FoldInv, [Next]_vars, Folded, fleet.advised # None,
             fleet'.asOf <= fleet.advised,
             NEW p \in (DOMAIN fleet.evals) \cap DOMAIN fleet'.evals,
             SameRule(p), fleet.evals[p].state.since # None,
             fleet'.evals[p].state.since # None
      PROVE  fleet'.evals[p].state.since = fleet.evals[p].state.since
    <2>1. /\ Observes(obs', clock) /\ obs'.at = fleet'.asOf
          /\ fleet' = Apply(fleet, config, obs').fleet
        BY <1>1, FoldedIsPolled
    <2>2. /\ fleet.advised \in Nat /\ config.tuning.maxStaleness \in Nat
          /\ obs'.at \in Nat /\ obs'.at <= fleet.advised
        BY <1>1, <2>1, TypedSpans DEF FoldInv, Held, Numbered, Instants, Observes
    <2>3. ~IsBlindGap(fleet, obs'.at, config.tuning)
        BY <2>2 DEF IsBlindGap
    <2>4. QED BY <1>1, <2>1, <2>3, PriorIsSame DEF SameRule
<1>2. FoldInv /\ [Next]_vars => [A]_vars
    BY <1>1
<1>3. QED BY <1>2, FoldInvHolds, PTL DEF Spec, AdvisedWaitKeepsDwell

(* Nothing is concluded from what a poll could not see: with the roster     *)
(* failed the hosts are as they were, a pair without an answer keeps its    *)
(* phase and its dwell, and a host is let go of only because a roster came  *)
(* without it for too long or because the fleet is full of hosts at least   *)
(* as lately seen (apply_roster, retain_hosts, observe_alerts).             *)
THEOREM UnseenIsNeverJudged == Spec => UnseenIsNotJudged
<1> DEFINE A == Folded /\ OnTime =>
                  /\ obs'.roster.kind = "Failed" =>
                        /\ DOMAIN fleet'.hosts = DOMAIN fleet.hosts
                        /\ \A h \in DOMAIN fleet.hosts : fleet'.hosts[h] = fleet.hosts[h]
                  /\ \A p \in (DOMAIN fleet.evals) \cap DOMAIN fleet'.evals :
                        fleet'.evals[p].frozen # None /\ SameRule(p) =>
                           fleet'.evals[p].state = fleet.evals[p].state
           B == Folded /\ fleet # NewFleet =>
                  \A h \in DOMAIN fleet.hosts \ DOMAIN fleet'.hosts :
                     /\ obs'.roster.kind = "Listed"
                     /\ \/ /\ h \notin DOMAIN obs'.roster.hosts
                           /\ obs'.at - fleet.hosts[h].seenAt > config.tuning.forgetAfter
                        \/ /\ Cardinality(DOMAIN fleet'.hosts) = config.tuning.maxHosts
                           /\ h \in DOMAIN obs'.roster.hosts =>
                                 \A g \in DOMAIN fleet'.hosts : fleet'.hosts[g].listed
<1>1. ASSUME FoldInv, [Next]_vars, Folded
      PROVE  /\ Observes(obs', clock) /\ clock \in Nat /\ obs'.at = fleet'.asOf
             /\ fleet' = Apply(fleet, config, obs').fleet
             /\ fleet'.hosts = HostsAfter(fleet, obs', config.tuning)
             /\ Sightings(fleet.hosts, clock)
    <2>1. /\ Observes(obs', clock) /\ clock \in Nat /\ obs'.at = fleet'.asOf
          /\ fleet' = Apply(fleet, config, obs').fleet
        BY <1>1, FoldedIsPolled
    <2>2. Shaped(fleet) /\ Sightings(fleet.hosts, clock)
        BY <1>1 DEF FoldInv, Held, Sane
    <2>3. QED BY <2>1, <2>2, ApplyOf
<1>2. ASSUME FoldInv, [Next]_vars, Folded, OnTime, obs'.roster.kind = "Failed"
      PROVE  fleet'.hosts = fleet.hosts
    BY <1>1, <1>2 DEF HostsAfter
<1>3. ASSUME FoldInv, [Next]_vars, Folded, OnTime,
             NEW p \in (DOMAIN fleet.evals) \cap DOMAIN fleet'.evals,
             fleet'.evals[p].frozen # None, SameRule(p)
      PROVE  fleet'.evals[p].state = fleet.evals[p].state
    <2>1. obs'.at = fleet'.asOf /\ fleet' = Apply(fleet, config, obs').fleet
        BY <1>1, <1>3
    <2>2. ~IsBlindGap(fleet, obs'.at, config.tuning)
        BY <1>3, <2>1 DEF OnTime
    <2>3. QED BY <1>3, <2>1, <2>2, PriorIsSame DEF SameRule
<1>4. ASSUME FoldInv, [Next]_vars, Folded,
             NEW h \in DOMAIN fleet.hosts \ DOMAIN fleet'.hosts
      PROVE  /\ obs'.roster.kind = "Listed"
             /\ \/ /\ h \notin DOMAIN obs'.roster.hosts
                   /\ obs'.at - fleet.hosts[h].seenAt > config.tuning.forgetAfter
                \/ /\ Cardinality(DOMAIN fleet'.hosts) = config.tuning.maxHosts
                   /\ h \in DOMAIN obs'.roster.hosts =>
                         \A g \in DOMAIN fleet'.hosts : fleet'.hosts[g].listed
    <2>1. /\ Observes(obs', clock) /\ clock \in Nat
          /\ fleet'.hosts = HostsAfter(fleet, obs', config.tuning)
          /\ Sightings(fleet.hosts, clock)
        BY <1>1, <1>4
    <2>2. config.tuning.maxHosts \in Nat /\ config.tuning.forgetAfter \in Nat
        BY <1>4, TypedSpans DEF FoldInv
    <2>3. LetGo(fleet, obs', config.tuning, fleet'.hosts, h)
        BY <1>4, <2>1, <2>2, LetGoOf
    <2>4. QED BY <2>3 DEF LetGo
<1>5. FoldInv /\ [Next]_vars => [A]_vars
    BY <1>2, <1>3
<1>6. FoldInv /\ [Next]_vars => [B]_vars
    BY <1>4
<1>7. Spec => OutageChangesNoVerdict
    BY <1>5, FoldInvHolds, PTL DEF Spec, OutageChangesNoVerdict
<1>8. Spec => ForgottenForAReason
    BY <1>6, FoldInvHolds, PTL DEF Spec, ForgottenForAReason
<1>9. QED BY <1>7, <1>8 DEF UnseenIsNotJudged

-----------------------------------------------------------------------------
(***************************************************************************)
(* What a poll answers with, and that a rule is judged on nothing but what  *)
(* the agent of its host exported last.                                     *)
(***************************************************************************)
(* What an agent exported last, and a list of points that shows nothing    *)
(* else: at its instant, with its value or the half of it.                 *)
Exported == [at : Int, value : Int]
ExportsTyped(exports) == exports \in [Hosts -> {None} \cup Exported]
ShownAs(e) == [at : {e.at}, value : {e.value, e.value \div 2}]
Shows(points, e) == points \in Seq(ShownAs(e))

LEMMA SampleIsShown ==
    ASSUME NEW e \in Exported, NEW a
    PROVE  SampleOf(e, a) \in ShownAs(e) /\ SampleOf(e, a) \in Exported
<1>1. e.value \in Int /\ e.value \div 2 \in Int /\ e.at \in Int
    BY DEF Exported
<1>2. e = [at |-> e.at, value |-> e.value]
    BY DEF Exported
<1>3. SampleOf(e, a) = e \/ SampleOf(e, a) = [e EXCEPT !.value = e.value \div 2]
    BY DEF SampleOf
<1>4. SampleOf(e, a) \in {[at |-> e.at, value |-> e.value],
                          [at |-> e.at, value |-> e.value \div 2]}
    BY <1>2, <1>3
<1>5. QED BY <1>1, <1>4 DEF ShownAs, Exported

AsSampled(s, exports, kind) ==
    \E h \in Hosts : \E a :
       /\ exports[h] # None
       /\ s = [host |-> h, kind |-> kind, attributes |-> a,
               points |-> << SampleOf(exports[h], a) >>]

LEMMA AnswerOf ==
    ASSUME NEW exports, NEW spec, NEW now, NEW a, a = Answer(exports, spec, now)
    PROVE  \E n \in Nat : /\ DOMAIN a = 1 .. n
                          /\ \A k \in 1 .. n : AsSampled(a[k], exports, spec.metric)
<1> DEFINE has == {h \in Hosts : Matches(spec.selector, h)
                                 /\ Within(exports, h, now, spec.window)}
           sets == AttributeSets(spec.metric)
           one(h, x) == [host |-> h, kind |-> spec.metric, attributes |-> x,
                         points |-> << SampleOf(exports[h], x) >>]
           series(h) == {one(h, x) : x \in sets}
           all == UNION {series(h) : h \in has}
           rows == [h \in has |-> series(h)]
<1>1. a = SetToSeq(all)
    BY DEF Answer
<1>2. has \in SUBSET Hosts /\ IsFiniteSet(has) /\ \A h \in has : exports[h] # None
    BY FoldAssumption, FS_Subset DEF Within
<1>3. IsFiniteSet(sets)
    <2>1. IsFiniteSet({[mountpoint |-> 1], [mountpoint |-> 2]})
        <3> DEFINE x == [mountpoint |-> 1]
                   y == [mountpoint |-> 2]
        <3>1. IsFiniteSet({x})
            BY FS_Singleton
        <3> HIDE DEF x, y
        <3>2. IsFiniteSet({x} \cup {y})
            BY <3>1, FS_AddElement
        <3>3. {x} \cup {y} = {x, y}
            OBVIOUS
        <3>4. QED BY <3>2, <3>3 DEF x, y
    <2>2. IsFiniteSet({<< >>})
        BY FS_Singleton
    <2>3. QED BY <2>1, <2>2, Zenon DEF AttributeSets
<1> HIDE DEF has, sets
<1>4. ASSUME NEW h \in has PROVE IsFiniteSet(series(h))
    <2> DEFINE f == [x \in sets |-> one(h, x)]
    <2>1. DOMAIN f = sets /\ f = [x \in sets |-> f[x]] /\ series(h) = {f[x] : x \in sets}
        OBVIOUS
    <2> HIDE DEF f
    <2>2. IsFiniteSet({f[x] : x \in sets})
        BY <1>3, <2>1, ImageIsFinite
    <2>3. QED BY <2>1, <2>2
<1>5. IsFiniteSet(all)
    <2> HIDE DEF series
    <2>1. DOMAIN rows = has /\ rows = [h \in has |-> rows[h]]
          /\ \A h \in has : rows[h] = series(h)
        OBVIOUS
    <2>2. all = UNION {rows[h] : h \in has}
        BY <2>1
    <2> HIDE DEF rows, all
    <2>3. IsFiniteSet({rows[h] : h \in has})
        BY <1>2, <2>1, ImageIsFinite
    <2> DEFINE T == {rows[h] : h \in has}
    <2>4. \A x \in T : IsFiniteSet(x)
        BY <1>4, <2>1
    <2> HIDE DEF T
    <2>5. IsFiniteSet(UNION T)
        BY <2>3, <2>4, FS_UNION DEF T
    <2>6. QED BY <2>2, <2>5 DEF T
<1>6. \A s \in all : AsSampled(s, exports, spec.metric)
    BY <1>2 DEF AsSampled
<1> HIDE DEF all
<1>7. Cardinality(all) \in Nat /\ a \in [1 .. Cardinality(all) -> all]
    BY <1>1, <1>5, ListOf
<1>8. \A k \in 1 .. Cardinality(all) : AsSampled(a[k], exports, spec.metric)
    BY <1>6, <1>7
<1>9. QED BY <1>7, <1>8

(* A single sample has no rate.                                            *)
LEMMA NormalizeOf ==
    ASSUME NEW e \in Exported, NEW a, NEW h, NEW kind,
           NEW s, s = [host |-> h, kind |-> kind, attributes |-> a,
                       points |-> << SampleOf(e, a) >>]
    PROVE  Shows(Normalize(s).points, e)
<1> DEFINE x == SampleOf(e, a)
<1>1. x \in ShownAs(e)
    BY SampleIsShown
<1> HIDE DEF x
<1>2. s = [host |-> h, kind |-> kind, attributes |-> a, points |-> << x >>]
    BY DEF x
<1>3. ASSUME NEW b \in BOOLEAN PROVE Differenced(<< x >>, b) \in Seq(ShownAs(e))
    <2> DEFINE points == << x >>
               kept == {i \in Later(points) :
                          ~Falls(points, i) /\ (b => points[i].at - points[i - 1].at > 0)}
               order == Ascending(kept)
               rise(i) == points[i].value - points[i - 1].value
               made(i) == [at |-> points[i].at,
                           value |-> IF b THEN (rise(i) * Second)
                                               \div (points[i].at - points[i - 1].at)
                                          ELSE rise(i)]
    <2>1. Differenced(points, b) = [n \in DOMAIN order |-> made(order[n])]
        BY Zenon DEF Differenced
    <2>2. kept = {}
        BY DEF Later
    <2> HIDE DEF kept, made, points
    <2>3. Cardinality(kept) = 0 /\ IsFiniteSet(kept)
        BY <2>2, FS_EmptySet
    <2>4. DOMAIN order = {}
        BY <2>2, <2>3, AscendingOf
    <2> HIDE DEF order
    <2>5. Differenced(points, b) = << >>
        BY <2>1, <2>4
    <2>6. QED BY <2>5 DEF points
<1>4. CASE Normalization(kind) = "None"
    BY <1>1, <1>2, <1>4 DEF Normalize, Shows
<1>5. CASE Normalization(kind) # "None"
    <2>1. \E b \in BOOLEAN : Normalize(s) = [s EXCEPT !.points = Differenced(s.points, b)]
        <3>1. s.kind = kind
            BY <1>2
        <3>2. CASE Normalization(kind) = "RatePerSecond"
            BY <1>5, <3>1, <3>2 DEF Normalize
        <3>3. CASE Normalization(kind) # "RatePerSecond"
            BY <1>5, <3>1, <3>3 DEF Normalize
        <3>4. QED BY <3>2, <3>3
    <2>2. PICK b \in BOOLEAN : Normalize(s) = [s EXCEPT !.points = Differenced(s.points, b)]
        BY <2>1
    <2>3. Normalize(s).points = Differenced(<< x >>, b)
        BY <1>2, <2>2
    <2>4. QED BY <1>3, <2>3 DEF Shows
<1>6. QED BY <1>4, <1>5

(* The reduction of series that show one export shows it too.              *)
LEMMA ReduceOf ==
    ASSUME NEW e \in Exported, NEW all, all # << >>, NEW n \in Nat, DOMAIN all = 1 .. n,
           \A c \in 1 .. n : Shows(all[c].points, e), NEW reduction
    PROVE  Shows(Reduce(all, reduction), e)
<1> DEFINE instants == UNION {{s.points[i].at : i \in DOMAIN s.points} : s \in ToSet(all)}
           order == Ascending(instants)
           best(m) == Best(reduction, ValuesAt(all, order[m]))
           made(m) == [at |-> order[m], value |-> best(m)]
           N == 1 .. Cardinality(instants)
<1>1. Reduce(all, reduction) = [m \in DOMAIN order |-> made(m)]
    BY Zenon DEF Reduce
<1>2. \A s \in ToSet(all) : \A i \in DOMAIN s.points : s.points[i] \in ShownAs(e)
    BY DEF ToSet, Shows
<1>3. e.at \in Int /\ e.value \in Int /\ e.value \div 2 \in Int
    BY DEF Exported
<1>4. instants \in SUBSET {e.at}
    BY <1>2 DEF ShownAs
<1>5. IsFiniteSet(instants) /\ instants \in SUBSET Int
    <2>1. IsFiniteSet({e.at})
        BY FS_Singleton
    <2>2. QED BY <1>3, <1>4, <2>1, FS_Subset
<1>6. \A at \in instants : ValuesAt(all, at) # {}
                           /\ ValuesAt(all, at) \in SUBSET {e.value, e.value \div 2}
    <2>1. ASSUME NEW at \in instants PROVE ValuesAt(all, at) # {}
        <3>1. PICK s \in ToSet(all) : \E i \in DOMAIN s.points : s.points[i].at = at
            OBVIOUS
        <3>2. PICK i \in DOMAIN s.points : s.points[i].at = at
            BY <3>1
        <3>3. s.points[i].value \in ValuesAt(all, at)
            BY <3>2 DEF ValuesAt
        <3>4. QED BY <3>3
    <2>2. ASSUME NEW at, NEW v \in ValuesAt(all, at) PROVE v \in {e.value, e.value \div 2}
        <3>1. PICK s \in ToSet(all) : \E i \in DOMAIN s.points : v = s.points[i].value
            BY DEF ValuesAt
        <3>2. QED BY <1>2, <3>1 DEF ShownAs
    <2> HIDE DEF instants
    <2>3. QED BY <2>1, <2>2
<1> HIDE DEF instants
<1>7. Cardinality(instants) \in Nat /\ order \in [N -> instants]
    BY <1>5, AscendingOf
<1> HIDE DEF order
<1>8. ASSUME NEW m \in N PROVE made(m) \in ShownAs(e)
    <2>1. order[m] \in instants /\ order[m] = e.at
        BY <1>4, <1>7
    <2> DEFINE values == ValuesAt(all, order[m])
    <2>2. values # {} /\ values \in SUBSET {e.value, e.value \div 2}
        BY <1>6, <2>1
    <2> HIDE DEF values
    <2>3. IsFiniteSet({e.value, e.value \div 2})
        <3>1. IsFiniteSet({e.value})
            BY FS_Singleton
        <3>2. IsFiniteSet({e.value} \cup {e.value \div 2})
            BY <3>1, FS_AddElement
        <3>3. {e.value} \cup {e.value \div 2} = {e.value, e.value \div 2}
            OBVIOUS
        <3>4. QED BY <3>2, <3>3
    <2>4. IsFiniteSet(values) /\ values \in SUBSET Int
        BY <1>3, <2>2, <2>3, FS_Subset
    <2>5. Best(reduction, values) \in values
        BY <2>2, <2>4, BestOf
    <2>6. best(m) \in {e.value, e.value \div 2}
        BY <2>2, <2>5 DEF values
    <2> HIDE DEF best
    <2>7. QED BY <2>1, <2>6 DEF ShownAs
<1> HIDE DEF made
<1>9. Reduce(all, reduction) \in [N -> ShownAs(e)]
    BY <1>1, <1>7, <1>8
<1>10. QED BY <1>7, <1>9, ListIsASeq DEF Shows

(* What a rule is judged on is what the agent of its host exported last.   *)
LEMMA CandidateOf ==
    ASSUME NEW exports, ExportsTyped(exports), NEW cfg, Bounded(cfg), NEW now, NEW outage,
           NEW o, o = Observation(exports, cfg, now, outage), NEW rule, NEW h,
           NEW points, points = Candidate(o, rule, h)
    PROVE  \/ points = << >>
           \/ h \in Hosts /\ exports[h] # None /\ exports[h] \in Exported
              /\ Shows(points, exports[h])
<1> DEFINE plan == PlanQueries(cfg)
           raw == SeriesFor(o, h, rule.metric)
           normal == NormalizedFor(o, rule, h)
<1>1. PICK n \in Nat : DOMAIN plan = 1 .. n
    BY PlanIsAList
<1>2. /\ DOMAIN o.series = 1 .. n
      /\ \A i \in 1 .. n : o.series[i].result.ok =>
            o.series[i].result.series = Answer(exports, plan[i], now)
            /\ o.series[i].spec = plan[i]
    BY <1>1 DEF Observation, Failed, Returned
<1> HIDE DEF plan
<1>3. ASSUME NEW i \in 1 .. n, o.series[i].result.ok
      PROVE  \E m \in Nat : /\ DOMAIN o.series[i].result.series = 1 .. m
                            /\ \A k \in 1 .. m : AsSampled(o.series[i].result.series[k],
                                                           exports, plan[i].metric)
    BY <1>2, <1>3, AnswerOf
<1>4. ListsAnswers(o)
    BY <1>2, <1>3 DEF ListsAnswers
<1>5. PICK count \in Nat :
          /\ DOMAIN raw = 1 .. count
          /\ \A c \in 1 .. count : \E p \in Matching(o, h, rule.metric) :
                raw[c] = o.series[p[1]].result.series[p[2]]
    BY <1>4, SeriesForOf
<1> HIDE DEF raw
<1>6. ASSUME NEW c \in 1 .. count
      PROVE  /\ h \in Hosts /\ exports[h] # None /\ exports[h] \in Exported
             /\ Shows(Normalize(raw[c]).points, exports[h])
    <2>1. PICK p \in Matching(o, h, rule.metric) :
              raw[c] = o.series[p[1]].result.series[p[2]]
        BY <1>5
    <2>2. /\ p[1] \in 1 .. n /\ o.series[p[1]].result.ok
          /\ p[2] \in DOMAIN o.series[p[1]].result.series
          /\ raw[c].host = h
        <3>1. PICK i \in AnswersAbout(o, h, rule.metric) :
                  /\ p \in {i} \X DOMAIN o.series[i].result.series
                  /\ IsOf(o.series[p[1]].result.series[p[2]], h, rule.metric)
            BY <2>1 DEF Matching
        <3>2. p[1] = i /\ p[2] \in DOMAIN o.series[i].result.series
            BY <3>1
        <3>3. i \in 1 .. n /\ o.series[i].result.ok
            BY <1>2, <3>1 DEF AnswersAbout
        <3>4. raw[c].host = h
            BY <2>1, <3>1 DEF IsOf
        <3>5. QED BY <3>2, <3>3, <3>4
    <2>3. AsSampled(raw[c], exports, plan[p[1]].metric)
        BY <1>3, <2>1, <2>2
    <2>4. PICK g \in Hosts : \E a :
              /\ exports[g] # None
              /\ raw[c] = [host |-> g, kind |-> plan[p[1]].metric, attributes |-> a,
                           points |-> << SampleOf(exports[g], a) >>]
        BY <2>3 DEF AsSampled
    <2>5. g = h
        BY <2>2, <2>4
    <2>6. exports[h] \in Exported
        BY <2>4, <2>5 DEF ExportsTyped
    <2>7. Shows(Normalize(raw[c]).points, exports[h])
        BY <2>4, <2>5, <2>6, NormalizeOf
    <2>8. QED BY <2>4, <2>5, <2>6, <2>7
<1>7. /\ DOMAIN normal = 1 .. count
      /\ \A c \in 1 .. count : normal[c] = Normalize(raw[c])
    BY <1>5 DEF NormalizedFor, raw
<1>8. points = IF normal = << >> THEN << >> ELSE Reduce(normal, ReductionFor(rule.comparator))
    BY DEF Candidate
<1> HIDE DEF normal
<1>9. CASE normal = << >>
    BY <1>8, <1>9
<1>10. CASE normal # << >>
    <2>1. count # 0
        <3>1. ASSUME count = 0 PROVE FALSE
            <4>1. DOMAIN normal = {}
                BY <1>7, <3>1
            <4>2. normal = << >>
                BY <4>1 DEF normal, NormalizedFor
            <4>3. QED BY <1>10, <4>2
        <3>2. QED BY <3>1
    <2>2. h \in Hosts /\ exports[h] # None /\ exports[h] \in Exported
        BY <1>6, <2>1
    <2>3. \A c \in 1 .. count : Shows(normal[c].points, exports[h])
        BY <1>6, <1>7
    <2>4. Shows(points, exports[h])
        BY <1>7, <1>8, <1>10, <2>2, <2>3, ReduceOf
    <2>5. QED BY <2>2, <2>4
<1>11. QED BY <1>9, <1>10

-----------------------------------------------------------------------------
(***************************************************************************)
(* The verdicts on the hosts.                                              *)
(***************************************************************************)
(* Hosts whose heartbeats and verdicts have instants, no verdict later than *)
(* one.                                                                    *)
Dated(hosts, now) ==
    \A h \in DOMAIN hosts :
       /\ hosts[h].beat \in Int \cup {None}
       /\ hosts[h].livenessAt \in Int /\ hosts[h].livenessAt <= now

BeatsKnown(roster) == \A h \in DOMAIN roster : roster[h].beat \in Int

(* A verdict of this instant is on the last heartbeat known, which is no   *)
(* earlier than the one listed.                                            *)
JudgedNow(host, roster, h, now, t) ==
    /\ host.liveness = Liveness(t.liveness, host.beat, now - t.lag)
    /\ h \in DOMAIN roster => host.beat \in Int /\ host.beat >= roster[h].beat

LEMMA MergeOf ==
    ASSUME NEW r, RecordOf(HostFields, r), r.beat \in Int \cup {None},
           NEW host, host.beat \in Int
    PROVE  /\ RecordOf(HostFields, Merge(r, host))
           /\ Merge(r, host).beat \in Int /\ Merge(r, host).beat >= host.beat
<1> DEFINE beat == IF r.beat = None THEN host.beat
                   ELSE IF host.beat # None /\ host.beat > r.beat THEN host.beat ELSE r.beat
           r1 == [r EXCEPT !.beat = beat]
           os == IF host.os # "Other" THEN host.os ELSE r1.os
<1>1. Merge(r, host) = [r1 EXCEPT !.os = os]
    BY DEF Merge
<1>2. beat \in Int /\ beat >= host.beat
    BY TelemetryAssumption
<1> HIDE DEF beat, os
<1>3. RecordOf(HostFields, r1) /\ r1.beat = beat
    BY RecordExcept DEF HostFields
<1> HIDE DEF r1
<1>4. /\ RecordOf(HostFields, [r1 EXCEPT !.os = os])
      /\ [r1 EXCEPT !.os = os].beat = r1.beat
    BY <1>3, RecordExcept DEF HostFields
<1>5. QED BY <1>1, <1>2, <1>3, <1>4

(* Sighted, a host has a heartbeat no earlier than the one listed.         *)
LEMMA SightedIsDated ==
    ASSUME NEW f, HostsShaped(f.hosts), NEW before, Dated(f.hosts, before),
           NEW roster, BeatsKnown(roster), NEW now, NEW g, g = Sighted(f, roster, now)
    PROVE  \A h \in DOMAIN g :
              /\ RecordOf(HostFields, g[h]) /\ g[h].beat \in Int \cup {None}
              /\ h \in DOMAIN roster => g[h].beat \in Int /\ g[h].beat >= roster[h].beat
<1>1. DOMAIN g = DOMAIN f.hosts \cup DOMAIN roster
    BY DEF Sighted
<1>2. ASSUME NEW h \in DOMAIN g, h \notin DOMAIN roster
      PROVE  RecordOf(HostFields, g[h]) /\ g[h].beat \in Int \cup {None}
    <2>1. g[h] = [f.hosts[h] EXCEPT !.listed = FALSE]
        BY <1>1, <1>2 DEF Sighted
    <2>2. RecordOf(HostFields, f.hosts[h]) /\ f.hosts[h].beat \in Int \cup {None}
        BY <1>1, <1>2 DEF HostsShaped, Dated
    <2>3. RecordOf(HostFields, g[h]) /\ g[h].beat = f.hosts[h].beat
        BY <2>1, <2>2, RecordExcept DEF HostFields
    <2>4. QED BY <2>2, <2>3
<1>3. ASSUME NEW h \in DOMAIN g, h \in DOMAIN roster
      PROVE  /\ RecordOf(HostFields, g[h])
             /\ g[h].beat \in Int /\ g[h].beat >= roster[h].beat
    <2> DEFINE new == [beat |-> roster[h].beat, os |-> roster[h].os,
                       liveness |-> "Unknown", livenessAt |-> now,
                       seenAt |-> now, listed |-> TRUE]
               record == IF h \in DOMAIN f.hosts THEN Merge(f.hosts[h], roster[h]) ELSE new
               r1 == [record EXCEPT !.seenAt = now]
    <2>1. g[h] = [r1 EXCEPT !.listed = TRUE]
        BY <1>1, <1>3 DEF Sighted
    <2>2. roster[h].beat \in Int
        BY <1>3 DEF BeatsKnown
    <2>3. RecordOf(HostFields, new) /\ new.beat = roster[h].beat
        BY DEF RecordOf, HostFields
    <2> HIDE DEF new
    <2>4. /\ RecordOf(HostFields, record)
          /\ record.beat \in Int /\ record.beat >= roster[h].beat
        BY <2>2, <2>3, MergeOf DEF HostsShaped, Dated
    <2> HIDE DEF record
    <2>5. RecordOf(HostFields, r1) /\ r1.beat = record.beat
        BY <2>4, RecordExcept DEF HostFields
    <2> HIDE DEF r1
    <2>6. RecordOf(HostFields, g[h]) /\ g[h].beat = r1.beat
        BY <2>1, <2>5, RecordExcept DEF HostFields
    <2>7. QED BY <2>4, <2>5, <2>6
<1>4. QED BY <1>2, <1>3

LEMMA JudgedIsDated ==
    ASSUME NEW hosts, NEW h \in DOMAIN hosts, RecordOf(HostFields, hosts[h]),
           NEW now, NEW t, NEW g, g = Judged(hosts, now, t)
    PROVE  /\ g[h].livenessAt = now /\ g[h].beat = hosts[h].beat
           /\ g[h].liveness = Liveness(t.liveness, hosts[h].beat, now - t.lag)
<1> DEFINE liveness == Liveness(t.liveness, hosts[h].beat, now - t.lag)
           r1 == [hosts[h] EXCEPT !.liveness = liveness]
<1>1. g[h] = [r1 EXCEPT !.livenessAt = now]
    BY DEF Judged
<1> HIDE DEF liveness
<1>2. RecordOf(HostFields, r1) /\ r1.beat = hosts[h].beat /\ r1.liveness = liveness
    BY RecordExcept DEF HostFields
<1> HIDE DEF r1
<1>3. g[h].livenessAt = now /\ g[h].beat = r1.beat /\ g[h].liveness = r1.liveness
    BY <1>1, <1>2, RecordExcept DEF HostFields
<1>4. QED BY <1>2, <1>3 DEF liveness

(* After a fold a verdict that names its instant is of its roster.         *)
LEMMA HostsAfterAreDated ==
    ASSUME NEW f, HostsShaped(f.hosts), NEW before \in Nat, Dated(f.hosts, before),
           NEW o, Observes(o, before), o.roster.kind = "Listed" => BeatsKnown(o.roster.hosts),
           NEW t, NEW g, g = HostsAfter(f, o, t)
    PROVE  /\ Dated(g, o.at)
           /\ \A h \in DOMAIN g : g[h].livenessAt = o.at =>
                 /\ o.roster.kind = "Listed"
                 /\ JudgedNow(g[h], o.roster.hosts, h, o.at, t)
<1>1. o.at \in Nat /\ o.at > before
    BY DEF Observes
<1>2. CASE o.roster.kind # "Listed"
    <2>1. g = f.hosts
        BY <1>2 DEF HostsAfter
    <2>2. QED BY <1>1, <2>1 DEF Dated
<1>3. CASE o.roster.kind = "Listed"
    <2> DEFINE roster == o.roster.hosts
               sighted == Sighted(f, roster, o.at)
               judged == JudgedHosts(f, o, t)
               kept == Retained(judged, o.at, t)
    <2>1. g = HostsKept(judged, kept)
        BY <1>3 DEF HostsAfter
    <2>2. kept \subseteq DOMAIN judged
        BY DEF Retained
    <2>3. judged = Judged(sighted, o.at, t) /\ DOMAIN judged = DOMAIN sighted
        BY DEF JudgedHosts, Judged
    <2>4. \A h \in DOMAIN sighted :
              /\ RecordOf(HostFields, sighted[h]) /\ sighted[h].beat \in Int \cup {None}
              /\ h \in DOMAIN roster => sighted[h].beat \in Int /\ sighted[h].beat >= roster[h].beat
        BY <1>3, SightedIsDated
    <2> HIDE DEF sighted, judged, kept
    <2>5. \A h \in DOMAIN judged :
              /\ judged[h].livenessAt = o.at /\ judged[h].beat = sighted[h].beat
              /\ judged[h].liveness = Liveness(t.liveness, sighted[h].beat, o.at - t.lag)
        BY <2>3, <2>4, JudgedIsDated
    <2>6. \A h \in DOMAIN g : h \in DOMAIN judged /\ g[h] = judged[h]
        BY <2>1, <2>2 DEF HostsKept
    <2>7. ASSUME NEW h \in DOMAIN g
          PROVE  /\ g[h].beat \in Int \cup {None} /\ g[h].livenessAt = o.at
                 /\ JudgedNow(g[h], roster, h, o.at, t)
        BY <2>3, <2>4, <2>5, <2>6 DEF JudgedNow
    <2>8. QED BY <1>1, <1>3, <2>7 DEF Dated
<1>4. QED BY <1>2, <1>3

-----------------------------------------------------------------------------
(***************************************************************************)
(* The verdicts on the pairs.                                              *)
(***************************************************************************)
(* What a judged rule says, by what it was judged on: without evidence no  *)
(* value, and with a breach the value that breaches.                       *)
Verdict(s, v, rule, now) ==
    \/ s = NoData /\ v = None
    \/ s = Fine /\ v \in Int /\ ~Breaches(rule, v)
    \/ /\ s.phase \in {"Pending", "Firing"} /\ v \in Int /\ Breaches(rule, v)
       /\ s.phase = "Firing" => now - s.since >= rule.dwell

(* A point that is in evidence is the export of its host.                  *)
LEMMA NewestOf ==
    ASSUME NEW e \in Exported, NEW points, Shows(points, e), NEW now,
           NEW point, point = LatestAt(points, now)
    PROVE  point = None \/ (point.at = e.at /\ point.at \in Int /\ point.value \in Int)
<1> DEFINE Point == ShownAs(e)
<1>1. points \in Seq(Point)
    BY DEF Shows
<1>2. e.at \in Int /\ e.value \in Int /\ e.value \div 2 \in Int
    BY DEF Exported
<1>3. \A x \in Point : x.at = e.at /\ x.at \in Int /\ x.value \in Int
    BY <1>2 DEF ShownAs
<1> HIDE DEF Point
<1>4. point \in {None} \cup {points[i] : i \in DOMAIN points}
    BY <1>1, LatestAtIsAPoint
<1>5. \A i \in DOMAIN points : points[i] \in Point
    BY <1>1, ElementOfSeq
<1>6. QED BY <1>3, <1>4, <1>5

LEMMA VerdictOf ==
    ASSUME NEW rule, NEW h, Judgeable(rule, h), NEW points, NEW now, NEW horizon, NEW state,
           NEW point, point = LatestAt(points, now),
           point = None \/ point.value \in Int,
           NEW s, s = Observe(state, rule, h, points, now, horizon),
           NEW v, v = ShownValue(points, now, horizon)
    PROVE  /\ Verdict(s, v, rule, now)
           /\ s.since # None => IsEvidence(point, now, horizon)
<1> DEFINE since == IF state.since = None THEN point.at ELSE state.since
           phase == IF DwellIsOver(since, now, rule.dwell) THEN "Firing" ELSE "Pending"
<1>1. rule.enabled /\ Matches(rule.selector, h)
    BY DEF Judgeable
<1>2. s = IF ~IsEvidence(point, now, horizon) THEN NoData
          ELSE IF ~Breaches(rule, point.value) THEN Fine
          ELSE [phase |-> phase, since |-> since]
    BY <1>1 DEF Observe
<1>3. JudgedPoint(points, now, horizon) = IF IsEvidence(point, now, horizon) THEN point ELSE None
    BY DEF JudgedPoint
<1>4. CASE ~IsEvidence(point, now, horizon)
    <2>1. s = NoData /\ v = None
        BY <1>2, <1>3, <1>4 DEF ShownValue
    <2>2. QED BY <2>1 DEF Verdict, NoData
<1>5. CASE IsEvidence(point, now, horizon)
    <2>1. point # None /\ point.value \in Int
        BY <1>5 DEF IsEvidence
    <2>2. v = point.value
        BY <1>3, <1>5, <2>1 DEF ShownValue
    <2>3. CASE ~Breaches(rule, point.value)
        BY <1>2, <1>5, <2>1, <2>2, <2>3 DEF Verdict
    <2>4. CASE Breaches(rule, point.value)
        <3>1. s = [phase |-> phase, since |-> since]
            BY <1>2, <1>5, <2>4
        <3>2. s.phase = phase /\ s.since = since
            BY <3>1
        <3> HIDE DEF since
        <3>3. s.phase \in {"Pending", "Firing"}
              /\ (s.phase = "Firing" => DwellIsOver(s.since, now, rule.dwell))
            BY <3>2
        <3>4. QED BY <1>5, <2>1, <2>2, <2>4, <3>3 DEF Verdict, DwellIsOver
    <2>5. QED BY <2>3, <2>4
<1>6. QED BY <1>4, <1>5

(* Judged on what was observed, a breach is one the host exported inside   *)
(* the horizon.                                                            *)
LEMMA JudgedOnExports ==
    ASSUME NEW exports, ExportsTyped(exports), NEW cfg, Bounded(cfg), NEW now, NEW outage,
           NEW o, o = Observation(exports, cfg, now, outage),
           NEW rule, NEW h, Judgeable(rule, h), NEW state, NEW horizon,
           NEW s, s = Observe(state, rule, h, Candidate(o, rule, h), o.at, horizon),
           NEW v, v = ShownValue(Candidate(o, rule, h), o.at, horizon)
    PROVE  /\ Verdict(s, v, rule, o.at)
           /\ s.since # None => /\ h \in Hosts /\ exports[h] # None /\ exports[h].at \in Int
                                /\ exports[h].at \in (o.at - horizon) .. o.at
<1> DEFINE points == Candidate(o, rule, h)
           point == LatestAt(points, o.at)
<1>1. \/ points = << >>
      \/ /\ h \in Hosts /\ exports[h] # None /\ exports[h] \in Exported
         /\ Shows(points, exports[h])
    BY CandidateOf
<1> HIDE DEF points
<1>2. CASE points = << >>
    <2>1. {i \in DOMAIN points : points[i].at <= o.at} = {}
        BY <1>2
    <2>2. point = None
        BY <2>1 DEF LatestAt
    <2> HIDE DEF point
    <2>3. ~IsEvidence(point, o.at, horizon)
        BY <2>2 DEF IsEvidence
    <2>4. Verdict(s, v, rule, o.at) /\ (s.since # None => IsEvidence(point, o.at, horizon))
        BY <2>2, VerdictOf DEF point, points
    <2>5. QED BY <2>3, <2>4
<1>3. CASE /\ h \in Hosts /\ exports[h] # None /\ exports[h] \in Exported
           /\ Shows(points, exports[h])
    <2>1. point = None \/ (point.at = exports[h].at /\ point.at \in Int /\ point.value \in Int)
        BY <1>3, NewestOf
    <2> HIDE DEF point
    <2>2. Verdict(s, v, rule, o.at) /\ (s.since # None => IsEvidence(point, o.at, horizon))
        BY <2>1, VerdictOf DEF point, points
    <2>3. QED BY <1>3, <2>1, <2>2 DEF IsEvidence
<1>4. QED BY <1>1, <1>2, <1>3

-----------------------------------------------------------------------------
(***************************************************************************)
(* The evidence, an inductive invariant on top of FoldInv: heartbeats and   *)
(* verdicts have instants, what is shown fits the phase, a host that is     *)
(* Down is silent, and every piece of news is of a pair that is evaluated.  *)
(***************************************************************************)
(* The roster of an observation lists the hosts whose newest export is in  *)
(* its window, as of that export.                                          *)
LEMMA RosterIsExports ==
    ASSUME NEW exports, ExportsTyped(exports), NEW cfg, NEW now, NEW outage,
           NEW o, o = Observation(exports, cfg, now, outage)
    PROVE  /\ o.at = now
           /\ o.roster.kind = "Listed" =>
                 /\ BeatsKnown(o.roster.hosts)
                 /\ \A h \in Hosts : IF Within(exports, h, now, HostWindow(cfg.tuning))
                                     THEN /\ h \in DOMAIN o.roster.hosts
                                          /\ o.roster.hosts[h].beat = exports[h].at
                                     ELSE h \notin DOMAIN o.roster.hosts
<1> DEFINE listed == {h \in Hosts : Within(exports, h, now, HostWindow(cfg.tuning))}
           hosts == [h \in listed |-> [beat |-> exports[h].at, os |-> "Linux"]]
<1>1. o.at = now /\ (o.roster.kind = "Listed" => o.roster.hosts = hosts)
    BY DEF Observation, Listed, RosterFailed
<1>2. \A h \in listed : exports[h].at \in Int
    <2>1. SUFFICES ASSUME NEW h \in listed PROVE exports[h].at \in Int
        OBVIOUS
    <2>2. exports[h] # None /\ exports[h] \in {None} \cup Exported
        BY DEF Within, ExportsTyped
    <2>3. QED BY <2>2 DEF Exported
<1>3. DOMAIN hosts = listed /\ \A h \in listed : hosts[h].beat = exports[h].at
    OBVIOUS
<1> HIDE DEF hosts
<1>4. BeatsKnown(hosts)
    BY <1>2, <1>3 DEF BeatsKnown
<1>5. QED BY <1>1, <1>3, <1>4

(* Whoever is not listed has sent nothing inside the horizon.              *)
LEMMA HorizonIsInTheWindow ==
    ASSUME NEW t \in Tuning, TuningValid(t)
    PROVE  /\ EvidenceHorizon(t) \in Int /\ HostWindow(t) \in Int
           /\ EvidenceHorizon(t) <= HostWindow(t)
<1>1. /\ t.maxStaleness \in 0 .. DurationMax /\ t.lag \in 0 .. DurationMax
      /\ t.liveness \in Policy /\ LivenessUsable(t.liveness)
      /\ DownThreshold(t.liveness) <= MaxTuningDuration
      /\ StaleThreshold(t.liveness) <= MaxTuningDuration
    BY ValidSpans
<1>2. t.maxStaleness <= DownThreshold(t.liveness)
    BY DEF TuningValid, Interlocked
<1>3. DownThreshold(t.liveness) \in Nat /\ t.liveness.beat \in Nat
    BY <1>1, UsablePolicy
<1>4. QED BY <1>1, <1>2, <1>3, TuningAssumption DEF EvidenceHorizon, HostWindow, Saturated

(* The evidence behind what is shown, and behind the news.                 *)
ValueFits(e, rule) ==
    CASE e.state.phase = "NoData" -> e.value = None
      [] e.state.phase = "Ok" -> e.value # None
      [] OTHER -> e.value # None /\ Breaches(rule, e.value)

Fitting(f, hist) ==
    \A p \in DOMAIN f.evals :
       f.evals[p].frozen = None /\ p[2] \in RuleIds(hist.judgedBy) =>
          ValueFits(f.evals[p], RuleOf(hist.judgedBy, p[2]))

Silent(f) ==
    \A p \in DOMAIN f.evals :
       /\ f.hosts[p[1]].liveness = "Down" /\ f.hosts[p[1]].livenessAt = f.asOf
       /\ f.evals[p].frozen = None
       => f.evals[p].state.since = None

Evident(f, hist, now) == Dated(f.hosts, now) /\ Fitting(f, hist) /\ Silent(f)

NewsOf(n, f, o, cfg) ==
    LET rule == RuleOf(cfg, n.pair[2])
        value == ShownValue(Candidate(o, rule, n.pair[1]), o.at, EvidenceHorizon(cfg.tuning))
    IN /\ n.pair \in DOMAIN f.evals
       /\ IsFire(n.from, n.to) =>
             /\ value # None /\ Breaches(rule, value)
             /\ o.at - f.evals[n.pair].state.since >= rule.dwell
       /\ IsResolve(n.from, n.to) => value # None /\ ~Breaches(rule, value)

EvidenceInv ==
    /\ Bounded(config) /\ ExportsTyped(agents)
    /\ Evident(fleet, history, clock) /\ Evident(cache, savedHistory, clock)
    /\ \A n \in news : NewsOf(n, fleet, obs, history.judgedBy)

(* A pair that is judged in this fold, on what its host exported last.     *)
JudgedNowOn(e, o, cfg, p, exports) ==
    LET rule == RuleOf(cfg, p[2])
        value == ShownValue(Candidate(o, rule, p[1]), o.at, EvidenceHorizon(cfg.tuning))
    IN /\ e.frozen = None /\ e.value = value /\ Verdict(e.state, e.value, rule, o.at)
       /\ e.state.since # None =>
             /\ p[1] \in Hosts /\ exports[p[1]] # None /\ exports[p[1]].at \in Int
             /\ exports[p[1]].at \in (o.at - EvidenceHorizon(cfg.tuning)) .. o.at

LEMMA PairEvidence ==
    ASSUME NEW f, Sane(f), NEW exports, ExportsTyped(exports), NEW cfg, Bounded(cfg),
           NEW now \in Nat, NEW outage, NEW o, o = Observation(exports, cfg, now, outage),
           NEW g, g = Apply(f, cfg, o).fleet, NEW p \in DOMAIN g.evals
    PROVE  LET e == g.evals[p]
               before == Prior(f, o, cfg, p)
           IN \/ FrozenAs(e, before, o) /\ e.frozen # None
              \/ JudgedNowOn(e, o, cfg, p, exports)
<1> DEFINE e == g.evals[p]
           before == Prior(f, o, cfg, p)
           rule == RuleOf(cfg, p[2])
<1>1. Judgeable(rule, p[1])
    BY ApplyOf DEF Sane
<1>2. FrozenAs(e, before, o) \/ JudgedAs(e, before, o, cfg, p)
    BY PairAfter
<1>3. o.at \in Nat
    BY DEF Observation
<1> HIDE DEF e, before, rule
<1>4. CASE FrozenAs(e, before, o)
    <2>1. e.frozen # None
        BY <1>3, <1>4, TelemetryAssumption DEF FrozenAs
    <2>2. QED BY <1>4, <2>1 DEF e, before
<1>5. CASE JudgedAs(e, before, o, cfg, p)
    <2> DEFINE horizon == EvidenceHorizon(cfg.tuning)
               points == Candidate(o, rule, p[1])
    <2>1. /\ e.frozen = None
          /\ e.state = Observe(before.state, rule, p[1], points, o.at, horizon)
          /\ e.value = ShownValue(points, o.at, horizon)
        BY <1>5 DEF JudgedAs, rule
    <2>2. /\ Verdict(e.state, e.value, rule, o.at)
          /\ e.state.since # None =>
                /\ p[1] \in Hosts /\ exports[p[1]] # None /\ exports[p[1]].at \in Int
                /\ exports[p[1]].at \in (o.at - horizon) .. o.at
        BY <1>1, <2>1, JudgedOnExports
    <2>3. QED BY <2>1, <2>2 DEF JudgedNowOn, e, before, rule
<1>6. QED BY <1>2, <1>4, <1>5

LEMMA FoldFits ==
    ASSUME NEW f, Sane(f), NEW exports, ExportsTyped(exports), NEW cfg, Bounded(cfg),
           NEW now \in Nat, NEW outage, NEW o, o = Observation(exports, cfg, now, outage),
           NEW g, g = Apply(f, cfg, o).fleet, NEW hist, hist.judgedBy = cfg
    PROVE  Fitting(g, hist)
<1>1. SUFFICES ASSUME NEW p \in DOMAIN g.evals, g.evals[p].frozen = None
               PROVE  ValueFits(g.evals[p], RuleOf(cfg, p[2]))
    BY DEF Fitting
<1> DEFINE e == g.evals[p]
           rule == RuleOf(cfg, p[2])
<1>2. JudgedNowOn(e, o, cfg, p, exports)
    BY <1>1, PairEvidence
<1> HIDE DEF e, rule
<1>3. Verdict(e.state, e.value, rule, o.at)
    BY <1>2 DEF JudgedNowOn, rule
<1>4. CASE e.state = NoData /\ e.value = None
    BY <1>4 DEF NoData, ValueFits, e, rule
<1>5. CASE e.state = Fine /\ e.value \in Int
    BY <1>5, TelemetryAssumption DEF Fine, ValueFits, e, rule
<1>6. CASE e.state.phase \in {"Pending", "Firing"} /\ e.value \in Int /\ Breaches(rule, e.value)
    <2>1. e.value # None
        BY <1>6, TelemetryAssumption
    <2>2. e.state.phase # "NoData" /\ e.state.phase # "Ok"
        BY <1>6
    <2>3. ValueFits(e, rule)
        BY <1>6, <2>1, <2>2 DEF ValueFits
    <2>4. QED BY <2>3 DEF e, rule
<1>7. QED BY <1>3, <1>4, <1>5, <1>6 DEF Verdict

(* No pair of a host that is Down now breaches: what it exported by its    *)
(* last heartbeat is beyond the horizon.                                   *)
LEMMA FoldIsSilent ==
    ASSUME NEW f, Sane(f), NEW before \in Nat, Sightings(f.hosts, before),
           Dated(f.hosts, before),
           NEW exports, ExportsTyped(exports), NEW cfg, Bounded(cfg),
           cfg.tuning \in Tuning, TuningValid(cfg.tuning),
           NEW now \in Nat, NEW outage, NEW o, o = Observation(exports, cfg, now, outage),
           Observes(o, before),
           NEW g, g = Apply(f, cfg, o).fleet
    PROVE  Dated(g.hosts, now) /\ Silent(g)
<1> DEFINE t == cfg.tuning
           horizon == EvidenceHorizon(t)
<1>1. /\ g.hosts = HostsAfter(f, o, t) /\ g.asOf = o.at
      /\ DOMAIN g.evals \subseteq (DOMAIN g.hosts) \X RuleIds(cfg)
    BY ApplyOf DEF Sane, BooksAfter
<1>2. /\ o.at = now
      /\ o.roster.kind = "Listed" =>
            /\ BeatsKnown(o.roster.hosts)
            /\ \A h \in Hosts : IF Within(exports, h, now, HostWindow(t))
                                THEN /\ h \in DOMAIN o.roster.hosts
                                     /\ o.roster.hosts[h].beat = exports[h].at
                                ELSE h \notin DOMAIN o.roster.hosts
    BY RosterIsExports
<1>3. /\ Dated(g.hosts, o.at)
      /\ \A h \in DOMAIN g.hosts : g.hosts[h].livenessAt = o.at =>
            /\ o.roster.kind = "Listed"
            /\ JudgedNow(g.hosts[h], o.roster.hosts, h, o.at, t)
    BY <1>1, <1>2, HostsAfterAreDated DEF Sightings
<1>4. horizon \in Int /\ HostWindow(t) \in Int /\ horizon <= HostWindow(t)
    BY HorizonIsInTheWindow
<1>5. ASSUME NEW p \in DOMAIN g.evals, g.hosts[p[1]].liveness = "Down",
             g.hosts[p[1]].livenessAt = o.at, g.evals[p].frozen = None,
             g.evals[p].state.since # None
      PROVE  FALSE
    <2> DEFINE h == p[1]
               host == g.hosts[h]
               at == exports[h].at
    <2>1. h \in DOMAIN g.hosts
        BY <1>1
    <2>2. JudgedNowOn(g.evals[p], o, cfg, p, exports)
        BY <1>5, PairEvidence
    <2>3. /\ h \in Hosts /\ exports[h] # None /\ at \in Int
          /\ now - at <= horizon
        BY <1>2, <1>4, <1>5, <2>2 DEF JudgedNowOn
    <2> HIDE DEF h
    <2>4. /\ o.roster.kind = "Listed" /\ JudgedNow(host, o.roster.hosts, h, now, t)
          /\ host.liveness = "Down" /\ host.beat \in Int \cup {None}
        BY <1>2, <1>3, <1>5, <2>1 DEF h, Dated
    <2> HIDE DEF host, at
    <2>5. host.beat \in Int
        BY <2>4 DEF JudgedNow, Liveness
    <2>6. now - host.beat > horizon
        BY <2>4, <2>5, DownIsBeyondTheHorizon DEF JudgedNow
    <2>7. Within(exports, h, now, HostWindow(t))
        BY <1>4, <2>3 DEF Within, at
    <2>8. h \in DOMAIN o.roster.hosts /\ o.roster.hosts[h].beat = at
        BY <1>2, <2>3, <2>4, <2>7 DEF at
    <2>9. host.beat >= at
        BY <2>4, <2>8 DEF JudgedNow
    <2>10. QED BY <1>4, <2>3, <2>5, <2>6, <2>9
<1>6. QED BY <1>1, <1>2, <1>3, <1>5 DEF Silent

LEMMA VerdictPhases ==
    ASSUME NEW s, NEW v, NEW rule, NEW now, Verdict(s, v, rule, now)
    PROVE  /\ s.phase = "Firing" => /\ v # None /\ Breaches(rule, v)
                                    /\ now - s.since >= rule.dwell
           /\ s.phase = "Ok" => v # None /\ ~Breaches(rule, v)
<1>1. CASE s = NoData
    BY <1>1 DEF NoData
<1>2. CASE s = Fine /\ v \in Int /\ ~Breaches(rule, v)
    BY <1>2, TelemetryAssumption DEF Fine
<1>3. CASE /\ s.phase \in {"Pending", "Firing"} /\ v \in Int /\ Breaches(rule, v)
           /\ s.phase = "Firing" => now - s.since >= rule.dwell
    BY <1>3, TelemetryAssumption
<1>4. QED BY <1>1, <1>2, <1>3 DEF Verdict

(* News is of pairs judged in this fold: one that is frozen has the phase  *)
(* it had, or none.                                                        *)
LEMMA FoldIsNews ==
    ASSUME NEW f, Sane(f), NEW exports, ExportsTyped(exports), NEW cfg, Bounded(cfg),
           NEW now \in Nat, NEW outage, NEW o, o = Observation(exports, cfg, now, outage),
           NEW u, u = Apply(f, cfg, o), NEW n \in u.transitions
    PROVE  NewsOf(n, u.fleet, o, cfg)
<1> DEFINE g == u.fleet
           p == n.pair
           e == g.evals[p]
           before == Prior(f, o, cfg, p)
           rule == RuleOf(cfg, p[2])
           value == ShownValue(Candidate(o, rule, p[1]), o.at, EvidenceHorizon(cfg.tuning))
<1>1. u.transitions = TransitionsSince(f.evals, g.evals)
    BY ApplyOf DEF Sane
<1>2. /\ p \in DOMAIN g.evals /\ n.from = PhaseOf(f.evals, p)
      /\ n.to = g.evals[p].state.phase /\ n.from # n.to
    BY <1>1 DEF TransitionsSince
<1>3. \/ FrozenAs(e, before, o) /\ e.frozen # None
      \/ JudgedNowOn(e, o, cfg, p, exports)
    BY <1>2, PairEvidence
<1>4. n.to = e.state.phase
    BY <1>2
<1>5. before.state.phase \in {n.from, "NoData"}
    BY <1>2 DEF Prior, PhaseOf, FreshEvaluation, NoData
<1> HIDE DEF g, p, e, before, rule, value
<1>6. CASE FrozenAs(e, before, o)
    <2>1. n.to = "NoData"
        BY <1>2, <1>4, <1>5, <1>6 DEF FrozenAs
    <2>2. ~IsFire(n.from, n.to) /\ ~IsResolve(n.from, n.to)
        BY <2>1 DEF IsFire, IsResolve
    <2>3. QED BY <1>2, <2>2 DEF NewsOf, g, p
<1>7. CASE JudgedNowOn(e, o, cfg, p, exports)
    <2>1. e.value = value /\ Verdict(e.state, value, rule, o.at)
        BY <1>7 DEF JudgedNowOn, rule, value
    <2>2. n.to = "Firing" =>
              /\ value # None /\ Breaches(rule, value)
              /\ o.at - e.state.since >= rule.dwell
        BY <1>4, <2>1, VerdictPhases
    <2>3. n.to = "Ok" => value # None /\ ~Breaches(rule, value)
        BY <1>4, <2>1, VerdictPhases
    <2>4. /\ IsFire(n.from, n.to) =>
                /\ value # None /\ Breaches(rule, value)
                /\ o.at - e.state.since >= rule.dwell
          /\ IsResolve(n.from, n.to) => value # None /\ ~Breaches(rule, value)
        BY <2>2, <2>3 DEF IsFire, IsResolve
    <2>5. QED BY <1>2, <2>4 DEF NewsOf, g, p, e, rule, value
<1>8. QED BY <1>3, <1>6, <1>7

LEMMA AcceptedIsBounded ==
    ASSUME NEW record \in Records, ConfigFromRecord(record).ok,
           NEW c, c = ConfigFromRecord(record).value
    PROVE  Bounded(c)
<1> DEFINE tuning == TuningFromRecord(record.tuning)
           rules == DecodeRules(record.rulesJson)
           metrics == {r.metric : r \in EnabledRules(c)}
           metricOf == [r \in EnabledRules(c) |-> r.metric]
<1>1. /\ rules.ok /\ c.rules = rules.value /\ c.overview = record.overview
      /\ c.detail = record.detail
    <2> HIDE DEF tuning, rules
    <2>1. tuning.ok /\ record.environment \notin UnusableNames /\ rules.ok
        BY DEF ConfigFromRecord, Accepted, Refused, tuning, rules
    <2>2. ConfigFromRecord(record).value =
            [environment |-> record.environment, tuning |-> tuning.value,
             rules |-> rules.value, overview |-> record.overview,
             detail |-> record.detail, focus |-> record.focus]
        BY <2>1 DEF ConfigFromRecord, Accepted, tuning, rules
    <2>3. QED BY <2>1, <2>2
<1>2. record.rulesJson # None /\ c.rules = record.rulesJson.rules
    BY <1>1 DEF DecodeRules, Accepted, Refused
<1>3. IsFiniteSet(c.overview) /\ IsFiniteSet(c.detail) /\ IsFiniteSet(c.rules)
    BY <1>1, <1>2, FoldAssumption
<1>4. EnabledRules(c) \in SUBSET c.rules
    BY DEF EnabledRules
<1>5. IsFiniteSet(EnabledRules(c))
    BY <1>3, <1>4, FS_Subset
<1>6. /\ DOMAIN metricOf = EnabledRules(c)
      /\ metricOf = [r \in EnabledRules(c) |-> metricOf[r]]
      /\ metrics = {metricOf[r] : r \in EnabledRules(c)}
    OBVIOUS
<1> HIDE DEF metricOf, metrics
<1>7. IsFiniteSet(metrics)
    BY <1>5, <1>6, ImageIsFinite
<1>8. PlannedMetrics(c) = c.overview \cup metrics
    BY DEF PlannedMetrics, metrics
<1>9. IsFiniteSet(c.overview \cup metrics)
    BY <1>3, <1>7, FS_Union
<1>10. QED BY <1>3, <1>8, <1>9 DEF Bounded

LEMMA NothingEvident == Evident(NewFleet, NoHistory, 0)
<1>1. NewFleet.hosts = << >> /\ NewFleet.evals = << >>
    BY DEF NewFleet
<1>2. DOMAIN NewFleet.hosts = {} /\ DOMAIN NewFleet.evals = {}
    BY <1>1
<1>3. QED BY <1>2 DEF Evident, Dated, Fitting, Silent

LEMMA EvidentLater ==
    ASSUME NEW f, NEW hist, NEW now \in Nat, Evident(f, hist, now),
           NEW later \in Nat, later >= now
    PROVE  Evident(f, hist, later)
<1>1. Dated(f.hosts, later)
    BY DEF Evident, Dated
<1>2. QED BY <1>1 DEF Evident

LEMMA PollEvidence ==
    ASSUME FoldInv, EvidenceInv, NEW late \in Delays, NEW weather \in Weathers,
           NEW outage, NEW saved, Poll(late, weather, outage, saved)
    PROVE  EvidenceInv'
<1> DEFINE u == Apply(fleet, config, obs')
<1>1. /\ clock' \in Nat /\ clock' > clock /\ obs'.at = clock' /\ Observes(obs', clock)
      /\ fleet' = u.fleet /\ history' = Remembered(u, clock') /\ config' = config
      /\ \/ cache' = fleet' /\ savedHistory' = history'
         \/ UNCHANGED << cache, savedHistory >>
    BY PollIs
<1>2. /\ agents' = Exports(weather, clock')
      /\ obs' = Observation(agents', config, clock', outage) /\ news' = u.transitions
    BY DEF Poll
<1>3. ExportsTyped(agents')
    <2>1. weather.lag \in Nat
        BY FoldAssumption
    <2>2. \A h \in Hosts : agents[h] \in {None} \cup Exported
        BY DEF EvidenceInv, ExportsTyped
    <2>3. ASSUME NEW h \in Hosts PROVE agents'[h] \in {None} \cup Exported
        <3>1. CASE h \in weather.up
            <4>1. agents'[h] = [at |-> clock' - weather.lag,
                                value |-> IF h \in weather.high THEN 3 ELSE 1]
                BY <1>2, <3>1 DEF Exports
            <4>2. QED BY <1>1, <2>1, <4>1 DEF Exported
        <3>2. CASE h \notin weather.up
            BY <1>2, <2>2, <3>2 DEF Exports
        <3>3. QED BY <3>1, <3>2
    <2>4. agents' = [h \in Hosts |-> agents'[h]]
        BY <1>2 DEF Exports
    <2>5. QED BY <2>3, <2>4 DEF ExportsTyped
<1>4. /\ Sane(fleet) /\ Sightings(fleet.hosts, clock) /\ clock \in Nat
      /\ config.tuning \in Tuning /\ TuningValid(config.tuning)
      /\ Bounded(config) /\ Dated(fleet.hosts, clock)
    BY DEF FoldInv, Held, ConfigTyped, EvidenceInv, Evident
<1>5. history'.judgedBy = config
    BY <1>1 DEF Remembered
<1> DEFINE g == u.fleet
           exports == agents'
           o == obs'
           now == clock'
           hist == history'
<1> HIDE DEF u, exports, o, now, hist
<1>6. /\ o = Observation(exports, config, now, outage) /\ ExportsTyped(exports)
      /\ now \in Nat /\ Observes(o, clock) /\ u = Apply(fleet, config, o)
      /\ hist.judgedBy = config
    BY <1>1, <1>2, <1>3, <1>5 DEF u, exports, o, now, hist
<1>7. Fitting(g, hist)
    BY <1>4, <1>6, FoldFits
<1>8. Dated(g.hosts, now) /\ Silent(g)
    BY <1>4, <1>6, FoldIsSilent
<1>9. \A n \in u.transitions : NewsOf(n, g, o, config)
    BY <1>4, <1>6, FoldIsNews
<1>10. Evident(fleet', history', clock')
    BY <1>1, <1>7, <1>8 DEF Evident, now, hist
<1>11. \A n \in news' : NewsOf(n, fleet', obs', history'.judgedBy)
    BY <1>1, <1>2, <1>5, <1>9 DEF o
<1>12. Evident(cache, savedHistory, clock')
    BY <1>1, <1>4, EvidentLater DEF EvidenceInv
<1>13. Evident(cache', savedHistory', clock')
    BY <1>1, <1>10, <1>12
<1>14. Bounded(config')
    BY <1>1, <1>4
<1>15. QED BY <1>3, <1>10, <1>11, <1>13, <1>14 DEF EvidenceInv

LEMMA RestartEvidence ==
    ASSUME FoldInv, EvidenceInv, NEW readable, Restart(readable)
    PROVE  EvidenceInv'
<1>1. /\ clock' = clock /\ config' = config /\ cache' = cache /\ agents' = agents
      /\ savedHistory' = savedHistory /\ news' = {} /\ clock \in Nat
    BY DEF Restart, FoldInv
<1>2. Evident(fleet', history', clock)
    <2>1. CASE readable
        <3>1. fleet' = [cache EXCEPT !.polled = FALSE] /\ history' = savedHistory
            BY <2>1 DEF Restart, Restore
        <3>2. \A y \in Fields \ {"polled"} : fleet'[y] = cache[y]
            BY <3>1, ShapedExcept, SMTT(60) DEF FoldInv, Held, Sane, Fields
        <3>3. /\ fleet'.hosts = cache.hosts /\ fleet'.evals = cache.evals
              /\ fleet'.asOf = cache.asOf
            BY <3>2 DEF Fields
        <3>4. QED BY <3>1, <3>3 DEF EvidenceInv, Evident, Fitting, Silent
    <2>2. CASE ~readable
        <3>1. fleet' = NewFleet /\ history' = NoHistory
            BY <2>2 DEF Restart, Restore
        <3>2. QED BY <1>1, <3>1, NothingEvident, EvidentLater
    <2>3. QED BY <2>1, <2>2
<1>3. Evident(fleet', history', clock') /\ Evident(cache', savedHistory', clock')
    BY <1>1, <1>2 DEF EvidenceInv
<1>4. Bounded(config') /\ ExportsTyped(agents')
    BY <1>1 DEF EvidenceInv
<1>5. QED BY <1>1, <1>3, <1>4 DEF EvidenceInv

LEMMA ForgetEvidence ==
    ASSUME FoldInv, EvidenceInv, NEW h, Forget(h)
    PROVE  EvidenceInv'
<1> DEFINE kept == DOMAIN fleet.hosts \ {h}
           told == {p \in history.told : p[1] # h}
<1>1. /\ clock' = clock /\ config' = config /\ cache' = cache /\ agents' = agents
      /\ savedHistory' = savedHistory /\ obs' = obs
      /\ news' = {n \in news : n.pair[1] # h}
    BY DEF Forget
<1>2. fleet' = KeepHosts(fleet, kept) /\ history' = [history EXCEPT !.told = told]
    BY DEF Forget, ForgetHost
<1>3. Sane(fleet) /\ Housed(fleet) /\ HistoryShaped(history)
    BY DEF FoldInv, Held
<1>4. /\ SameBooks(fleet, fleet')
      /\ fleet'.hosts = HostsKept(fleet.hosts, kept)
      /\ fleet'.evals = PairsKept(fleet.evals, kept)
    BY <1>2, <1>3, KeepHostsOf DEF Sane
<1>5. history'.judgedBy = history.judgedBy
    <2> HIDE DEF told
    <2>1. QED BY <1>2, <1>3, RecordExcept DEF HistoryShaped, HistoryFields
<1>6. fleet'.asOf = fleet.asOf
    BY <1>4 DEF SameBooks, Booked
<1>7. /\ \A g \in DOMAIN fleet'.hosts : g \in DOMAIN fleet.hosts
                                        /\ fleet'.hosts[g] = fleet.hosts[g]
      /\ \A p \in DOMAIN fleet'.evals : /\ p \in DOMAIN fleet.evals
                                        /\ fleet'.evals[p] = fleet.evals[p]
                                        /\ p[1] \in DOMAIN fleet'.hosts
      /\ \A p \in DOMAIN fleet.evals : p[1] # h =>
            p \in DOMAIN fleet'.evals /\ fleet'.evals[p] = fleet.evals[p]
    BY <1>3, <1>4 DEF HostsKept, PairsKept, Housed
<1>8. Evident(fleet, history, clock)
    BY DEF EvidenceInv
<1>9. Evident(fleet', history', clock')
    <2>1. Dated(fleet'.hosts, clock)
        BY <1>7, <1>8 DEF Evident, Dated
    <2>2. Fitting(fleet', history')
        BY <1>5, <1>7, <1>8 DEF Evident, Fitting
    <2>3. Silent(fleet')
        BY <1>6, <1>7, <1>8 DEF Evident, Silent
    <2>4. QED BY <1>1, <2>1, <2>2, <2>3 DEF Evident
<1>10. \A n \in news' : NewsOf(n, fleet', obs', history'.judgedBy)
    <2>1. SUFFICES ASSUME NEW n \in news'
                   PROVE  NewsOf(n, fleet', obs', history'.judgedBy)
        OBVIOUS
    <2>2. n \in news /\ n.pair[1] # h
        BY <1>1
    <2>3. NewsOf(n, fleet, obs, history.judgedBy)
        BY <2>2 DEF EvidenceInv
    <2>4. n.pair \in DOMAIN fleet'.evals /\ fleet'.evals[n.pair] = fleet.evals[n.pair]
        BY <1>7, <2>2, <2>3 DEF NewsOf
    <2>5. QED BY <1>1, <1>5, <2>3, <2>4 DEF NewsOf
<1>11. Bounded(config') /\ ExportsTyped(agents') /\ Evident(cache', savedHistory', clock')
    BY <1>1 DEF EvidenceInv
<1>12. QED BY <1>9, <1>10, <1>11 DEF EvidenceInv

LEMMA SetConfigEvidence ==
    ASSUME EvidenceInv, NEW record \in Records, SetConfig(record)
    PROVE  EvidenceInv'
<1>1. /\ clock' = clock /\ fleet' = fleet /\ history' = history /\ cache' = cache
      /\ savedHistory' = savedHistory /\ obs' = obs /\ news' = news /\ agents' = agents
    BY DEF SetConfig
<1>2. ConfigFromRecord(record).ok /\ config' = ConfigFromRecord(record).value
    BY DEF SetConfig
<1>3. Bounded(config')
    BY <1>2, AcceptedIsBounded
<1>4. QED BY <1>1, <1>3 DEF EvidenceInv

LEMMA EvidenceInvStarts == Init => EvidenceInv
<1> SUFFICES ASSUME Init PROVE EvidenceInv
    OBVIOUS
<1>1. /\ clock = 0 /\ fleet = NewFleet /\ cache = NewFleet /\ news = {}
      /\ history = NoHistory /\ savedHistory = NoHistory /\ config = FirstConfig
      /\ agents = [h \in Hosts |-> None]
    BY DEF Init
<1>2. Bounded(config)
    BY <1>1, FoldAssumption, AcceptedIsBounded DEF FirstConfig
<1>3. ExportsTyped(agents)
    BY <1>1 DEF ExportsTyped
<1>4. QED BY <1>1, <1>2, <1>3, NothingEvident DEF EvidenceInv

LEMMA EvidenceInvStays == FoldInv /\ EvidenceInv /\ [Next]_vars => EvidenceInv'
<1> SUFFICES ASSUME FoldInv, EvidenceInv, [Next]_vars
             PROVE  EvidenceInv'
    OBVIOUS
<1>1. CASE \E late \in Delays, weather \in Weathers, outage \in Outages,
              saved \in BOOLEAN : Poll(late, weather, outage, saved)
    BY <1>1, PollEvidence
<1>2. CASE \E readable \in BOOLEAN : Restart(readable)
    BY <1>2, RestartEvidence
<1>3. CASE \E record \in Records : SetConfig(record)
    BY <1>3, SetConfigEvidence
<1>4. CASE \E h \in Hosts : Forget(h)
    BY <1>4, ForgetEvidence
<1>5. CASE UNCHANGED vars
    BY <1>5 DEF vars, EvidenceInv
<1>6. QED BY <1>1, <1>2, <1>3, <1>4, <1>5 DEF Next

(* Whatever the fleet went through, a notification is about what its poll   *)
(* saw, a judged alert shows the value it is judged by and no other, and    *)
(* the alerts of a host that died are silent when it is called Down         *)
(* (observe_alerts, latest_value, transitions_since; the interlock of       *)
(* max_staleness and down_threshold).                                       *)
THEOREM VerdictsAlwaysHaveEvidence == Spec => []VerdictsHaveEvidence
<1>1. EvidenceInv => NewsIsObserved
    BY DEF EvidenceInv, NewsOf, NewsIsObserved, Since
<1>2. EvidenceInv => ShownValueIsJudged
    BY DEF EvidenceInv, Evident, Fitting, ValueFits, ShownValueIsJudged, Frozen, RuleIds
<1>3. EvidenceInv => DownHostsDoNotAlert
    BY DEF EvidenceInv, Evident, Silent, DownHostsDoNotAlert, Frozen, Breaching
<1>4. EvidenceInv => VerdictsHaveEvidence
    BY <1>1, <1>2, <1>3 DEF VerdictsHaveEvidence
<1>5. QED BY <1>4, FoldInvHolds, EvidenceInvStarts, EvidenceInvStays, PTL DEF Spec
=============================================================================
