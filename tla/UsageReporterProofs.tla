------------------------- MODULE UsageReporterProofs -------------------------
(***************************************************************************)
(* Usage reporting, for any builds, endings of polls, buffer sizes and     *)
(* bounds: no reporter runs against the user's word, the environment's or  *)
(* the build's, and what the backend is told is true and told once.        *)
(***************************************************************************)
EXTENDS UsageReporter, FiniteSetTheorems, SequenceTheorems, WellFoundedInduction,
        TLAPS

-----------------------------------------------------------------------------
(***************************************************************************)
(* Which failure is worst, and what a poll came to.                        *)
(***************************************************************************)
LEMMA LeastOf ==
    ASSUME NEW T \in SUBSET Nat, T # {}
    PROVE  \E n \in T : \A m \in T : n <= m
<1>1. PICK n \in T : \A m \in T : ~(<< m, n >> \in OpToRel(<, Nat))
    BY NatLessThanWellFounded, WFMin
<1>2. \A m \in T : ~(m < n)
    BY <1>1 DEF OpToRel
<1>3. QED BY <1>2

LEMMA KindRankOf ==
    ASSUME NEW k \in MetricKinds
    PROVE  KindRank(k) \in 1..13
<1>1. DOMAIN MetricKindOrder = 1..13
    BY DEF MetricKindOrder
<1>2. \E i \in DOMAIN MetricKindOrder : MetricKindOrder[i] = k
    BY DEF MetricKinds
<1>3. KindRank(k) \in DOMAIN MetricKindOrder
    BY <1>2 DEF KindRank
<1>4. QED BY <1>1, <1>3

Badness(f) == 20 * FailureRank[f.kind] + (14 - SourceOrder(f))

LEMMA BadnessOf ==
    ASSUME NEW f \in PollFailure
    PROVE  /\ FailureRank[f.kind] \in 0..3
           /\ SourceOrder(f) \in 0..13
           /\ Badness(f) \in 1..80
<1>1. FailureRank[f.kind] \in 0..3
    BY DEF PollFailure, FailureKinds, FailureRank
<1>2. SourceOrder(f) \in 0..13
    <2>1. CASE f.source = "Roster"
        BY <2>1 DEF SourceOrder
    <2>2. CASE f.source # "Roster"
        BY <2>2, KindRankOf DEF SourceOrder, PollFailure
    <2>3. QED BY <2>1, <2>2
<1>3. QED BY <1>1, <1>2 DEF Badness

(* The worst of some failures is one of them (worst_failure).              *)
LEMMA WorstIsOne ==
    ASSUME NEW S \in SUBSET PollFailure, S # {}
    PROVE  WorstFailure(S) \in S
<1> DEFINE left == {100 - Badness(f) : f \in S}
<1>1. left \in SUBSET Nat /\ left # {}
    BY BadnessOf
<1> HIDE DEF left
<1>3. PICK n \in left : \A m \in left : n <= m
    BY <1>1, LeastOf
<1>4. PICK f \in S : n = 100 - Badness(f)
    BY DEF left
<1>5. \A g \in S : 100 - Badness(g) \in left
    BY DEF left
<1>6. \A g \in S : AsBad(f, g)
    <2> SUFFICES ASSUME NEW g \in S PROVE AsBad(f, g)
        OBVIOUS
    <2>1. Badness(f) >= Badness(g)
        BY <1>3, <1>4, <1>5, BadnessOf
    <2>2. /\ FailureRank[f.kind] \in 0..3 /\ SourceOrder(f) \in 0..13
          /\ FailureRank[g.kind] \in 0..3 /\ SourceOrder(g) \in 0..13
        BY BadnessOf
    <2>3. QED BY <2>1, <2>2 DEF Badness, AsBad
<1>7. QED BY <1>6 DEF WorstFailure

EndingOf(o) ==
    /\ o.roster.kind \in {"Listed", "Failed"}
    /\ o.roster.kind = "Failed" => o.roster.failure \in FailureKinds
    /\ \A i \in DOMAIN o.series :
         /\ o.series[i].spec.metric \in MetricKinds
         /\ o.series[i].result.ok \in BOOLEAN
         /\ ~o.series[i].result.ok => o.series[i].result.failure \in FailureKinds

LEMMA FailuresOf ==
    ASSUME NEW o, EndingOf(o)
    PROVE  /\ Failures(o) \in SUBSET PollFailure
           /\ IsClean(o) <=> Failures(o) = {}
<1>1. Failures(o) \in SUBSET PollFailure
    BY DEF Failures, EndingOf, PollFailure, ToSet
<1>2. ASSUME Failures(o) = {} PROVE IsClean(o)
    <2>1. o.roster.kind # "Failed"
        BY <1>2 DEF Failures
    <2>2. \A x \in ToSet(o.series) : x.result.ok
        BY <1>2 DEF Failures
    <2>3. QED BY <2>1, <2>2 DEF IsClean, EndingOf, ToSet
<1>3. ASSUME IsClean(o) PROVE Failures(o) = {}
    <2>1. {x \in {o.roster} : x.kind = "Failed"} = {}
        BY <1>3 DEF IsClean
    <2>2. {x \in ToSet(o.series) : ~x.result.ok} = {}
        BY <1>3 DEF IsClean, ToSet
    <2>3. QED BY <2>1, <2>2 DEF Failures
<1>4. QED BY <1>1, <1>2, <1>3

Instant == Nat \cup {None}
Freshness ==
    [asOf : Instant, lastRoster : Instant, lastClean : Instant, failures : Nat,
     lastFailure : PollFailure \cup {None}, polled : BOOLEAN]

LEMMA OutcomeOfKindOf ==
    ASSUME NEW k \in FailureKinds
    PROVE  OutcomeOfKind(k) \in Outcomes \ {"Ok", "Partial"}
    BY DEF FailureKinds, OutcomeOfKind, Outcomes

(* The outcome read off the memory of a fleet is the outcome of the poll   *)
(* just folded, if no older poll at the same instant listed the hosts.     *)
LEMMA FoldedOf ==
    ASSUME NEW f \in Freshness, NEW o, EndingOf(o), o.at \in Nat,
           NEW g, g = RecordBookkeeping(f, o)
    PROVE  /\ g \in Freshness
           /\ g.lastRoster \in {o.at, f.lastRoster}
           /\ OutcomeOf(o) \in Outcomes
           /\ f.lastRoster # o.at => PollOutcome(g) = OutcomeOf(o)
<1> DEFINE all == Failures(o)
           worst == WorstFailure(all)
<1>1. all \in SUBSET PollFailure /\ (IsClean(o) <=> all = {})
    BY FailuresOf
<1>2. /\ all # {} => worst \in PollFailure
      /\ all = {} => worst = None
    BY <1>1, WorstIsOne DEF WorstFailure
<1>3. None \notin PollFailure /\ None \notin Nat
    BY NoneAssumption, TelemetryAssumption
<1> HIDE DEF all, worst
<1>4. g = [asOf |-> o.at,
           lastRoster |-> IF o.roster.kind = "Listed" THEN o.at ELSE f.lastRoster,
           lastClean |-> IF IsClean(o) THEN o.at ELSE f.lastClean,
           failures |-> IF all = {} THEN 0 ELSE f.failures + 1,
           lastFailure |-> worst, polled |-> TRUE]
    BY DEF RecordBookkeeping, Freshness, all, worst
<1>5. g \in Freshness /\ g.lastRoster \in {o.at, f.lastRoster}
    BY <1>1, <1>2, <1>4 DEF Freshness, Instant
<1>6. CASE all = {}
    <2>1. PollOutcome(g) = "Ok" /\ OutcomeOf(o) = "Ok"
        BY <1>1, <1>4, <1>6 DEF PollOutcome, OutcomeOf
    <2>2. QED BY <1>5, <2>1 DEF Outcomes
<1>7. CASE all # {}
    <2>1. ~IsClean(o) /\ g.failures # 0
        BY <1>1, <1>4, <1>7 DEF Freshness
    <2>2. CASE o.roster.kind = "Listed"
        <3>1. PollOutcome(g) = "Partial" /\ OutcomeOf(o) = "Partial"
            BY <1>3, <1>4, <2>1, <2>2 DEF PollOutcome, OutcomeOf
        <3>2. QED BY <1>5, <3>1 DEF Outcomes
    <2>3. CASE o.roster.kind # "Listed"
        <3>1. worst \in PollFailure /\ worst # None
            BY <1>2, <1>3, <1>7
        <3>2. OutcomeOf(o) = OutcomeOfKind(worst.kind)
            BY <2>1, <2>3 DEF OutcomeOf, worst, all
        <3>3. f.lastRoster # o.at => PollOutcome(g) = OutcomeOfKind(worst.kind)
            BY <1>4, <2>1, <2>3, <3>1 DEF PollOutcome
        <3>4. OutcomeOfKind(worst.kind) \in Outcomes
            BY <3>1, OutcomeOfKindOf DEF PollFailure
        <3>5. QED BY <1>5, <3>2, <3>3, <3>4
    <2>4. QED BY <2>2, <2>3
<1>8. QED BY <1>6, <1>7

-----------------------------------------------------------------------------
(***************************************************************************)
(* A trace, and what one becomes on the wire.                              *)
(***************************************************************************)
TraceFor(poll, outcome, name) ==
    [poll |-> poll,
     spans |-> << [parent |-> None, payload |-> ClientPoll(outcome, BackendKind(name))] >>]

LEMMA TraceForOf ==
    ASSUME NEW poll \in Nat, NEW outcome \in Outcomes, NEW name
    PROVE  /\ TraceFor(poll, outcome, name) \in Trace
           /\ TraceFor(poll, outcome, name).poll = poll
           /\ Len(TraceFor(poll, outcome, name).spans) = 1
<1>1. BackendKind(name) \in BackendKinds
    BY DEF BackendKind, BackendKinds
<1> DEFINE span == [parent |-> None, payload |-> ClientPoll(outcome, BackendKind(name))]
<1>6. ClientPoll(outcome, BackendKind(name)) \in
        [name : {"pessimal.client.poll"}, kind : {"Internal"}, Outcome : Outcomes,
         BackendKind : BackendKinds]
    BY <1>1 DEF ClientPoll
<1>2. span \in Span
    BY <1>6 DEF Span
<1> HIDE DEF span
<1>3. TraceFor(poll, outcome, name) = [poll |-> poll, spans |-> << span >>]
    BY DEF TraceFor, span
<1>4. << span >> \in {<< x >> : x \in Span} /\ Len(<< span >>) = 1
    BY <1>2
<1>5. QED BY <1>3, <1>4 DEF Trace

(* The request carries one span for each trace of the batch, which names   *)
(* its poll and says what became of it (export_trace_request).             *)
LEMMA SpansOnTheWire ==
    ASSUME NEW resource, NEW batch \in Seq(Trace), NEW name, NEW h,
           \A t \in ToSet(batch) : t = TraceFor(t.poll, h[t.poll].outcome, name)
    PROVE  LET spans == ExportTraceRequest(resource, batch).spans
           IN  /\ \A span \in spans : /\ span.traceId \in {t.poll : t \in ToSet(batch)}
                                      /\ span.attributes.Outcome = h[span.traceId].outcome
               /\ \A t \in ToSet(batch) : \E span \in spans : span.traceId = t.poll
               /\ IsFiniteSet(spans)
<1> DEFINE spans == ExportTraceRequest(resource, batch).spans
           Encoded(t) == {EncodeSpan(t, span) : span \in ToSet(t.spans)}
<1>1. spans = UNION {Encoded(t) : t \in ToSet(batch)}
    BY DEF ExportTraceRequest
<1>2. ASSUME NEW t \in ToSet(batch)
      PROVE  /\ \A span \in Encoded(t) : /\ span.traceId = t.poll
                                         /\ span.attributes.Outcome = h[t.poll].outcome
             /\ \E span : Encoded(t) = {span}
    <2> DEFINE only == [parent |-> None,
                        payload |-> ClientPoll(h[t.poll].outcome, BackendKind(name))]
    <2>1. t = TraceFor(t.poll, h[t.poll].outcome, name)
        OBVIOUS
    <2>5. t.spans = << only >>
        BY <2>1 DEF TraceFor
    <2> HIDE DEF only
    <2>2. ToSet(t.spans) = {only}
        BY <2>5 DEF ToSet
    <2>3. only.payload.Outcome = h[t.poll].outcome
        BY DEF only, ClientPoll
    <2>6. Encoded(t) = {EncodeSpan(t, only)}
        BY <2>2
    <2>7. /\ EncodeSpan(t, only).traceId = t.poll
          /\ EncodeSpan(t, only).attributes.Outcome = only.payload.Outcome
        BY DEF EncodeSpan
    <2>8. QED BY <2>3, <2>6, <2>7
<1> HIDE DEF spans, Encoded
<1>3. /\ \A span \in spans : /\ span.traceId \in {t.poll : t \in ToSet(batch)}
                             /\ span.attributes.Outcome = h[span.traceId].outcome
      /\ \A t \in ToSet(batch) : \E span \in spans : span.traceId = t.poll
    BY <1>1, <1>2
<1>4. IsFiniteSet(spans)
    <2> DEFINE D == 1..Len(batch)
               W == [n \in D |-> CHOOSE span : Encoded(batch[n]) = {span}]
    <2>1. Len(batch) \in Nat /\ DOMAIN batch = D
        BY LenProperties
    <2>2. ToSet(batch) = {batch[n] : n \in D}
        BY <2>1 DEF ToSet
    <2>3. IsFiniteSet(D)
        <3>1. 1 \in Int /\ Len(batch) \in Int
            BY <2>1
        <3>2. QED BY <3>1, FS_Interval
    <2> HIDE DEF D
    <2>4. \A n \in D : Encoded(batch[n]) = {W[n]}
        BY <1>2, <2>2
    <2>8. W = [n \in D |-> W[n]]
        OBVIOUS
    <2> HIDE DEF W
    <2>5. W \in [D -> spans] /\ \A span \in spans : \E n \in D : W[n] = span
        <3>1. \A n \in D : W[n] \in spans
            BY <1>1, <2>2, <2>4
        <3>2. \A span \in spans : \E n \in D : span \in Encoded(batch[n])
            BY <1>1, <2>2
        <3>3. QED BY <2>4, <2>8, <3>1, <3>2
    <2>6. W \in Surjection(D, spans)
        BY <2>5 DEF Surjection
    <2>7. QED BY <2>3, <2>6, FS_Surjection
<1>5. QED BY <1>3, <1>4 DEF spans

-----------------------------------------------------------------------------
(***************************************************************************)
(* What a reporter does with its traces, and how a session gets one.       *)
(***************************************************************************)
PollsOf(buffer) == {buffer[n].poll : n \in DOMAIN buffer}
DistinctPolls(buffer) ==
    \A m, n \in DOMAIN buffer : buffer[m].poll = buffer[n].poll => m = n

LEMMA ReporterFields ==
    ASSUME NEW r \in Reporter
    PROVE  /\ r = [install |-> r.install, buffer |-> r.buffer, dropped |-> r.dropped,
                   sent |-> r.sent, rejected |-> r.rejected, failed |-> r.failed,
                   spans |-> r.spans]
           /\ r.install \in Nat /\ r.buffer \in Seq(Trace) /\ r.dropped \in Nat
           /\ r.sent \in Nat /\ r.rejected \in Nat /\ r.failed \in Nat
           /\ r.spans \in Nat /\ r # None
    BY NoneAssumption DEF Reporter

LEMMA OverOf ==
    ASSUME NEW n \in Int
    PROVE  Max({0, n}) = IF n > 0 THEN n ELSE 0
<1>1. \E x \in {0, n} : \A y \in {0, n} : x >= y
    BY SMT
<1>2. Max({0, n}) \in {0, n} /\ \A y \in {0, n} : Max({0, n}) >= y
    BY <1>1 DEF Max
<1>3. QED BY <1>2

LEMMA NewReporterOf ==
    ASSUME NEW process \in Nat
    PROVE  /\ NewReporter(process) \in Reporter
           /\ NewReporter(process) # None
<1>1. << >> \in Seq(Trace)
    BY EmptySeq
<1>2. NewReporter(process) \in Reporter
    BY <1>1 DEF NewReporter, Reporter
<1>3. QED BY <1>2, NoneAssumption

LEMMA RecordedOf ==
    ASSUME NEW r \in Reporter, NEW t \in Trace, NEW q, q = Recorded(r, t)
    PROVE  /\ q \in Reporter /\ q.install = r.install /\ q.spans = r.spans
           /\ Len(q.buffer) <= MaxBufferedTraces
           /\ ToSet(q.buffer) \in SUBSET (ToSet(r.buffer) \cup {t})
           /\ DistinctPolls(r.buffer) /\ t.poll \notin PollsOf(r.buffer)
                => DistinctPolls(q.buffer)
<1> DEFINE all == Append(r.buffer, t)
           over == Max({0, Len(all) - MaxBufferedTraces})
           kept == SubSeq(all, over + 1, Len(all))
<1>1. /\ all \in Seq(Trace) /\ Len(all) = Len(r.buffer) + 1 /\ Len(all) \in Nat
      /\ \A n \in 1..Len(r.buffer) : all[n] = r.buffer[n]
      /\ all[Len(r.buffer) + 1] = t
    BY ReporterFields, AppendProperties, LenProperties
<1>0. r = [install |-> r.install, buffer |-> r.buffer, dropped |-> r.dropped,
           sent |-> r.sent, rejected |-> r.rejected, failed |-> r.failed,
           spans |-> r.spans]
    BY ReporterFields
<1>14. q = [r EXCEPT !.buffer = kept, !.dropped = @ + over]
    BY DEF Recorded
<1> HIDE DEF all
<1>2. over \in Nat /\ over >= Len(all) - MaxBufferedTraces
    <2>1. Len(all) - MaxBufferedTraces \in Int
        BY <1>1, UsageAssumption
    <2>2. over = IF Len(all) - MaxBufferedTraces > 0
                 THEN Len(all) - MaxBufferedTraces ELSE 0
        BY <2>1, OverOf
    <2> HIDE DEF over
    <2>3. QED BY <2>1, <2>2
<1>3. q = [install |-> r.install, buffer |-> kept, dropped |-> r.dropped + over,
           sent |-> r.sent, rejected |-> r.rejected, failed |-> r.failed,
           spans |-> r.spans]
    <2> HIDE DEF kept, over
    <2>1. QED BY <1>0, <1>14
<1> HIDE DEF over
<1>4. \A n \in over + 1 .. Len(all) : all[n] \in Trace
    BY <1>1, <1>2, LenProperties
<1>5. /\ kept \in Seq(Trace)
      /\ Len(kept) = IF over + 1 <= Len(all) THEN Len(all) - over ELSE 0
      /\ \A n \in 1 .. Len(all) - over : kept[n] = all[over + n]
    <2>1. /\ kept \in Seq(Trace)
          /\ Len(kept) = IF over + 1 <= Len(all) THEN Len(all) - (over + 1) + 1 ELSE 0
          /\ \A n \in 1 .. Len(all) - (over + 1) + 1 : kept[n] = all[(over + 1) + n - 1]
        BY <1>1, <1>2, <1>4, SubSeqProperties
    <2>2. QED BY <2>1, <1>1, <1>2
<1> HIDE DEF kept
<1>6. DOMAIN kept = 1..Len(kept) /\ DOMAIN r.buffer = 1..Len(r.buffer) /\ Len(r.buffer) \in Nat
    BY <1>5, LenProperties, ReporterFields
<1>7. q \in Reporter /\ q.install = r.install /\ q.spans = r.spans /\ q.buffer = kept
    BY <1>2, <1>3, <1>5, ReporterFields DEF Reporter
<1>8. Len(kept) <= MaxBufferedTraces
    BY <1>1, <1>2, <1>5, UsageAssumption
<1>9. \A n \in DOMAIN kept : /\ over + n \in 1..Len(all)
                             /\ kept[n] = all[over + n]
    BY <1>1, <1>2, <1>5, <1>6, SMTT(60)
<1>10. \A n \in 1..Len(all) : all[n] = IF n <= Len(r.buffer) THEN r.buffer[n] ELSE t
    BY <1>1, <1>6
<1>11. ToSet(kept) \in SUBSET (ToSet(r.buffer) \cup {t})
    BY <1>6, <1>9, <1>10, <1>1 DEF ToSet
<1>12. ASSUME DistinctPolls(r.buffer), t.poll \notin PollsOf(r.buffer)
       PROVE  DistinctPolls(kept)
    <2>1. \A m, n \in 1..Len(all) : all[m].poll = all[n].poll => m = n
        <3>1. \A n \in 1..Len(all) : \/ n \in DOMAIN r.buffer /\ all[n] = r.buffer[n]
                                     \/ n = Len(r.buffer) + 1 /\ all[n] = t
            BY <1>1, <1>6
        <3>2. \A n \in DOMAIN r.buffer : r.buffer[n].poll # t.poll
            BY <1>12 DEF PollsOf
        <3>3. QED BY <3>1, <3>2, <1>12 DEF DistinctPolls
    <2>2. \A m, n \in DOMAIN kept : over + m = over + n => m = n
        BY <1>2, <1>6
    <2>3. QED BY <1>9, <2>1, <2>2 DEF DistinctPolls
<1>13. QED BY <1>7, <1>8, <1>11, <1>12

LEMMA DrainedOf ==
    ASSUME NEW r \in Reporter, NEW q, q = Drained(r)
    PROVE  /\ q \in Reporter /\ q.install = r.install /\ q.spans = r.spans
           /\ q.buffer = << >>
<1>1. q = [install |-> r.install, buffer |-> << >>, dropped |-> r.dropped,
           sent |-> r.sent, rejected |-> r.rejected, failed |-> r.failed,
           spans |-> r.spans]
    BY ReporterFields DEF Drained
<1>2. << >> \in Seq(Trace)
    BY EmptySeq
<1>3. QED BY <1>1, <1>2, ReporterFields DEF Reporter

Answers == {"Accepted", "Refused", "None"}

LEMMA CountedOf ==
    ASSUME NEW r \in Reporter, NEW n \in Nat, NEW answer \in Answers,
           NEW q, q = Counted(r, answer, n)
    PROVE  /\ q \in Reporter /\ q.install = r.install /\ q.buffer = r.buffer
           /\ q.spans = IF answer = "Accepted" THEN r.spans + n ELSE r.spans
<1>0. r = [install |-> r.install, buffer |-> r.buffer, dropped |-> r.dropped,
           sent |-> r.sent, rejected |-> r.rejected, failed |-> r.failed,
           spans |-> r.spans]
    BY ReporterFields
<1>1. CASE answer = "Accepted"
    <2>1. q = [install |-> r.install, buffer |-> r.buffer, dropped |-> r.dropped,
               sent |-> r.sent + 1, rejected |-> r.rejected, failed |-> r.failed,
               spans |-> r.spans + n]
        BY <1>1, <1>0 DEF Counted
    <2>2. QED BY <1>1, <2>1, ReporterFields DEF Reporter
<1>2. CASE answer = "Refused"
    <2>1. q = [install |-> r.install, buffer |-> r.buffer, dropped |-> r.dropped,
               sent |-> r.sent, rejected |-> r.rejected + 1, failed |-> r.failed,
               spans |-> r.spans]
        BY <1>2, ReporterFields DEF Counted
    <2>2. QED BY <1>2, <2>1, ReporterFields DEF Reporter
<1>3. CASE answer = "None"
    <2>1. q = [install |-> r.install, buffer |-> r.buffer, dropped |-> r.dropped,
               sent |-> r.sent, rejected |-> r.rejected, failed |-> r.failed + 1,
               spans |-> r.spans]
        BY <1>3, ReporterFields DEF Counted
    <2>2. QED BY <1>3, <2>1, ReporterFields DEF Reporter
<1>4. QED BY <1>1, <1>2, <1>3 DEF Answers

Session ==
    [reporter : Reporter \cup {None}, denial : Denials \cup {None},
     freshness : Freshness, poll : Instant]

\* What the state of a session says of the switches it was built under.
InEffect(s, out) ==
    /\ out => s.reporter = None
    /\ s.denial = "OptedOut" => out \/ SaysOff(build.env.PESSIMAL_USAGE_REPORTING)
    /\ s.denial = "DoNotTrack" => IsTruthy(build.env.DO_NOT_TRACK)
    /\ s.denial = "ContinuousIntegration" => IsTruthy(build.env.CI)

(* A session reports only when the user, the environment and the build all *)
(* allow it, and says why when it does not (UsageReporter::build).         *)
LEMMA AssembledOf ==
    ASSUME NEW out \in BOOLEAN, NEW process \in Nat, NEW f \in Freshness,
           NEW s, s = Assembled(out, process, f)
    PROVE  /\ s \in Session /\ s.poll = None /\ s.freshness = f
           /\ s.reporter \in {None, NewReporter(process)}
           /\ s.reporter # None => /\ s.denial = None
                                   /\ FromBundle(build.endpoint, build.key) # None
           /\ s.reporter = None => s.denial \in Denials
           /\ InEffect(s, out)
<1> DEFINE destination == FromBundle(build.endpoint, build.key)
           consent == Resolve(out, destination # None, build.env)
           granted == consent = "Granted" /\ build.tls
<1>1. /\ consent = "Granted" => destination # None /\ ~out
      /\ consent = "OptedOut" => out \/ SaysOff(build.env.PESSIMAL_USAGE_REPORTING)
      /\ consent = "DoNotTrack" => IsTruthy(build.env.DO_NOT_TRACK)
      /\ consent = "ContinuousIntegration" => IsTruthy(build.env.CI)
      /\ consent # "Granted" => consent \in Denials
    <2> HIDE DEF destination
    <2>1. CASE destination = None
        BY <2>1 DEF Resolve, Denials
    <2>2. CASE destination # None /\ (out \/ SaysOff(build.env.PESSIMAL_USAGE_REPORTING))
        BY <2>2 DEF Resolve, Denials
    <2>3. CASE /\ destination # None
               /\ ~out /\ ~SaysOff(build.env.PESSIMAL_USAGE_REPORTING)
        BY <2>3 DEF Resolve, Denials
    <2>4. QED BY <2>1, <2>2, <2>3
<1>2. s = [reporter |-> IF granted THEN NewReporter(process) ELSE None,
           denial |-> IF granted THEN None
                      ELSE IF consent = "Granted" THEN "NoDestination" ELSE consent,
           freshness |-> f, poll |-> None]
    BY DEF Assembled
<1> HIDE DEF consent, destination
<1>3. NewReporter(process) \in Reporter /\ NewReporter(process) # None
    BY NewReporterOf
<1>4. CASE granted
    <2>1. s = [reporter |-> NewReporter(process), denial |-> None,
               freshness |-> f, poll |-> None]
        BY <1>2, <1>4
    <2>2. None \notin Denials /\ None \in Instant
        BY NoneAssumption DEF Instant
    <2>3. s \in Session
        BY <1>3, <2>1, <2>2 DEF Session
    <2>4. InEffect(s, out)
        BY <1>1, <1>4, <2>1, <2>2 DEF InEffect, Denials
    <2>5. FromBundle(build.endpoint, build.key) # None
        BY <1>1, <1>4 DEF destination
    <2>6. QED BY <1>3, <2>1, <2>3, <2>4, <2>5
<1>5. CASE ~granted
    <2>1. PICK d \in Denials : /\ s = [reporter |-> None, denial |-> d,
                                      freshness |-> f, poll |-> None]
                               /\ d = "NoDestination" \/ d = consent
        BY <1>1, <1>2, <1>5 DEF Denials
    <2>2. QED BY <1>1, <2>1 DEF Session, InEffect, Instant
<1>6. QED BY <1>4, <1>5

LEMMA SessionFields ==
    ASSUME NEW s \in Session
    PROVE  /\ s = [reporter |-> s.reporter, denial |-> s.denial,
                   freshness |-> s.freshness, poll |-> s.poll]
           /\ s.reporter \in Reporter \cup {None} /\ s.denial \in Denials \cup {None}
           /\ s.freshness \in Freshness /\ s.poll \in Nat \cup {None}
    BY DEF Session, Instant

(* One session of the process is replaced, the others stay.                *)
LEMMA SessionReplaced ==
    ASSUME NEW ss \in Seq(Session), NEW i \in DOMAIN ss, NEW s \in Session,
           NEW new, new = [ss EXCEPT ![i] = s]
    PROVE  /\ new \in Seq(Session) /\ Len(new) = Len(ss) /\ DOMAIN new = DOMAIN ss
           /\ new[i] = s
           /\ \A j \in DOMAIN ss : j # i => new[j] = ss[j]
<1>1. i \in 1..Len(ss) /\ DOMAIN ss = 1..Len(ss)
    BY LenProperties
<1>2. QED BY <1>1, ExceptSeq, LenProperties

(* A trace has one span, so a batch has as many spans as traces.           *)
LEMMA SpansInOf ==
    ASSUME NEW batch \in Seq(Trace)
    PROVE  SpansIn(batch) = Len(batch)
<1> DEFINE D == DOMAIN batch
           Step(g) == [s \in SUBSET D |->
                         IF s = {} THEN 0
                         ELSE g[s \ {Max(s)}] + Len(batch[Max(s)].spans)]
           F == CHOOSE g : g = Step(g)
           G == [s \in SUBSET D |-> Cardinality(s)]
<1>1. SpansIn(batch) = F[D]
    BY DEF SpansIn, FoldLeft, MapThenFoldSet
<1>2. D = 1..Len(batch) /\ Len(batch) \in Nat
    BY LenProperties
<1>3. \A s \in SUBSET D : IsFiniteSet(s) /\ Cardinality(s) \in Nat
    <2>1. IsFiniteSet(1..Len(batch))
        BY <1>2, FS_Interval
    <2>2. QED BY <1>2, <2>1, FS_Subset, FS_CardinalityType
<1>4. \A s \in SUBSET D : s # {} => Max(s) \in s
    <2> SUFFICES ASSUME NEW s \in SUBSET D, s # {} PROVE Max(s) \in s
        OBVIOUS
    <2> DEFINE below == {Len(batch) - n : n \in s}
    <2>1. below \in SUBSET Nat /\ below # {}
        BY <1>2
    <2>2. PICK m \in below : \A n \in below : m <= n
        BY <2>1, LeastOf
    <2>3. PICK x \in s : m = Len(batch) - x
        OBVIOUS
    <2>4. \A y \in s : x >= y
        <3>1. \A y \in s : y \in Int /\ Len(batch) - y \in below
            BY <1>2
        <3> HIDE DEF below
        <3>2. m \in Int /\ Len(batch) \in Int /\ x \in Int
            BY <1>2, <2>1, <2>2, <2>3
        <3>3. QED BY <2>2, <2>3, <3>1, <3>2
    <2>5. QED BY <2>4 DEF Max
<1>5. \A n \in D : Len(batch[n].spans) = 1
    <2>1. \A n \in D : batch[n] \in Trace
        BY <1>2, ElementOfSeq
    <2>2. QED BY <2>1 DEF Trace
<1> HIDE DEF D
<1>6. \A s \in SUBSET D : s # {} =>
        /\ s \ {Max(s)} \in SUBSET D
        /\ Cardinality(s \ {Max(s)}) = Cardinality(s) - 1
        /\ Len(batch[Max(s)].spans) = 1
    BY <1>3, <1>4, <1>5, FS_RemoveElement
<1>7. G = Step(G)
    <2>1. ASSUME NEW s \in SUBSET D PROVE G[s] = Step(G)[s]
        <3>1. G[s] = Cardinality(s)
            OBVIOUS
        <3>2. CASE s = {}
            BY <3>1, <3>2, FS_EmptySet
        <3>3. CASE s # {}
            <4>1. G[s \ {Max(s)}] = Cardinality(s) - 1
                BY <1>6, <3>3
            <4>2. Step(G)[s] = (Cardinality(s) - 1) + 1
                BY <1>6, <3>3, <4>1
            <4>3. QED BY <1>3, <3>1, <4>2
        <3>4. QED BY <3>2, <3>3
    <2>2. QED BY <2>1
<1> HIDE DEF G
<1>8. F = Step(F)
    BY <1>7
<1> HIDE DEF F
<1>9. \A s \in SUBSET D : F[s] = IF s = {} THEN 0
                                ELSE F[s \ {Max(s)}] + Len(batch[Max(s)].spans)
    BY <1>8
<1> DEFINE bad == {Cardinality(s) : s \in {x \in SUBSET D : F[x] # Cardinality(x)}}
<1>10. bad = {}
    <2> SUFFICES ASSUME bad # {} PROVE FALSE
        OBVIOUS
    <2>1. bad \in SUBSET Nat
        BY <1>3
    <2>2. PICK n \in bad : \A m \in bad : n <= m
        BY <2>1, LeastOf
    <2>3. PICK s \in SUBSET D : F[s] # Cardinality(s) /\ n = Cardinality(s)
        BY <2>2
    <2>4. s # {}
        BY <1>9, <2>3, FS_EmptySet
    <2>5. Cardinality(s \ {Max(s)}) \notin bad
        <3>1. Cardinality(s \ {Max(s)}) = Cardinality(s) - 1 /\ Cardinality(s) \in Nat
            BY <1>3, <1>6, <2>4
        <3> HIDE DEF bad
        <3>2. QED BY <2>2, <2>3, <3>1
    <2>6. F[s \ {Max(s)}] = Cardinality(s) - 1
        BY <1>6, <2>4, <2>5
    <2>7. F[s] = Cardinality(s)
        <3>1. F[s] = F[s \ {Max(s)}] + Len(batch[Max(s)].spans)
            BY <1>9, <2>4
        <3>2. Cardinality(s) \in Nat /\ Len(batch[Max(s)].spans) = 1
            BY <1>3, <1>6, <2>4
        <3>3. QED BY <2>6, <3>1, <3>2
    <2>8. QED BY <2>3, <2>7
<1>11. F[D] = Cardinality(D)
    BY <1>10
<1>12. Cardinality(1..Len(batch)) = Len(batch)
    <2>1. Cardinality(1..Len(batch)) = IF 1 > Len(batch) THEN 0 ELSE Len(batch) - 1 + 1
        BY <1>2, FS_Interval
    <2>2. QED BY <1>2, <2>1
<1>13. QED BY <1>1, <1>2, <1>11, <1>12

-----------------------------------------------------------------------------
(***************************************************************************)
(* A version and a path, as they are on the wire.                          *)
(***************************************************************************)
(* What is left of a version is a part of it from the left                 *)
(* (Version::parse).                                                       *)
LEMMA PrefixOf ==
    ASSUME NEW raw \in Version, NEW keep \in Nat, ParseVersion(raw, keep) # None
    PROVE  IsPrefix(ParseVersion(raw, keep), raw)
<1> DEFINE T == Int \cup {Word}
           n == Min({keep, Len(raw)})
<1>1. raw \in Seq(T) /\ Len(raw) \in Nat /\ \A i \in 1..Len(raw) : raw[i] \in T
    BY LenProperties DEF Version
<1>2. n \in 0..Len(raw)
    <2>1. \E x \in {keep, Len(raw)} : \A y \in {keep, Len(raw)} : x <= y
        BY <1>1
    <2>2. n \in {keep, Len(raw)} /\ n <= Len(raw) /\ n <= keep
        BY <2>1 DEF Min
    <2>3. QED BY <1>1, <2>2
<1>3. ParseVersion(raw, keep) = SubSeq(raw, 1, n)
    BY DEF ParseVersion
<1> HIDE DEF n, T
<1>4. Len(SubSeq(raw, 1, n)) = n
    BY <1>1, <1>2
<1>5. SubSeq(raw, 1, n) \in Seq(T)
    BY <1>1, <1>2
<1>6. SubSeq(SubSeq(raw, 1, n), 1, n) = SubSeq(raw, 1, n)
    BY <1>4, <1>5, SubSeqFull
<1>7. QED BY <1>1, <1>2, <1>3, <1>4, <1>6 DEF IsPrefix

Blank(segment) == segment = ""

(* A path that names one signal path at most, in its end.                  *)
NamesOneSignal(path) ==
    \A n \in DOMAIN path : path[n] \in SignalPaths =>
        \A m \in DOMAIN path : m > n => Blank(path[m])

LEMMA WithoutSlashesOf ==
    ASSUME NEW T, NEW path \in Seq(T), NEW p, p = WithoutSlashes(path)
    PROVE  /\ p \in Seq(T) /\ Len(p) <= Len(path)
           /\ \A n \in 1..Len(p) : p[n] = path[n]
           /\ p # << >> => ~Blank(p[Len(p)])
<1> DEFINE full == {n \in DOMAIN path : ~Blank(path[n])}
<1>0. p = IF full = {} THEN << >> ELSE SubSeq(path, 1, Max(full))
    BY DEF WithoutSlashes, Blank
<1>1. DOMAIN path = 1..Len(path) /\ Len(path) \in Nat /\ \A n \in 1..Len(path) : path[n] \in T
    BY LenProperties
<1>2. CASE full = {}
    <2>1. p = << >>
        BY <1>0, <1>2
    <2>2. QED BY <1>1, <2>1, EmptySeq
<1>3. CASE full # {}
    <2>1. p = SubSeq(path, 1, Max(full))
        BY <1>0, <1>3
    <2> DEFINE below == {Len(path) - n : n \in full}
    <2>2. below \in SUBSET Nat /\ below # {}
        BY <1>1, <1>3
    <2>3. PICK m \in below : \A n \in below : m <= n
        BY <2>2, LeastOf
    <2>4. PICK x \in full : m = Len(path) - x
        OBVIOUS
    <2>5. \A y \in full : y \in Int /\ Len(path) - y \in below
        BY <1>1
    <2>6. m \in Int /\ x \in Int
        BY <1>1, <2>2, <2>3
    <2> HIDE DEF below
    <2>7. \A y \in full : x >= y
        BY <1>1, <2>3, <2>4, <2>5, <2>6
    <2>8. Max(full) \in full
        BY <2>7 DEF Max
    <2> DEFINE n == Max(full)
    <2>9. n \in 1..Len(path) /\ ~Blank(path[n])
        BY <1>1, <2>8
    <2> HIDE DEF n
    <2>10. p = SubSeq(path, 1, n)
        BY <2>1 DEF n
    <2>11. p \in Seq(T) /\ Len(p) = n /\ \A i \in 1..n : p[i] = path[i]
        BY <1>1, <2>9, <2>10
    <2>12. QED BY <1>1, <2>9, <2>11
<1>4. QED BY <1>2, <1>3

LEMMA StripSignalPathOf ==
    ASSUME NEW T, NEW path \in Seq(T), NamesOneSignal(path),
           NEW base, base = StripSignalPath(path)
    PROVE  base \in Seq(T) /\ \A n \in 1..Len(base) : base[n] \notin SignalPaths
<1>1. PICK trimmed : trimmed = WithoutSlashes(path)
    OBVIOUS
<1>2. base = IF trimmed # << >> /\ Last(trimmed) \in SignalPaths
             THEN WithoutSlashes(Front(trimmed)) ELSE trimmed
    BY <1>1 DEF StripSignalPath
<1>3. /\ trimmed \in Seq(T) /\ Len(trimmed) <= Len(path)
      /\ \A n \in 1..Len(trimmed) : trimmed[n] = path[n]
      /\ trimmed # << >> => ~Blank(trimmed[Len(trimmed)])
    BY <1>1, WithoutSlashesOf
<1>4. /\ DOMAIN path = 1..Len(path) /\ Len(path) \in Nat
      /\ DOMAIN trimmed = 1..Len(trimmed) /\ Len(trimmed) \in Nat
      /\ trimmed # << >> => Len(trimmed) \in Nat \ {0}
      /\ Len(trimmed) # 0 => trimmed # << >>
      /\ \A n \in 1..Len(trimmed) : trimmed[n] \in T
    BY <1>3, LenProperties, EmptySeq
\* A signal path of the base is its last segment.
<1>5. \A n \in 1..Len(trimmed) : trimmed[n] \in SignalPaths => n = Len(trimmed)
    <2> SUFFICES ASSUME NEW n \in 1..Len(trimmed), n # Len(trimmed)
                 PROVE  trimmed[n] \notin SignalPaths
        OBVIOUS
    <2> DEFINE last == Len(trimmed)
               all == Len(path)
    <2>5. /\ last \in Nat /\ all \in Nat /\ last <= all /\ n \in 1..last /\ n # last
          /\ DOMAIN path = 1..all /\ (last # 0 => trimmed # << >>)
        BY <1>3, <1>4
    <2> HIDE DEF last, all
    <2>6. n \in 1..all /\ last \in 1..all /\ last \in 1..last /\ last > n /\ last # 0
        BY <2>5
    <2>1. n \in DOMAIN path /\ Len(trimmed) \in DOMAIN path /\ Len(trimmed) > n
        BY <2>5, <2>6 DEF last
    <2>2. trimmed # << >> /\ Len(trimmed) \in 1..Len(trimmed)
        BY <2>5, <2>6 DEF last
    <2>3. trimmed[n] = path[n] /\ ~Blank(path[Len(trimmed)])
        BY <1>3, <2>2
    <2>4. QED BY <2>1, <2>3 DEF NamesOneSignal
<1>6. CASE trimmed # << >> /\ Last(trimmed) \in SignalPaths
    <2>1. PICK front : front = SubSeq(trimmed, 1, Len(trimmed) - 1)
        OBVIOUS
    <2>2. base = WithoutSlashes(front)
        BY <1>2, <1>6, <2>1 DEF Front
    <2>3. /\ front \in Seq(T) /\ Len(front) = Len(trimmed) - 1
          /\ \A n \in 1..Len(front) : front[n] = trimmed[n]
        BY <1>3, <1>4, <1>6, <2>1
    <2>4. /\ base \in Seq(T) /\ Len(base) <= Len(front)
          /\ \A n \in 1..Len(base) : base[n] = front[n]
        BY <2>2, <2>3, WithoutSlashesOf
    <2>5. Len(base) \in Nat
        BY <2>4, LenProperties
    <2>6. ASSUME NEW n \in 1..Len(base) PROVE base[n] \notin SignalPaths
        <3>1. n \in 1..Len(front) /\ n \in 1..Len(trimmed) /\ n # Len(trimmed)
            BY <1>4, <2>3, <2>4, <2>5
        <3>2. QED BY <1>5, <2>3, <2>4, <3>1
    <2>7. QED BY <2>4, <2>6
<1>7. CASE ~(trimmed # << >> /\ Last(trimmed) \in SignalPaths)
    <2>1. base = trimmed
        BY <1>2, <1>7
    <2>2. ASSUME NEW n \in 1..Len(trimmed) PROVE trimmed[n] \notin SignalPaths
        <3>1. trimmed # << >>
            BY <1>4
        <3>2. QED BY <1>5, <1>7, <3>1 DEF Last
    <2>3. QED BY <1>3, <2>1, <2>2
<1>8. QED BY <1>6, <1>7

(* Whatever signal path the base of a build ends in, reports go to the     *)
(* traces path and no other (Destination::new).                            *)
LEMMA TracesUrlOf ==
    ASSUME NEW e \in Endpoint, NEW key, NamesOneSignal(e.path), FromBundle(e, key) # None,
           NEW url, url = TracesUrl(FromBundle(e, key))
    PROVE  /\ Last(url.path) = "v1/traces"
           /\ \A n \in DOMAIN url.path : url.path[n] \in SignalPaths => n = Len(url.path)
<1>1. /\ e.path \in Seq(STRING)
      /\ e = [scheme |-> e.scheme, authority |-> e.authority, path |-> e.path]
    BY DEF Endpoint
<1>2. PICK base : base = StripSignalPath(e.path)
    OBVIOUS
<1>3. PICK path : path = Append(base, "v1/traces")
    OBVIOUS
<1>4. url.path = path
    BY <1>1, <1>2, <1>3 DEF TracesUrl, FromBundle
<1>5. base \in Seq(STRING) /\ \A n \in 1..Len(base) : base[n] \notin SignalPaths
    BY <1>1, <1>2, StripSignalPathOf
<1> DEFINE U == STRING \cup {"v1/traces"}
<1>6. base \in Seq(U) /\ Len(base) \in Nat
    BY <1>5, SeqMonotonic, LenProperties
<1>7. /\ path \in Seq(U) /\ Len(path) = Len(base) + 1
      /\ \A n \in 1..Len(base) : path[n] = base[n]
      /\ path[Len(base) + 1] = "v1/traces"
    BY <1>3, <1>6, AppendProperties
<1> HIDE DEF U
<1>8. DOMAIN path = 1 .. Len(base) + 1
    BY <1>7, LenProperties
<1>9. Last(path) = "v1/traces"
    BY <1>7 DEF Last
<1>10. \A n \in DOMAIN path : path[n] \in SignalPaths => n = Len(path)
    <2> SUFFICES ASSUME NEW n \in DOMAIN path, n # Len(path) PROVE path[n] \notin SignalPaths
        OBVIOUS
    <2>1. n \in 1..Len(base)
        BY <1>6, <1>7, <1>8
    <2>2. QED BY <1>5, <1>7, <2>1
<1>11. QED BY <1>4, <1>9, <1>10

-----------------------------------------------------------------------------
(***************************************************************************)
(* What the steps do to the sessions: each replaces one of them, adds one, *)
(* or starts the process again.                                            *)
(***************************************************************************)
Flush == [session : Nat, by : Nat, batch : Seq(Trace) \cup {None}, arrived : BOOLEAN]
Poll == [optedOut : BOOLEAN, outcome : Outcomes \cup {None}]

Typed ==
    /\ build \in Builds /\ optedOut \in BOOLEAN /\ launch \in Nat \ {0}
    /\ cache \in Freshness
    /\ sessions \in Seq(Session)
    /\ current \in DOMAIN sessions \cup {None}
    /\ flushes \in SUBSET Flush
    /\ history \in Seq(Poll)
    /\ \A i \in DOMAIN sessions :
         sessions[i].poll # None => sessions[i].poll \in DOMAIN history

\* A reporter is allowed to run, of this process and within its bounds.
Proper(s, process) ==
    /\ s.reporter # None => /\ s.denial = None
                            /\ Len(s.reporter.buffer) <= MaxBufferedTraces
                            /\ s.reporter.install = process
                            /\ FromBundle(build.endpoint, build.key) # None
    /\ s.reporter = None => s.denial \in Denials

\* Every session is proper, every flush holds a reporter that exists, and the
\* session in force is built under the switches as they are.
Running ==
    /\ \A i \in DOMAIN sessions : Proper(sessions[i], launch)
    /\ \A f \in flushes : /\ f.session \in DOMAIN sessions
                          /\ sessions[f.session].reporter # None
    /\ current # None => InEffect(sessions[current], optedOut)

With(s, reporter, freshness, poll) ==
    [reporter |-> reporter, denial |-> s.denial, freshness |-> freshness, poll |-> poll]

Replaced(i, s) ==
    /\ i \in DOMAIN sessions
    /\ sessions' \in Seq(Session) /\ DOMAIN sessions' = DOMAIN sessions
    /\ sessions'[i] = s
    /\ \A j \in DOMAIN sessions : j # i => sessions'[j] = sessions[j]

LEMMA WithOf ==
    ASSUME NEW s \in Session, NEW r \in Reporter \cup {None}, NEW x \in Freshness,
           NEW p \in Nat \cup {None}
    PROVE  /\ With(s, r, x, p) \in Session
           /\ [s EXCEPT !.poll = p] = With(s, s.reporter, s.freshness, p)
           /\ [s EXCEPT !.reporter = r] = With(s, r, s.freshness, s.poll)
<1>1. s = [reporter |-> s.reporter, denial |-> s.denial,
           freshness |-> s.freshness, poll |-> s.poll]
    BY SessionFields
<1>2. s.denial \in Denials \cup {None}
    BY SessionFields
<1>3. With(s, r, x, p) \in Session
    BY <1>2 DEF With, Session, Instant
<1>4. [s EXCEPT !.poll = p] = With(s, s.reporter, s.freshness, p)
    BY <1>1 DEF With
<1>5. [s EXCEPT !.reporter = r] = With(s, r, s.freshness, s.poll)
    BY <1>1 DEF With
<1>6. QED BY <1>3, <1>4, <1>5

LEMMA ReplacedBy ==
    ASSUME Typed, NEW i \in DOMAIN sessions, NEW s \in Session,
           sessions' = [sessions EXCEPT ![i] = s]
    PROVE  Replaced(i, s)
<1>1. sessions \in Seq(Session)
    BY DEF Typed
<1>2. QED BY <1>1, SessionReplaced DEF Replaced

LEMMA HistoryOf ==
    ASSUME NEW h \in Seq(Poll)
    PROVE  /\ DOMAIN h = 1..Len(h) /\ Len(h) \in Nat
           /\ \A p \in DOMAIN h : h[p].optedOut \in BOOLEAN /\ h[p] \in Poll
<1>1. DOMAIN h = 1..Len(h) /\ Len(h) \in Nat
    BY LenProperties
<1>2. \A p \in DOMAIN h : h[p] \in Poll
    BY <1>1, ElementOfSeq
<1>3. QED BY <1>1, <1>2 DEF Poll

LEMMA BeginPollSteps ==
    ASSUME Typed, BeginPoll
    PROVE  /\ current # None /\ current \in DOMAIN sessions
           /\ sessions[current].poll = None
           /\ Replaced(current, With(sessions[current], sessions[current].reporter,
                                     sessions[current].freshness, Len(history) + 1))
           /\ history' \in Seq(Poll) /\ Len(history') = Len(history) + 1
           /\ \A p \in DOMAIN history : history'[p] = history[p]
           /\ history'[Len(history) + 1].optedOut = optedOut
           /\ UNCHANGED << build, optedOut, cache, launch, current, flushes, received, twice >>
<1>1. /\ current \in DOMAIN sessions /\ sessions \in Seq(Session) /\ history \in Seq(Poll)
      /\ sessions[current].poll = None /\ optedOut \in BOOLEAN
    BY DEF Typed, BeginPoll
<1>2. sessions[current] \in Session
    BY <1>1, LenProperties
<1>3. Len(history) + 1 \in Nat /\ DOMAIN history = 1..Len(history)
    BY <1>1, HistoryOf
<1> DEFINE s == sessions[current]
           new == With(s, s.reporter, s.freshness, Len(history) + 1)
<1>4. new \in Session /\ [s EXCEPT !.poll = Len(history) + 1] = new
    BY <1>2, <1>3, WithOf, SessionFields
<1>5. sessions' = [sessions EXCEPT ![current] = [s EXCEPT !.poll = Len(history) + 1]]
    BY DEF BeginPoll
<1>6. Replaced(current, new)
    <2> HIDE DEF new
    <2>1. QED BY <1>1, <1>4, <1>5, ReplacedBy
<1>7. [optedOut |-> optedOut, outcome |-> None] \in Poll
    BY <1>1 DEF Poll
<1>8. history' = Append(history, [optedOut |-> optedOut, outcome |-> None])
    BY DEF BeginPoll
<1>9. /\ history' \in Seq(Poll) /\ Len(history') = Len(history) + 1
      /\ \A p \in DOMAIN history : history'[p] = history[p]
      /\ history'[Len(history) + 1] = [optedOut |-> optedOut, outcome |-> None]
    BY <1>1, <1>3, <1>7, <1>8, AppendProperties
<1>10. QED BY <1>1, <1>6, <1>9 DEF BeginPoll

LEMMA DropPollSteps ==
    ASSUME Typed, NEW i \in DOMAIN sessions, DropPoll(i)
    PROVE  Replaced(i, With(sessions[i], sessions[i].reporter, sessions[i].freshness, None))
<1>1. sessions \in Seq(Session) /\ sessions[i] \in Session
    BY LenProperties DEF Typed
<1> DEFINE s == sessions[i]
           new == With(s, s.reporter, s.freshness, None)
<1>2. new \in Session /\ [s EXCEPT !.poll = None] = new
    <2>1. s.reporter \in Reporter \cup {None} /\ s.freshness \in Freshness
        BY <1>1, SessionFields
    <2>2. None \in Nat \cup {None}
        OBVIOUS
    <2>3. QED BY <1>1, <2>1, <2>2, WithOf
<1>3. sessions' = [sessions EXCEPT ![i] = [s EXCEPT !.poll = None]]
    BY DEF DropPoll
<1> HIDE DEF new
<1>4. Replaced(i, new)
    BY <1>2, <1>3, ReplacedBy
<1>5. QED BY <1>4 DEF new

LEMMA ReporterReplaced ==
    ASSUME Typed, NEW i \in DOMAIN sessions, NEW r \in Reporter,
           sessions' = [sessions EXCEPT ![i].reporter = r]
    PROVE  Replaced(i, With(sessions[i], r, sessions[i].freshness, sessions[i].poll))
<1>1. sessions \in Seq(Session) /\ sessions[i] \in Session
    BY LenProperties DEF Typed
<1> DEFINE s == sessions[i]
           new == With(s, r, s.freshness, s.poll)
<1>2. new \in Session /\ [s EXCEPT !.reporter = r] = new
    BY <1>1, WithOf, SessionFields
<1>3. sessions' = [sessions EXCEPT ![i] = [s EXCEPT !.reporter = r]]
    OBVIOUS
<1> HIDE DEF new
<1>4. Replaced(i, new)
    BY <1>2, <1>3, ReplacedBy
<1>5. QED BY <1>4 DEF new

LEMMA PollOutcomeOf ==
    ASSUME NEW f \in Freshness
    PROVE  PollOutcome(f) \in Outcomes
<1>1. CASE f.failures = 0
    BY <1>1 DEF PollOutcome, Outcomes
<1>2. CASE f.failures # 0 /\ f.asOf # None /\ f.lastRoster = f.asOf
    BY <1>2 DEF PollOutcome, Outcomes
<1>3. CASE /\ f.failures # 0 /\ ~(f.asOf # None /\ f.lastRoster = f.asOf)
           /\ f.lastFailure = None
    BY <1>3 DEF PollOutcome, Outcomes
<1>4. CASE /\ f.failures # 0 /\ ~(f.asOf # None /\ f.lastRoster = f.asOf)
           /\ f.lastFailure # None
    <2>1. f.lastFailure.kind \in FailureKinds
        BY <1>4 DEF Freshness, PollFailure
    <2>2. PollOutcome(f) = OutcomeOfKind(f.lastFailure.kind)
        BY <1>4 DEF PollOutcome
    <2>3. QED BY <2>1, <2>2, OutcomeOfKindOf
<1>5. QED BY <1>1, <1>2, <1>3, <1>4

\* What a poll that ends makes of its session: the reporter r and the freshness
\* x, where the poll came to out and is told to have come to told.
Ended(i, r, x, out, told) ==
    /\ sessions[i].poll \in DOMAIN history
    /\ Replaced(i, With(sessions[i], r, x, None))
    /\ x.lastRoster \in {sessions[i].poll, sessions[i].freshness.lastRoster}
    /\ sessions[i].freshness.lastRoster # sessions[i].poll => told = out
    /\ sessions[i].reporter = None => r = None
    /\ sessions[i].reporter # None =>
         /\ sessions[i].reporter \in Reporter /\ r \in Reporter /\ r # None
         /\ r = Recorded(sessions[i].reporter,
                         TraceFor(sessions[i].poll, told, build.backend))
    /\ flushes' \in {flushes, flushes \cup {Spawned(i, sessions[i].poll)}}
    /\ r = None => flushes' = flushes
    /\ cache' \in {cache, x}
    /\ history' \in Seq(Poll) /\ Len(history') = Len(history)
    /\ DOMAIN history' = DOMAIN history
    /\ \A q \in DOMAIN history : /\ history'[q].optedOut = history[q].optedOut
                                 /\ q # sessions[i].poll => history'[q] = history[q]
    /\ history'[sessions[i].poll].outcome = out

LEMMA FinishPollSteps ==
    ASSUME Typed, NEW i \in DOMAIN sessions, FinishPoll(i)
    PROVE  /\ \E r \in Reporter \cup {None}, x \in Freshness, out \in Outcomes,
                 told \in Outcomes : Ended(i, r, x, out, told)
           /\ UNCHANGED << build, optedOut, launch, current, received, twice >>
<1>1. /\ sessions \in Seq(Session) /\ sessions[i] \in Session
      /\ history \in Seq(Poll) /\ build \in Builds
    BY LenProperties DEF Typed
<1>2. sessions[i].poll \in DOMAIN history /\ sessions[i].poll \in Nat
    BY <1>1, SessionFields DEF Typed, FinishPoll
<1> DEFINE s == sessions[i]
<1>3. /\ s.reporter \in Reporter \cup {None} /\ s.freshness \in Freshness
    BY <1>1, SessionFields
<1>4. PICK end \in build.ended :
        LET o == [at |-> s.poll, roster |-> end.roster, series |-> end.series]
            folded == RecordBookkeeping(s.freshness, o)
            trace == PollTrace(s.poll, folded, build.backend)
            reporter == IF s.reporter = None THEN None ELSE Recorded(s.reporter, trace)
        IN /\ sessions' = [sessions EXCEPT ![i] =
                             [@ EXCEPT !.reporter = reporter, !.freshness = folded,
                                       !.poll = None]]
           /\ flushes' = IF reporter # None /\ FillsABatch(reporter)
                         THEN flushes \cup {Spawned(i, s.poll)} ELSE flushes
           /\ cache' = IF i = current THEN folded ELSE cache
           /\ history' = [history EXCEPT ![s.poll].outcome = OutcomeOf(o)]
    BY DEF FinishPoll
<1>5. PICK o : o = [at |-> s.poll, roster |-> end.roster, series |-> end.series]
    OBVIOUS
<1>6. EndingOf(o) /\ o.at \in Nat
    BY <1>1, <1>2, <1>5, BuildAssumption DEF EndingOf
<1>7. PICK x : x = RecordBookkeeping(s.freshness, o)
    OBVIOUS
<1>8. /\ x \in Freshness /\ x.lastRoster \in {s.poll, s.freshness.lastRoster}
      /\ OutcomeOf(o) \in Outcomes
      /\ s.freshness.lastRoster # s.poll => PollOutcome(x) = OutcomeOf(o)
    <2>1. o.at = s.poll
        BY <1>5
    <2> HIDE DEF s
    <2>2. QED BY <1>3, <1>6, <1>7, <2>1, FoldedOf
<1>9. PollOutcome(x) \in Outcomes
    BY <1>8, PollOutcomeOf
<1>10. PICK t : t = TraceFor(s.poll, PollOutcome(x), build.backend)
    OBVIOUS
<1>11. t \in Trace /\ t = PollTrace(s.poll, x, build.backend)
    BY <1>2, <1>9, <1>10, TraceForOf DEF TraceFor, PollTrace
<1>12. PICK r : r = IF s.reporter = None THEN None ELSE Recorded(s.reporter, t)
    OBVIOUS
<1>13. /\ r \in Reporter \cup {None}
       /\ s.reporter = None => r = None
       /\ s.reporter # None => /\ s.reporter \in Reporter /\ r \in Reporter /\ r # None
                               /\ r = Recorded(s.reporter, t)
    <2>1. CASE s.reporter = None
        BY <1>12, <2>1
    <2>2. CASE s.reporter # None
        BY <1>3, <1>11, <1>12, <2>2, RecordedOf, ReporterFields
    <2>3. QED BY <2>1, <2>2
<1>14. PICK new : new = [s EXCEPT !.reporter = r, !.freshness = x, !.poll = None]
    OBVIOUS
<1>15. /\ sessions' = [sessions EXCEPT ![i] = new]
       /\ flushes' \in {flushes, flushes \cup {Spawned(i, s.poll)}}
       /\ r = None => flushes' = flushes
       /\ cache' \in {cache, x}
       /\ history' = [history EXCEPT ![s.poll].outcome = OutcomeOf(o)]
    BY <1>4, <1>5, <1>7, <1>11, <1>12, <1>14
<1>16. new = With(s, r, x, None) /\ new \in Session
    <2>1. None \in Nat \cup {None}
        OBVIOUS
    <2> HIDE DEF s
    <2>2. s \in Session
        BY <1>1 DEF s
    <2>3. r \in Reporter \cup {None} /\ x \in Freshness
        BY <1>8, <1>13
    <2>4. With(s, r, x, None) \in Session
        BY <2>1, <2>2, <2>3, WithOf
    <2>5. s = [reporter |-> s.reporter, denial |-> s.denial,
               freshness |-> s.freshness, poll |-> s.poll]
        BY <2>2, SessionFields
    <2>6. new = [reporter |-> r, denial |-> s.denial, freshness |-> x, poll |-> None]
        BY <1>14, <2>5
    <2>7. QED BY <2>4, <2>6 DEF With
<1>17. Replaced(i, With(s, r, x, None))
    BY <1>15, <1>16, ReplacedBy
<1>18. /\ history' \in Seq(Poll) /\ Len(history') = Len(history)
       /\ DOMAIN history' = DOMAIN history
       /\ \A q \in DOMAIN history : /\ history'[q].optedOut = history[q].optedOut
                                    /\ q # s.poll => history'[q] = history[q]
       /\ history'[s.poll].outcome = OutcomeOf(o)
    <2> DEFINE p == s.poll
    <2>1. history[p].optedOut \in BOOLEAN /\ history[p] \in Poll /\ p \in 1..Len(history)
        BY <1>1, <1>2, HistoryOf
    <2>2. history[p] = [optedOut |-> history[p].optedOut, outcome |-> history[p].outcome]
        BY <2>1 DEF Poll
    <2>3. PICK entry : entry = [history[p] EXCEPT !.outcome = OutcomeOf(o)]
        OBVIOUS
    <2>4. entry = [optedOut |-> history[p].optedOut, outcome |-> OutcomeOf(o)]
        BY <2>2, <2>3
    <2>5. entry \in Poll
        BY <1>8, <2>1, <2>4 DEF Poll
    <2>6. history' = [history EXCEPT ![p] = entry]
        BY <1>15, <2>3
    <2> HIDE DEF p
    <2>7. /\ history' \in Seq(Poll) /\ Len(history') = Len(history)
          /\ \A q \in 1..Len(history) : history'[q] = IF q = p THEN entry ELSE history[q]
        BY <1>1, <2>1, <2>5, <2>6, ExceptSeq
    <2>8. DOMAIN history = 1..Len(history) /\ DOMAIN history' = 1..Len(history)
        BY <1>1, <2>7, LenProperties
    <2>9. QED BY <2>1, <2>4, <2>7, <2>8 DEF p
<1>19. Ended(i, r, x, OutcomeOf(o), PollOutcome(x))
    BY <1>2, <1>8, <1>10, <1>13, <1>15, <1>17, <1>18 DEF Ended
<1>20. QED BY <1>8, <1>9, <1>13, <1>19 DEF FinishPoll

Ran(f, q, g) ==
    /\ f.session \in DOMAIN sessions
    /\ sessions[f.session].reporter \in Reporter /\ sessions[f.session].reporter # None
    /\ q = Drained(sessions[f.session].reporter) /\ q # None
    /\ Replaced(f.session, With(sessions[f.session], q, sessions[f.session].freshness,
                                sessions[f.session].poll))
    /\ g = [session |-> f.session, by |-> f.by,
            batch |-> sessions[f.session].reporter.buffer, arrived |-> f.arrived]
    /\ flushes' \in {flushes \ {f}, (flushes \ {f}) \cup {g}}

LEMMA FlushFields ==
    ASSUME NEW f \in Flush
    PROVE  /\ f = [session |-> f.session, by |-> f.by, batch |-> f.batch,
                   arrived |-> f.arrived]
           /\ f.session \in Nat /\ f.by \in Nat /\ f.batch \in Seq(Trace) \cup {None}
           /\ f.arrived \in BOOLEAN
    BY DEF Flush

LEMMA ReporterOfFlush ==
    ASSUME Typed, Running, NEW f \in flushes
    PROVE  /\ f \in Flush /\ f.session \in DOMAIN sessions
           /\ sessions[f.session] \in Session
           /\ sessions[f.session].reporter \in Reporter
           /\ sessions[f.session].reporter # None
<1>1. f \in Flush /\ sessions \in Seq(Session)
    BY DEF Typed
<1>2. f.session \in DOMAIN sessions /\ sessions[f.session].reporter # None
    BY DEF Running
<1>3. sessions[f.session] \in Session
    BY <1>1, <1>2, LenProperties
<1>4. QED BY <1>1, <1>2, <1>3, SessionFields

LEMMA RunFlushSteps ==
    ASSUME Typed, Running, NEW f \in flushes, RunFlush(f)
    PROVE  /\ \E q \in Reporter, g \in Flush : Ran(f, q, g)
           /\ f.batch = None
           /\ UNCHANGED << build, optedOut, cache, launch, current, received, twice, history >>
<1> DEFINE i == f.session
           r == sessions[f.session].reporter
<1>1. f \in Flush /\ i \in DOMAIN sessions /\ r \in Reporter /\ r # None
    BY ReporterOfFlush
<1>2. PICK q : q = Drained(r)
    OBVIOUS
<1>3. q \in Reporter /\ q # None
    BY <1>1, <1>2, DrainedOf, NoneAssumption
<1>4. sessions' = [sessions EXCEPT ![i].reporter = q]
    BY <1>2 DEF RunFlush
<1>5. Replaced(i, With(sessions[i], q, sessions[i].freshness, sessions[i].poll))
    BY <1>1, <1>3, <1>4, ReporterReplaced
<1>6. PICK g : g = [f EXCEPT !.batch = r.buffer]
    OBVIOUS
<1>7. g = [session |-> f.session, by |-> f.by, batch |-> r.buffer, arrived |-> f.arrived]
    <2>1. f = [session |-> f.session, by |-> f.by, batch |-> f.batch, arrived |-> f.arrived]
        BY <1>1, FlushFields
    <2>2. QED BY <1>6, <2>1
<1>8. g \in Flush
    BY <1>1, <1>7, FlushFields, ReporterFields DEF Flush
<1>9. flushes' \in {flushes \ {f}, (flushes \ {f}) \cup {g}}
    BY <1>6 DEF RunFlush
<1>10. Ran(f, q, g)
    BY <1>1, <1>2, <1>3, <1>5, <1>7, <1>9 DEF Ran
<1>11. QED BY <1>3, <1>8, <1>10 DEF RunFlush

LEMMA DeliverSteps ==
    ASSUME Typed, NEW f \in flushes, Deliver(f)
    PROVE  /\ f \in Flush /\ f.batch \in Seq(Trace) /\ f.batch # None /\ ~f.arrived
           /\ \E g \in Flush :
                /\ g = [session |-> f.session, by |-> f.by, batch |-> f.batch,
                        arrived |-> TRUE]
                /\ flushes' = (flushes \ {f}) \cup {g}
           /\ UNCHANGED << build, optedOut, cache, launch, sessions, current, history >>
<1>1. f \in Flush /\ f.batch # None /\ ~f.arrived
    BY DEF Typed, Deliver
<1>2. PICK g : g = [f EXCEPT !.arrived = TRUE]
    OBVIOUS
<1>3. f = [session |-> f.session, by |-> f.by, batch |-> f.batch, arrived |-> f.arrived]
    BY <1>1, FlushFields
<1>4. g = [session |-> f.session, by |-> f.by, batch |-> f.batch, arrived |-> TRUE]
    BY <1>2, <1>3
<1>5. g \in Flush
    BY <1>1, <1>4, FlushFields DEF Flush
<1>6. flushes' = (flushes \ {f}) \cup {g}
    BY <1>2 DEF Deliver
<1>7. QED BY <1>1, <1>4, <1>5, <1>6, FlushFields DEF Deliver

Settled(f, q) ==
    /\ f.session \in DOMAIN sessions
    /\ f.batch \in Seq(Trace) /\ f.batch # None
    /\ sessions[f.session].reporter \in Reporter /\ sessions[f.session].reporter # None
    /\ q # None /\ q.install = sessions[f.session].reporter.install
    /\ q.buffer = sessions[f.session].reporter.buffer
    /\ \/ q.spans = sessions[f.session].reporter.spans
       \/ f.arrived /\ q.spans = sessions[f.session].reporter.spans + Len(f.batch)
    /\ Replaced(f.session, With(sessions[f.session], q, sessions[f.session].freshness,
                                sessions[f.session].poll))
    /\ flushes' = flushes \ {f}

LEMMA SettleSteps ==
    ASSUME Typed, Running, NEW f \in flushes, Answer(f) \/ GiveUp(f)
    PROVE  /\ \E q \in Reporter : Settled(f, q)
           /\ UNCHANGED << build, optedOut, cache, launch, current, received, twice, history >>
<1> DEFINE i == f.session
           r == sessions[f.session].reporter
<1>1. f \in Flush /\ i \in DOMAIN sessions /\ r \in Reporter /\ r # None
    BY ReporterOfFlush
<1>2. f.batch # None /\ f.batch \in Seq(Trace)
    BY <1>1, FlushFields DEF Answer, GiveUp
<1>3. SpansIn(f.batch) = Len(f.batch) /\ Len(f.batch) \in Nat
    BY <1>2, SpansInOf, LenProperties
<1>4. PICK answer \in Answers : Settle(f, answer) /\ (answer = "Accepted" => f.arrived)
    BY DEF Answer, GiveUp, Answers
<1>5. PICK q : q = Counted(r, answer, Len(f.batch))
    OBVIOUS
<1>6. /\ q \in Reporter /\ q.install = r.install /\ q.buffer = r.buffer
      /\ q.spans = IF answer = "Accepted" THEN r.spans + Len(f.batch) ELSE r.spans
    <2> HIDE DEF r
    <2>1. r \in Reporter /\ Len(f.batch) \in Nat
        BY <1>1, <1>3
    <2>2. QED BY <1>5, <2>1, CountedOf
<1>7. q # None
    BY <1>6, NoneAssumption
<1>8. sessions' = [sessions EXCEPT ![i].reporter = q]
    BY <1>3, <1>4, <1>5 DEF Settle
<1>9. Replaced(i, With(sessions[i], q, sessions[i].freshness, sessions[i].poll))
    BY <1>1, <1>6, <1>8, ReporterReplaced
<1>10. Settled(f, q)
    BY <1>1, <1>2, <1>4, <1>6, <1>7, <1>9 DEF Settled, Settle
<1>11. QED BY <1>4, <1>6, <1>10 DEF Settle

-----------------------------------------------------------------------------
(***************************************************************************)
(* The sessions that are built.                                            *)
(***************************************************************************)
LEMMA NewFreshnessOf == NewFreshness \in Freshness /\ NewFreshness.lastRoster = None
    BY DEF NewFreshness, Freshness, Instant

LEMMA RestoredOf ==
    ASSUME NEW f \in Freshness
    PROVE  Restored(f) \in Freshness /\ Restored(f).lastRoster = f.lastRoster
    BY DEF Restored, Freshness

\* The last rosters the app remembers.
Lasts == {None, cache.lastRoster} \cup {sessions[i].freshness.lastRoster : i \in DOMAIN sessions}

Added(s) ==
    /\ s \in Session /\ sessions' \in Seq(Session)
    /\ Len(sessions) + 1 \notin DOMAIN sessions
    /\ DOMAIN sessions' = DOMAIN sessions \cup {Len(sessions) + 1}
    /\ sessions'[Len(sessions) + 1] = s
    /\ \A j \in DOMAIN sessions : sessions'[j] = sessions[j]

Rebuilt(out) ==
    \/ \E x, c \in Freshness :
         /\ x.lastRoster \in Lasts /\ c.lastRoster \in Lasts
         /\ Added(Assembled(out, launch, x))
         /\ current' = Len(sessions) + 1 /\ cache' = c
    \/ UNCHANGED << sessions, cache >> /\ current' = None

LEMMA AddedBy ==
    ASSUME Typed, NEW s \in Session, sessions' = Append(sessions, s)
    PROVE  Added(s)
<1>1. sessions \in Seq(Session)
    BY DEF Typed
<1>2. /\ DOMAIN sessions = 1..Len(sessions) /\ Len(sessions) \in Nat
      /\ sessions' \in Seq(Session) /\ Len(sessions') = Len(sessions) + 1
      /\ \A j \in 1..Len(sessions) : sessions'[j] = sessions[j]
      /\ sessions'[Len(sessions) + 1] = s
    BY <1>1, AppendProperties, LenProperties
<1>3. DOMAIN sessions' = 1 .. Len(sessions) + 1
    BY <1>2, LenProperties
<1>4. DOMAIN sessions' = DOMAIN sessions \cup {Len(sessions) + 1}
    BY <1>2, <1>3
<1>5. QED BY <1>2, <1>4 DEF Added

LEMMA RebuildOf ==
    ASSUME Typed, NEW out \in BOOLEAN, NEW f \in Freshness, NEW c \in Freshness,
           f.lastRoster \in Lasts, c.lastRoster \in Lasts, Rebuild(out, f, c)
    PROVE  Rebuilt(out)
<1>1. CASE /\ sessions' = Append(sessions, Assembled(out, launch, Restored(f)))
           /\ current' = Len(sessions) + 1 /\ cache' = c
    <2>1. PICK x : x = Restored(f)
        OBVIOUS
    <2>2. x \in Freshness /\ x.lastRoster \in Lasts
        BY <2>1, RestoredOf
    <2>3. launch \in Nat
        BY DEF Typed
    <2>4. Assembled(out, launch, x) \in Session
        BY <2>2, <2>3, AssembledOf
    <2>5. Added(Assembled(out, launch, x))
        BY <1>1, <2>1, <2>4, AddedBy
    <2>6. QED BY <1>1, <2>2, <2>5 DEF Rebuilt
<1>2. CASE sessions' = sessions /\ current' = None /\ cache' = cache
    BY <1>2 DEF Rebuilt
<1>3. QED BY <1>1, <1>2 DEF Rebuild

LEMMA RebuildSteps ==
    ASSUME Typed, (\E enabled \in BOOLEAN : SetReporting(enabled)) \/ Reload
    PROVE  /\ optedOut' \in BOOLEAN /\ Rebuilt(optedOut')
           /\ UNCHANGED << build, launch, flushes, received, twice, history >>
<1>1. /\ cache \in Freshness /\ cache.lastRoster \in Lasts
      /\ NewFreshness \in Freshness /\ NewFreshness.lastRoster \in Lasts
      /\ sessions \in Seq(Session) /\ optedOut \in BOOLEAN
    BY NewFreshnessOf DEF Typed, Lasts
<1>2. ASSUME NEW enabled \in BOOLEAN, SetReporting(enabled)
      PROVE  optedOut' \in BOOLEAN /\ Rebuilt(optedOut')
    <2>1. optedOut' \in BOOLEAN /\ optedOut' = ~enabled
        BY <1>2 DEF SetReporting
    <2>2. CASE current = None
        BY <1>2, <2>1, <2>2 DEF SetReporting, Rebuilt
    <2>3. CASE current # None
        <3>1. Rebuild(~enabled, cache, cache)
            BY <1>2, <2>3 DEF SetReporting
        <3>2. QED BY <1>1, <2>1, <3>1, RebuildOf
    <2>4. QED BY <2>2, <2>3, <2>1
<1>3. ASSUME Reload PROVE optedOut' \in BOOLEAN /\ Rebuilt(optedOut')
    <2>1. optedOut' = optedOut
        BY <1>3 DEF Reload
    <2>2. CASE current # None /\ Rebuild(optedOut, sessions[current].freshness, cache)
        <3>1. current \in DOMAIN sessions
            BY <2>2 DEF Typed
        <3>2. sessions[current] \in Session
            BY <1>1, <3>1, LenProperties
        <3>3. sessions[current].freshness \in Freshness
            BY <3>2, SessionFields
        <3>4. sessions[current].freshness.lastRoster \in Lasts
            BY <3>1 DEF Lasts
        <3>5. QED BY <1>1, <2>1, <2>2, <3>3, <3>4, RebuildOf
    <2>3. CASE Rebuild(optedOut, NewFreshness, NewFreshness)
        BY <1>1, <2>1, <2>3, RebuildOf
    <2>4. QED BY <1>3, <2>2, <2>3 DEF Reload
<1>4. QED BY <1>2, <1>3 DEF SetReporting, Reload

LEMMA StartedOf ==
    ASSUME NEW process \in Nat, NEW out \in BOOLEAN, NEW ss,
           ss = << Assembled(out, process, NewFreshness) >>
    PROVE  /\ ss \in Seq(Session) /\ DOMAIN ss = {1}
           /\ ss[1] = Assembled(out, process, NewFreshness)
<1>1. PICK s : s = Assembled(out, process, NewFreshness)
    OBVIOUS
<1>2. s \in Session
    BY <1>1, NewFreshnessOf, AssembledOf
<1>3. ss = << s >>
    BY <1>1
<1>4. QED BY <1>1, <1>2, <1>3

-----------------------------------------------------------------------------
(***************************************************************************)
(* Every session has its type and the switches it was built under.         *)
(***************************************************************************)
LEMMA SpawnedOf ==
    ASSUME NEW i \in Nat, NEW p \in Nat
    PROVE  /\ Spawned(i, p) \in Flush /\ Spawned(i, p).session = i
           /\ Spawned(i, p).batch = None /\ ~Spawned(i, p).arrived
    BY DEF Spawned, Flush

LEMMA WithFields ==
    ASSUME NEW s, NEW r, NEW x, NEW p
    PROVE  /\ With(s, r, x, p).reporter = r /\ With(s, r, x, p).denial = s.denial
           /\ With(s, r, x, p).freshness = x /\ With(s, r, x, p).poll = p
    BY DEF With

LEMMA IndicesOf ==
    ASSUME Typed
    PROVE  /\ DOMAIN sessions = 1..Len(sessions) /\ Len(sessions) \in Nat
           /\ \A i \in DOMAIN sessions : i \in Nat /\ sessions[i] \in Session
<1>1. sessions \in Seq(Session)
    BY DEF Typed
<1>2. DOMAIN sessions = 1..Len(sessions) /\ Len(sessions) \in Nat
    BY <1>1, LenProperties
<1>3. QED BY <1>1, <1>2, ElementOfSeq

(* What holds of the replaced session and of the others holds of all.      *)
LEMMA TypedKept ==
    ASSUME Typed, Running, [Next]_vars
    PROVE  Typed'
<1>1. CASE BeginPoll
    <2> DEFINE s == sessions[current]
               new == With(s, s.reporter, s.freshness, Len(history) + 1)
    <2>1. /\ Replaced(current, new)
          /\ history' \in Seq(Poll) /\ Len(history') = Len(history) + 1
          /\ UNCHANGED << build, optedOut, cache, launch, current, flushes >>
        BY <1>1, BeginPollSteps
    <2>2. /\ DOMAIN history = 1..Len(history) /\ Len(history) \in Nat
          /\ DOMAIN history' = 1..Len(history')
        BY <2>1, LenProperties DEF Typed
    <2>3. new.poll = Len(history) + 1
        BY WithFields
    <2> HIDE DEF new
    <2>4. ASSUME NEW j \in DOMAIN sessions', sessions'[j].poll # None
          PROVE  sessions'[j].poll \in DOMAIN history'
        <3>1. CASE j = current
            BY <2>1, <2>2, <2>3, <3>1 DEF Replaced
        <3>2. CASE j # current
            <4>1. sessions[j].poll \in DOMAIN history
                BY <2>1, <2>4, <3>2 DEF Replaced, Typed
            <4>2. sessions'[j] = sessions[j]
                BY <2>1, <2>4, <3>2 DEF Replaced
            <4>3. QED BY <2>1, <2>2, <4>1, <4>2
        <3>3. QED BY <3>1, <3>2
    <2>5. QED BY <2>1, <2>4 DEF Typed, Replaced
<1>2. ASSUME NEW i \in DOMAIN sessions, FinishPoll(i)
      PROVE  Typed'
    <2>1. PICK r \in Reporter \cup {None}, x \in Freshness, out \in Outcomes, told \in Outcomes :
            Ended(i, r, x, out, told)
        BY <1>2, FinishPollSteps
    <2>2. UNCHANGED << build, optedOut, launch, current >>
        BY <1>2, FinishPollSteps
    <2> DEFINE new == With(sessions[i], r, x, None)
    <2>3. /\ Replaced(i, new) /\ history' \in Seq(Poll) /\ DOMAIN history' = DOMAIN history
          /\ flushes' \in {flushes, flushes \cup {Spawned(i, sessions[i].poll)}}
          /\ cache' \in {cache, x} /\ sessions[i].poll \in DOMAIN history
        BY <2>1 DEF Ended
    <2>4. new.poll = None
        BY WithFields
    <2>5. i \in Nat /\ sessions[i].poll \in Nat
        BY <2>3, IndicesOf, HistoryOf DEF Typed
    <2>6. flushes' \in SUBSET Flush
        BY <2>3, <2>5, SpawnedOf DEF Typed
    <2> HIDE DEF new
    <2>7. \A j \in DOMAIN sessions' :
            sessions'[j].poll # None => sessions'[j].poll \in DOMAIN history'
        BY <2>3, <2>4 DEF Replaced, Typed
    <2>8. QED BY <2>2, <2>3, <2>6, <2>7 DEF Typed, Replaced
<1>3. ASSUME NEW i \in DOMAIN sessions, DropPoll(i)
      PROVE  Typed'
    <2> DEFINE new == With(sessions[i], sessions[i].reporter, sessions[i].freshness, None)
    <2>1. Replaced(i, new) /\ new.poll = None
        BY <1>3, DropPollSteps, WithFields
    <2>2. UNCHANGED << build, optedOut, cache, launch, current, flushes, history >>
        BY <1>3 DEF DropPoll
    <2> HIDE DEF new
    <2>3. \A j \in DOMAIN sessions' :
            sessions'[j].poll # None => sessions'[j].poll \in DOMAIN history
        BY <2>1 DEF Replaced, Typed
    <2>4. QED BY <2>1, <2>2, <2>3 DEF Typed, Replaced
<1>4. CASE FlushUsage
    <2>1. current \in Nat
        BY <1>4, IndicesOf DEF FlushUsage, Typed
    <2>2. Spawned(current, 0) \in Flush
        BY <2>1, SpawnedOf
    <2>3. QED BY <1>4, <2>2 DEF FlushUsage, Typed
<1>5. ASSUME NEW f \in flushes, RunFlush(f)
      PROVE  Typed'
    <2>1. PICK q \in Reporter, g \in Flush : Ran(f, q, g)
        BY <1>5, RunFlushSteps
    <2>2. UNCHANGED << build, optedOut, cache, launch, current, history >>
        BY <1>5, RunFlushSteps
    <2> DEFINE i == f.session
               new == With(sessions[i], q, sessions[i].freshness, sessions[i].poll)
    <2>3. Replaced(i, new) /\ new.poll = sessions[i].poll /\ flushes' \in SUBSET Flush
        BY <2>1, WithFields DEF Ran, Typed
    <2> HIDE DEF new, i
    <2>4. \A j \in DOMAIN sessions' :
            sessions'[j].poll # None => sessions'[j].poll \in DOMAIN history
        BY <2>3 DEF Replaced, Typed
    <2>5. QED BY <2>2, <2>3, <2>4 DEF Typed, Replaced
<1>6. ASSUME NEW f \in flushes, Deliver(f)
      PROVE  Typed'
    <2>1. /\ flushes' \in SUBSET Flush
          /\ UNCHANGED << build, optedOut, cache, launch, sessions, current, history >>
        BY <1>6, DeliverSteps DEF Typed
    <2>2. QED BY <2>1 DEF Typed
<1>7. ASSUME NEW f \in flushes, Answer(f) \/ GiveUp(f)
      PROVE  Typed'
    <2>1. PICK q \in Reporter : Settled(f, q)
        BY <1>7, SettleSteps
    <2>2. UNCHANGED << build, optedOut, cache, launch, current, history >>
        BY <1>7, SettleSteps
    <2> DEFINE i == f.session
               new == With(sessions[i], q, sessions[i].freshness, sessions[i].poll)
    <2>3. Replaced(i, new) /\ new.poll = sessions[i].poll /\ flushes' \in SUBSET Flush
        BY <2>1, WithFields DEF Settled, Typed
    <2> HIDE DEF new, i
    <2>4. \A j \in DOMAIN sessions' :
            sessions'[j].poll # None => sessions'[j].poll \in DOMAIN history
        BY <2>3 DEF Replaced, Typed
    <2>5. QED BY <2>2, <2>3, <2>4 DEF Typed, Replaced
<1>8. ASSUME NEW f \in flushes, DropFlush(f)
      PROVE  Typed'
    BY <1>8 DEF DropFlush, Typed
<1>9. CASE (\E enabled \in BOOLEAN : SetReporting(enabled)) \/ Reload
    <2>1. /\ optedOut' \in BOOLEAN /\ Rebuilt(optedOut')
          /\ UNCHANGED << build, launch, flushes, received, twice, history >>
        BY <1>9, RebuildSteps
    <2>2. CASE UNCHANGED << sessions, cache >> /\ current' = None
        BY <2>1, <2>2 DEF Typed
    <2>3. CASE \E x, c \in Freshness :
                 /\ x.lastRoster \in Lasts /\ c.lastRoster \in Lasts
                 /\ Added(Assembled(optedOut', launch, x))
                 /\ current' = Len(sessions) + 1 /\ cache' = c
        <3>1. PICK x \in Freshness, c \in Freshness :
                /\ Added(Assembled(optedOut', launch, x))
                /\ current' = Len(sessions) + 1 /\ cache' = c
            BY <2>3
        <3>2. PICK s : s = Assembled(optedOut', launch, x)
            OBVIOUS
        <3>3. s.poll = None
            BY <2>1, <3>2, AssembledOf DEF Typed
        <3>4. Added(s)
            BY <3>1, <3>2
        <3>5. \A j \in DOMAIN sessions' :
                sessions'[j].poll # None => sessions'[j].poll \in DOMAIN history
            BY <3>3, <3>4 DEF Added, Typed
        <3>6. current' \in DOMAIN sessions' /\ sessions' \in Seq(Session)
            BY <3>1, <3>4 DEF Added
        <3>7. QED BY <2>1, <3>1, <3>5, <3>6 DEF Typed
    <2>4. QED BY <2>1, <2>2, <2>3 DEF Rebuilt
<1>10. CASE Relaunch
    <2>1. optedOut \in BOOLEAN /\ launch + 1 \in Nat \ {0}
        BY DEF Typed
    <2>2. sessions' = << Assembled(optedOut, launch + 1, NewFreshness) >>
        BY <1>10 DEF Relaunch
    <2>3. /\ sessions' \in Seq(Session) /\ DOMAIN sessions' = {1}
          /\ sessions'[1] = Assembled(optedOut, launch + 1, NewFreshness)
        BY <2>1, <2>2, StartedOf
    <2>4. sessions'[1].poll = None
        BY <2>1, <2>3, AssembledOf, NewFreshnessOf
    <2>5. \A j \in DOMAIN sessions' : sessions'[j].poll = None
        BY <2>3, <2>4
    <2>6. QED BY <1>10, <2>1, <2>3, <2>5, NewFreshnessOf DEF Relaunch, Typed
<1>11. CASE UNCHANGED vars
    BY <1>11 DEF vars, Typed
<1>12. QED BY <1>1, <1>2, <1>3, <1>4, <1>5, <1>6, <1>7, <1>8, <1>9, <1>10, <1>11 DEF Next

(* A session that is replaced by one with the same denial, and a reporter  *)
(* where it had one, leaves the rest as it was.                            *)
LEMMA ReplacedRuns ==
    ASSUME Typed, Running, NEW i, NEW s, Replaced(i, s),
           s.denial = sessions[i].denial,
           s.reporter = None <=> sessions[i].reporter = None,
           s.reporter # None => /\ s.reporter.install = sessions[i].reporter.install
                                /\ Len(s.reporter.buffer) <= MaxBufferedTraces,
           UNCHANGED << build, optedOut, launch, current >>,
           \A f \in flushes' : /\ f.session \in DOMAIN sessions
                               /\ sessions[f.session].reporter # None
    PROVE  Running'
<1>1. i \in DOMAIN sessions /\ DOMAIN sessions' = DOMAIN sessions /\ sessions'[i] = s
    BY DEF Replaced
<1>2. \A j \in DOMAIN sessions : j # i => sessions'[j] = sessions[j]
    BY DEF Replaced
<1>3. Proper(sessions[i], launch)
    BY <1>1 DEF Running
<1>4. Proper(s, launch)
    BY <1>3 DEF Proper
<1>5. \A j \in DOMAIN sessions' : Proper(sessions'[j], launch)
    BY <1>1, <1>2, <1>4 DEF Running
<1>6. (\A j \in DOMAIN sessions : Proper(sessions[j], launch))'
    BY <1>5 DEF Proper
<1>7. \A f \in flushes' : /\ f.session \in DOMAIN sessions'
                          /\ sessions'[f.session].reporter # None
    BY <1>1, <1>2
<1>8. ASSUME current # None PROVE InEffect(sessions'[current], optedOut)
    <2>1. current \in DOMAIN sessions /\ InEffect(sessions[current], optedOut)
        BY <1>8 DEF Typed, Running
    <2>2. CASE current # i
        BY <1>2, <2>1, <2>2
    <2>3. CASE current = i
        BY <1>1, <2>1, <2>3 DEF InEffect
    <2>4. QED BY <2>2, <2>3
<1>9. (current # None => InEffect(sessions[current], optedOut))'
    BY <1>8 DEF InEffect
<1>10. QED BY <1>6, <1>7, <1>9 DEF Running

LEMMA RunningKept ==
    ASSUME Typed, Running, [Next]_vars
    PROVE  Running'
<1>1. CASE BeginPoll
    <2> DEFINE s == sessions[current]
               new == With(s, s.reporter, s.freshness, Len(history) + 1)
    <2>1. /\ Replaced(current, new) /\ current \in DOMAIN sessions
          /\ UNCHANGED << build, optedOut, launch, current, flushes >>
        BY <1>1, BeginPollSteps
    <2>2. new.denial = s.denial /\ new.reporter = s.reporter
        BY WithFields
    <2>3. s.reporter # None => Len(s.reporter.buffer) <= MaxBufferedTraces
        BY <2>1 DEF Running, Proper
    <2>4. \A f \in flushes' : /\ f.session \in DOMAIN sessions
                              /\ sessions[f.session].reporter # None
        BY <2>1 DEF Running
    <2> HIDE DEF new
    <2>5. QED BY <2>1, <2>2, <2>3, <2>4, ReplacedRuns
<1>2. ASSUME NEW i \in DOMAIN sessions, FinishPoll(i)
      PROVE  Running'
    <2>1. PICK r \in Reporter \cup {None}, x \in Freshness, out \in Outcomes, told \in Outcomes :
            Ended(i, r, x, out, told)
        BY <1>2, FinishPollSteps
    <2>2. UNCHANGED << build, optedOut, launch, current >>
        BY <1>2, FinishPollSteps
    <2> DEFINE new == With(sessions[i], r, x, None)
               p == sessions[i].poll
    <2>3. /\ Replaced(i, new) /\ new.denial = sessions[i].denial /\ new.reporter = r
          /\ flushes' \in {flushes, flushes \cup {Spawned(i, p)}}
          /\ r = None => flushes' = flushes
          /\ p \in DOMAIN history
          /\ sessions[i].reporter = None => r = None
        BY <2>1, WithFields DEF Ended
    <2>4. p \in Nat
        BY <2>3, HistoryOf DEF Typed
    <2>5. ASSUME sessions[i].reporter # None
          PROVE  /\ r # None /\ r.install = sessions[i].reporter.install
                 /\ Len(r.buffer) <= MaxBufferedTraces
        <3>1. PICK t : t = TraceFor(p, told, build.backend)
            OBVIOUS
        <3>2. t \in Trace
            BY <2>4, <3>1, TraceForOf
        <3>3. sessions[i].reporter \in Reporter /\ r = Recorded(sessions[i].reporter, t) /\ r # None
            BY <2>1, <2>5, <3>1 DEF Ended
        <3>4. QED BY <3>2, <3>3, RecordedOf
    <2>6. i \in Nat
        BY IndicesOf
    <2>7. Spawned(i, p).session = i
        BY <2>4, <2>6, SpawnedOf
    <2>8. \A f \in flushes' : /\ f.session \in DOMAIN sessions
                              /\ sessions[f.session].reporter # None
        BY <2>3, <2>5, <2>7 DEF Running
    <2> HIDE DEF new, p
    <2>9. QED BY <2>2, <2>3, <2>5, <2>8, ReplacedRuns
<1>3. ASSUME NEW i \in DOMAIN sessions, DropPoll(i)
      PROVE  Running'
    <2> DEFINE new == With(sessions[i], sessions[i].reporter, sessions[i].freshness, None)
    <2>1. Replaced(i, new) /\ new.denial = sessions[i].denial /\ new.reporter = sessions[i].reporter
        BY <1>3, DropPollSteps, WithFields
    <2>2. UNCHANGED << build, optedOut, launch, current, flushes >>
        BY <1>3 DEF DropPoll
    <2>3. sessions[i].reporter # None => Len(sessions[i].reporter.buffer) <= MaxBufferedTraces
        BY DEF Running, Proper
    <2>4. \A f \in flushes' : /\ f.session \in DOMAIN sessions
                              /\ sessions[f.session].reporter # None
        BY <2>2 DEF Running
    <2> HIDE DEF new
    <2>5. QED BY <2>1, <2>2, <2>3, <2>4, ReplacedRuns
<1>4. CASE FlushUsage
    <2>1. current \in Nat /\ current \in DOMAIN sessions /\ sessions[current].reporter # None
        BY <1>4, IndicesOf DEF FlushUsage, Typed
    <2>2. Spawned(current, 0).session = current
        BY <2>1, SpawnedOf
    <2>3. \A f \in flushes' : /\ f.session \in DOMAIN sessions
                              /\ sessions[f.session].reporter # None
        BY <1>4, <2>1, <2>2 DEF FlushUsage, Running
    <2>4. UNCHANGED << build, optedOut, launch, sessions, current >>
        BY <1>4 DEF FlushUsage
    <2>5. QED BY <2>3, <2>4 DEF Running, Proper, InEffect
<1>5. ASSUME NEW f \in flushes, RunFlush(f)
      PROVE  Running'
    <2>1. PICK q \in Reporter, g \in Flush : Ran(f, q, g)
        BY <1>5, RunFlushSteps
    <2>2. UNCHANGED << build, optedOut, launch, current >>
        BY <1>5, RunFlushSteps
    <2> DEFINE i == f.session
               r == sessions[i].reporter
               new == With(sessions[i], q, sessions[i].freshness, sessions[i].poll)
    <2>3. /\ Replaced(i, new) /\ new.denial = sessions[i].denial /\ new.reporter = q
          /\ q # None /\ r # None /\ r \in Reporter /\ q = Drained(r)
          /\ g.session = f.session
          /\ flushes' \in {flushes \ {f}, (flushes \ {f}) \cup {g}}
        BY <2>1, WithFields DEF Ran
    <2>4. q.install = r.install /\ Len(q.buffer) <= MaxBufferedTraces
        <3>1. q.install = r.install /\ q.buffer = << >>
            BY <2>3, DrainedOf
        <3>2. Len(<< >>) = 0
            BY EmptySeq
        <3>3. QED BY <3>1, <3>2, UsageAssumption
    <2>5. \A h \in flushes' : /\ h.session \in DOMAIN sessions
                              /\ sessions[h.session].reporter # None
        BY <2>3 DEF Running
    <2> HIDE DEF new, i
    <2>6. QED BY <2>2, <2>3, <2>4, <2>5, ReplacedRuns
<1>6. ASSUME NEW f \in flushes, Deliver(f)
      PROVE  Running'
    <2>1. PICK g \in Flush : g.session = f.session /\ flushes' = (flushes \ {f}) \cup {g}
        BY <1>6, DeliverSteps
    <2>2. UNCHANGED << build, optedOut, launch, sessions, current >>
        BY <1>6, DeliverSteps
    <2>3. QED BY <2>1, <2>2 DEF Running, Proper, InEffect
<1>7. ASSUME NEW f \in flushes, Answer(f) \/ GiveUp(f)
      PROVE  Running'
    <2>1. PICK q \in Reporter : Settled(f, q)
        BY <1>7, SettleSteps
    <2>2. UNCHANGED << build, optedOut, launch, current >>
        BY <1>7, SettleSteps
    <2> DEFINE i == f.session
               r == sessions[i].reporter
               new == With(sessions[i], q, sessions[i].freshness, sessions[i].poll)
    <2>3. /\ Replaced(i, new) /\ new.denial = sessions[i].denial /\ new.reporter = q
          /\ q # None /\ r # None /\ i \in DOMAIN sessions
          /\ q.install = r.install /\ q.buffer = r.buffer /\ flushes' = flushes \ {f}
        BY <2>1, WithFields DEF Settled
    <2>4. Len(q.buffer) <= MaxBufferedTraces
        BY <2>3 DEF Running, Proper
    <2>5. \A h \in flushes' : /\ h.session \in DOMAIN sessions
                              /\ sessions[h.session].reporter # None
        BY <2>3 DEF Running
    <2> HIDE DEF new, i
    <2>6. QED BY <2>2, <2>3, <2>4, <2>5, ReplacedRuns
<1>8. ASSUME NEW f \in flushes, DropFlush(f)
      PROVE  Running'
    BY <1>8 DEF DropFlush, Running, Proper, InEffect
<1>9. CASE (\E enabled \in BOOLEAN : SetReporting(enabled)) \/ Reload
    <2>1. /\ optedOut' \in BOOLEAN /\ Rebuilt(optedOut')
          /\ UNCHANGED << build, launch, flushes, received, twice, history >>
        BY <1>9, RebuildSteps
    <2>2. CASE UNCHANGED << sessions, cache >> /\ current' = None
        BY <2>1, <2>2 DEF Running, Proper
    <2>3. CASE \E x, c \in Freshness :
                 /\ x.lastRoster \in Lasts /\ c.lastRoster \in Lasts
                 /\ Added(Assembled(optedOut', launch, x))
                 /\ current' = Len(sessions) + 1 /\ cache' = c
        <3>1. PICK x \in Freshness, c \in Freshness :
                /\ Added(Assembled(optedOut', launch, x))
                /\ current' = Len(sessions) + 1 /\ cache' = c
            BY <2>3
        <3>2. PICK s : s = Assembled(optedOut', launch, x)
            OBVIOUS
        <3>3. launch \in Nat
            BY DEF Typed
        <3>4. Proper(s, launch) /\ InEffect(s, optedOut')
            <4>1. /\ s.reporter \in {None, NewReporter(launch)}
                  /\ s.reporter # None => /\ s.denial = None
                                          /\ FromBundle(build.endpoint, build.key) # None
                  /\ s.reporter = None => s.denial \in Denials
                  /\ InEffect(s, optedOut')
                BY <2>1, <3>2, <3>3, AssembledOf
            <4>2. NewReporter(launch).install = launch /\ NewReporter(launch).buffer = << >>
                BY DEF NewReporter
            <4>3. Len(<< >>) <= MaxBufferedTraces
                BY EmptySeq, UsageAssumption
            <4>4. QED BY <4>1, <4>2, <4>3 DEF Proper
        <3>5. Added(s)
            BY <3>1, <3>2
        <3>6. \A j \in DOMAIN sessions' : Proper(sessions'[j], launch)
            BY <3>4, <3>5 DEF Added, Running
        <3>7. (\A j \in DOMAIN sessions : Proper(sessions[j], launch))'
            BY <2>1, <3>6 DEF Proper
        <3>8. \A f \in flushes' : /\ f.session \in DOMAIN sessions'
                                  /\ sessions'[f.session].reporter # None
            BY <2>1, <3>5 DEF Added, Running
        <3>9. InEffect(sessions'[current'], optedOut')
            BY <3>1, <3>4, <3>5 DEF Added
        <3>10. InEffect(sessions[current], optedOut)'
            BY <2>1, <3>9 DEF InEffect
        <3>11. QED BY <2>1, <3>7, <3>8, <3>10 DEF Running
    <2>4. QED BY <2>1, <2>2, <2>3 DEF Rebuilt
<1>10. CASE Relaunch
    <2>1. optedOut \in BOOLEAN /\ launch + 1 \in Nat
        BY DEF Typed
    <2>2. sessions' = << Assembled(optedOut, launch + 1, NewFreshness) >>
        BY <1>10 DEF Relaunch
    <2>3. PICK s : s = Assembled(optedOut, launch + 1, NewFreshness)
        OBVIOUS
    <2>4. DOMAIN sessions' = {1} /\ sessions'[1] = s
        BY <2>1, <2>2, <2>3, StartedOf
    <2>5. Proper(s, launch + 1) /\ InEffect(s, optedOut)
        <3>1. /\ s.reporter \in {None, NewReporter(launch + 1)}
              /\ s.reporter # None => /\ s.denial = None
                                      /\ FromBundle(build.endpoint, build.key) # None
              /\ s.reporter = None => s.denial \in Denials
              /\ InEffect(s, optedOut)
            BY <2>1, <2>3, AssembledOf, NewFreshnessOf
        <3>2. NewReporter(launch + 1).install = launch + 1 /\ NewReporter(launch + 1).buffer = << >>
            BY DEF NewReporter
        <3>3. Len(<< >>) <= MaxBufferedTraces
            BY EmptySeq, UsageAssumption
        <3>4. QED BY <3>1, <3>2, <3>3 DEF Proper
    <2>6. /\ launch' = launch + 1 /\ current' = 1 /\ flushes' = {}
          /\ UNCHANGED << build, optedOut >>
        BY <1>10 DEF Relaunch
    <2>7. \A j \in DOMAIN sessions' : Proper(sessions'[j], launch + 1)
        BY <2>4, <2>5
    <2>8. (\A j \in DOMAIN sessions : Proper(sessions[j], launch))'
        BY <2>6, <2>7 DEF Proper
    <2>9. InEffect(sessions[current], optedOut)'
        BY <2>4, <2>5, <2>6 DEF InEffect
    <2>10. QED BY <2>6, <2>8, <2>9 DEF Running
<1>11. CASE UNCHANGED vars
    BY <1>11 DEF vars, Running, Proper, InEffect
<1>12. QED BY <1>1, <1>2, <1>3, <1>4, <1>5, <1>6, <1>7, <1>8, <1>9, <1>10, <1>11 DEF Next

LEMMA StartsRunning ==
    ASSUME Init
    PROVE  Typed /\ Running
<1>1. optedOut \in BOOLEAN /\ sessions = << Assembled(optedOut, 1, NewFreshness) >> /\ 1 \in Nat
    BY DEF Init
<1>2. PICK s : s = Assembled(optedOut, 1, NewFreshness)
    OBVIOUS
<1>3. sessions \in Seq(Session) /\ DOMAIN sessions = {1} /\ sessions[1] = s
    BY <1>1, <1>2, StartedOf
<1>4. /\ s.poll = None /\ s.reporter \in {None, NewReporter(1)}
      /\ s.reporter # None => /\ s.denial = None
                              /\ FromBundle(build.endpoint, build.key) # None
      /\ s.reporter = None => s.denial \in Denials
      /\ InEffect(s, optedOut)
    BY <1>1, <1>2, AssembledOf, NewFreshnessOf
<1>5. Typed
    <2>1. << >> \in Seq(Poll)
        BY EmptySeq
    <2>2. QED BY <1>1, <1>3, <1>4, <2>1, NewFreshnessOf DEF Init, Typed
<1>6. Running
    <2>1. NewReporter(1).install = 1 /\ NewReporter(1).buffer = << >>
        BY DEF NewReporter
    <2>2. Len(<< >>) <= MaxBufferedTraces
        BY EmptySeq, UsageAssumption
    <2>3. Proper(s, 1)
        BY <1>4, <2>1, <2>2 DEF Proper
    <2>4. QED BY <1>3, <1>4, <2>3 DEF Init, Running
<1>7. QED BY <1>5, <1>6

(* The type invariant: every session either reports, within its bounds, or *)
(* says why not, and no flush outlives its reporter.                       *)
THEOREM UsageIsTyped == Spec => []TypeOK
<1>1. Init => Typed /\ Running
    BY StartsRunning
<1>2. Typed /\ Running /\ [Next]_vars => (Typed /\ Running)'
    BY TypedKept, RunningKept
<1>3. Typed /\ Running => TypeOK
    BY DEF Typed, Running, Proper, TypeOK, Reporters
<1>4. QED BY <1>1, <1>2, <1>3, PTL DEF Spec

-----------------------------------------------------------------------------
(***************************************************************************)
(* A poll is in one place: in flight, in a buffer, in a batch on its way,  *)
(* or with the backend.                                                    *)
(***************************************************************************)
Flying(s) == IF s.poll = None THEN {} ELSE {s.poll}
Buffered(s) == IF s.reporter = None THEN {} ELSE PollsOf(s.reporter.buffer)
Held(s) == Flying(s) \cup Buffered(s)
Carried(f) == IF f.batch = None THEN {} ELSE PollsOf(f.batch)
Taken == {r.poll : r \in received}

Apart ==
    /\ Taken \in SUBSET DOMAIN history
    /\ \A i \in DOMAIN sessions :
         /\ Held(sessions[i]) \in SUBSET DOMAIN history
         /\ Held(sessions[i]) \cap Taken = {}
         /\ Flying(sessions[i]) \cap Buffered(sessions[i]) = {}
         /\ \A j \in DOMAIN sessions :
              i # j => Held(sessions[i]) \cap Held(sessions[j]) = {}
    /\ \A f \in flushes :
         /\ Carried(f) \in SUBSET DOMAIN history
         /\ \A i \in DOMAIN sessions : Carried(f) \cap Held(sessions[i]) = {}
         /\ \A g \in flushes : f # g => Carried(f) \cap Carried(g) = {}
         /\ f.batch = None => ~f.arrived
         /\ f.arrived => Carried(f) \in SUBSET Taken
         /\ ~f.arrived => Carried(f) \cap Taken = {}

LEMMA HeldBy ==
    ASSUME NEW s, NEW r, NEW x, NEW p
    PROVE  /\ Flying(With(s, r, x, p)) = IF p = None THEN {} ELSE {p}
           /\ Buffered(With(s, r, x, p)) = IF r = None THEN {} ELSE PollsOf(r.buffer)
<1>1. PICK t : t = With(s, r, x, p)
    OBVIOUS
<1>2. t.poll = p /\ t.reporter = r
    BY <1>1, WithFields
<1>3. Flying(t) = IF p = None THEN {} ELSE {p}
    BY <1>2 DEF Flying
<1>4. Buffered(t) = IF r = None THEN {} ELSE PollsOf(r.buffer)
    BY <1>2 DEF Buffered
<1>5. QED BY <1>1, <1>3, <1>4

LEMMA PollsOfNone == PollsOf(<< >>) = {}
    BY DEF PollsOf

(* A step after which no session holds more, a new one nothing, and no new *)
(* flush carries any.                                                      *)
LEMMA ApartShrinks ==
    ASSUME Apart,
           \A j \in DOMAIN sessions' :
             /\ \/ Held(sessions'[j]) = {}
                \/ j \in DOMAIN sessions /\ Held(sessions'[j]) \in SUBSET Held(sessions[j])
             /\ Flying(sessions'[j]) \cap Buffered(sessions'[j]) = {},
           \A f \in flushes' : f \in flushes \/ (Carried(f) = {} /\ ~f.arrived),
           UNCHANGED received, DOMAIN history' = DOMAIN history
    PROVE  Apart'
<1>1. Taken' = Taken
    BY DEF Taken
<1> DEFINE H(j) == Held(sessions[j])
           K(j) == Held(sessions'[j])
<1>2. /\ \A j \in DOMAIN sessions' : K(j) = {} \/ (j \in DOMAIN sessions /\ K(j) \in SUBSET H(j))
      /\ \A j \in DOMAIN sessions : H(j) \in SUBSET DOMAIN history /\ H(j) \cap Taken = {}
      /\ \A j, k \in DOMAIN sessions : j # k => H(j) \cap H(k) = {}
      /\ \A f \in flushes, j \in DOMAIN sessions : Carried(f) \cap H(j) = {}
    BY DEF Apart
<1> HIDE DEF H, K
<1>3. \A j \in DOMAIN sessions' : /\ K(j) \in SUBSET DOMAIN history /\ K(j) \cap Taken = {}
                                  /\ \A k \in DOMAIN sessions' : j # k => K(j) \cap K(k) = {}
                                  /\ \A f \in flushes' : Carried(f) \cap K(j) = {}
    <2>1. TAKE j \in DOMAIN sessions'
    <2>2. CASE K(j) = {}
        BY <2>2
    <2>3. CASE j \in DOMAIN sessions /\ K(j) \in SUBSET H(j)
        <3>1. K(j) \in SUBSET DOMAIN history /\ K(j) \cap Taken = {}
            BY <1>2, <2>3
        <3>2. ASSUME NEW k \in DOMAIN sessions', j # k PROVE K(j) \cap K(k) = {}
            BY <1>2, <2>3, <3>2
        <3>3. ASSUME NEW f \in flushes' PROVE Carried(f) \cap K(j) = {}
            BY <1>2, <2>3, <3>3
        <3>4. QED BY <3>1, <3>2, <3>3
    <2>4. QED BY <1>2, <2>2, <2>3
<1>4. \A f \in flushes' : /\ Carried(f) \in SUBSET DOMAIN history
                          /\ \A g \in flushes' : f # g => Carried(f) \cap Carried(g) = {}
                          /\ f.batch = None => ~f.arrived
                          /\ f.arrived => Carried(f) \in SUBSET Taken
                          /\ ~f.arrived => Carried(f) \cap Taken = {}
    BY DEF Apart
<1>5. Taken \in SUBSET DOMAIN history
    BY DEF Apart
<1>6. QED BY <1>1, <1>3, <1>4, <1>5 DEF Apart, K

LEMMA ApartReplaced ==
    ASSUME Apart, NEW i, NEW s, Replaced(i, s),
           Held(s) \in SUBSET Held(sessions[i]), Flying(s) \cap Buffered(s) = {},
           \A f \in flushes' : f \in flushes \/ (Carried(f) = {} /\ ~f.arrived),
           UNCHANGED received, DOMAIN history' = DOMAIN history
    PROVE  Apart'
<1>1. /\ i \in DOMAIN sessions /\ DOMAIN sessions' = DOMAIN sessions /\ sessions'[i] = s
      /\ \A j \in DOMAIN sessions : j # i => sessions'[j] = sessions[j]
    BY DEF Replaced
<1>2. \A j \in DOMAIN sessions' :
        /\ j \in DOMAIN sessions /\ Held(sessions'[j]) \in SUBSET Held(sessions[j])
        /\ Flying(sessions'[j]) \cap Buffered(sessions'[j]) = {}
    BY <1>1 DEF Apart
<1>3. QED BY <1>2, ApartShrinks

LEMMA ApartBeginPoll ==
    ASSUME Typed, Apart, BeginPoll
    PROVE  Apart'
<1> DEFINE s == sessions[current]
           p == Len(history) + 1
           new == With(s, s.reporter, s.freshness, p)
<1>1. /\ current \in DOMAIN sessions /\ Replaced(current, new) /\ s.poll = None
      /\ history' \in Seq(Poll) /\ Len(history') = Len(history) + 1
      /\ UNCHANGED << flushes, received >>
    BY BeginPollSteps
<1>2. p \notin DOMAIN history /\ DOMAIN history' = DOMAIN history \cup {p} /\ p \in Nat
    <2>1. DOMAIN history = 1..Len(history) /\ Len(history) \in Nat
          /\ DOMAIN history' = 1..Len(history')
        BY <1>1, LenProperties DEF Typed
    <2>2. QED BY <1>1, <2>1
<1>3. /\ Flying(new) \in SUBSET {p} /\ Buffered(new) = Buffered(s)
      /\ Buffered(s) \in SUBSET Held(s)
    <2>1. Flying(new) = IF p = None THEN {} ELSE {p}
        <3> HIDE DEF p, s
        <3>1. QED BY HeldBy
    <2>2. Buffered(new) = IF s.reporter = None THEN {} ELSE PollsOf(s.reporter.buffer)
        <3> HIDE DEF p, s
        <3>1. QED BY HeldBy
    <2>3. Buffered(new) = Buffered(s)
        BY <2>2 DEF Buffered
    <2> HIDE DEF new
    <2>4. QED BY <2>1, <2>3 DEF Held
<1> DEFINE H(j) == Held(sessions[j])
           K(j) == Held(sessions'[j])
<1>4. /\ DOMAIN sessions' = DOMAIN sessions
      /\ \A j \in DOMAIN sessions : K(j) \in SUBSET H(j) \/ (j = current /\ K(j) \in SUBSET (H(j) \cup {p}))
      /\ \A j \in DOMAIN sessions : H(j) \in SUBSET DOMAIN history /\ H(j) \cap Taken = {}
      /\ \A j, k \in DOMAIN sessions : j # k => H(j) \cap H(k) = {}
      /\ \A f \in flushes, j \in DOMAIN sessions : Carried(f) \cap H(j) = {}
    <2>1. K(current) \in SUBSET (H(current) \cup {p})
        <3> HIDE DEF new, p
        <3>1. QED BY <1>1, <1>3 DEF Replaced, Held
    <2>2. \A j \in DOMAIN sessions : j # current => K(j) = H(j)
        BY <1>1 DEF Replaced
    <2> HIDE DEF K, H, new, p
    <2>3. DOMAIN sessions' = DOMAIN sessions
        BY <1>1 DEF Replaced
    <2>4. /\ \A j \in DOMAIN sessions : H(j) \in SUBSET DOMAIN history /\ H(j) \cap Taken = {}
          /\ \A j, k \in DOMAIN sessions : j # k => H(j) \cap H(k) = {}
          /\ \A f \in flushes, j \in DOMAIN sessions : Carried(f) \cap H(j) = {}
        BY DEF Apart, H
    <2>5. QED BY <2>1, <2>2, <2>3, <2>4
<1>5. \A j \in DOMAIN sessions : Flying(sessions'[j]) \cap Buffered(sessions'[j]) = {}
    <2>1. Buffered(s) \in SUBSET DOMAIN history
        BY <1>1, <1>3 DEF Apart
    <2>2. Flying(new) \cap Buffered(new) = {}
        <3> HIDE DEF new, p, s
        <3>1. QED BY <1>2, <1>3, <2>1
    <2> HIDE DEF new
    <2>3. QED BY <1>1, <2>2 DEF Apart, Replaced
<1>6. /\ Taken' = Taken /\ Taken \in SUBSET DOMAIN history
      /\ \A f \in flushes : Carried(f) \in SUBSET DOMAIN history
    BY <1>1 DEF Taken, Apart
<1> HIDE DEF H, K, p, new
<1>7. \A j \in DOMAIN sessions' : /\ K(j) \in SUBSET DOMAIN history' /\ K(j) \cap Taken = {}
                                  /\ \A k \in DOMAIN sessions' : j # k => K(j) \cap K(k) = {}
                                  /\ \A f \in flushes : Carried(f) \cap K(j) = {}
    BY <1>2, <1>4, <1>6
<1>8. \A f \in flushes : /\ Carried(f) \in SUBSET DOMAIN history'
                         /\ \A g \in flushes : f # g => Carried(f) \cap Carried(g) = {}
                         /\ f.batch = None => ~f.arrived
                         /\ f.arrived => Carried(f) \in SUBSET Taken
                         /\ ~f.arrived => Carried(f) \cap Taken = {}
    BY <1>2 DEF Apart
<1>9. Taken \in SUBSET DOMAIN history'
    BY <1>2, <1>6
<1>10. QED BY <1>1, <1>4, <1>5, <1>6, <1>7, <1>8, <1>9 DEF Apart, K

LEMMA ApartFinishPoll ==
    ASSUME Typed, Apart, NEW i \in DOMAIN sessions, FinishPoll(i)
    PROVE  Apart'
<1>1. PICK r \in Reporter \cup {None}, x \in Freshness, out \in Outcomes, told \in Outcomes :
        Ended(i, r, x, out, told)
    BY FinishPollSteps
<1>2. received' = received
    BY FinishPollSteps
<1> DEFINE s == sessions[i]
           new == With(s, r, x, None)
<1>3. /\ s.poll \in DOMAIN history /\ Replaced(i, new)
      /\ s.reporter = None => r = None
      /\ flushes' \in {flushes, flushes \cup {Spawned(i, s.poll)}}
      /\ DOMAIN history' = DOMAIN history
    BY <1>1 DEF Ended
<1>4. s.poll \in Nat /\ i \in Nat
    BY <1>3, IndicesOf, HistoryOf DEF Typed
<1>5. Carried(Spawned(i, s.poll)) = {} /\ ~Spawned(i, s.poll).arrived
    BY <1>4, SpawnedOf DEF Carried
<1>6. Buffered(new) \in SUBSET (Buffered(s) \cup {s.poll})
    <2>1. Buffered(new) = IF r = None THEN {} ELSE PollsOf(r.buffer)
        BY HeldBy
    <2>2. CASE r = None
        BY <2>1, <2>2
    <2>3. CASE r # None
        <3>1. PICK t : t = TraceFor(s.poll, told, build.backend)
            OBVIOUS
        <3>2. t \in Trace /\ t.poll = s.poll
            <4>1. told \in Outcomes
                OBVIOUS
            <4> HIDE DEF s
            <4>2. s.poll \in Nat
                BY <1>4 DEF s
            <4>3. QED BY <3>1, <4>1, <4>2, TraceForOf
        <3>3. s.reporter # None /\ s.reporter \in Reporter /\ r = Recorded(s.reporter, t)
            BY <1>1, <1>3, <2>3, <3>1 DEF Ended
        <3>4. ToSet(r.buffer) \in SUBSET (ToSet(s.reporter.buffer) \cup {t})
            <4>1. PICK old : old = s.reporter
                OBVIOUS
            <4> HIDE DEF s
            <4>2. old \in Reporter /\ r = Recorded(old, t)
                BY <3>3, <4>1
            <4>3. QED BY <3>2, <4>1, <4>2, RecordedOf
        <3>5. Buffered(s) = PollsOf(s.reporter.buffer)
            BY <3>3 DEF Buffered
        <3>6. PollsOf(r.buffer) \in SUBSET (PollsOf(s.reporter.buffer) \cup {t.poll})
            BY <3>4 DEF PollsOf, ToSet
        <3>7. QED BY <2>1, <2>3, <3>2, <3>5, <3>6
    <2>4. QED BY <2>2, <2>3
<1>7. Flying(new) = {}
    BY HeldBy
<1>8. Held(new) \in SUBSET Held(s)
    <2>1. s.poll # None
        BY DEF FinishPoll
    <2> HIDE DEF new
    <2>2. QED BY <1>6, <1>7, <2>1 DEF Held, Flying
<1> HIDE DEF new
<1>9. QED BY <1>2, <1>3, <1>5, <1>7, <1>8, ApartReplaced

LEMMA ApartRunFlush ==
    ASSUME Typed, Running, Apart, NEW f \in flushes, RunFlush(f)
    PROVE  Apart'
<1>1. PICK q \in Reporter, g \in Flush : Ran(f, q, g)
    BY RunFlushSteps
<1>2. f.batch = None /\ UNCHANGED << received, history >>
    BY RunFlushSteps
<1> DEFINE i == f.session
           s == sessions[i]
           new == With(s, q, s.freshness, s.poll)
<1>3. /\ i \in DOMAIN sessions /\ s.reporter # None /\ q # None /\ q.buffer = << >>
      /\ Replaced(i, new) /\ g.batch = s.reporter.buffer /\ g.arrived = f.arrived
      /\ s.reporter \in Reporter
      /\ flushes' \in {flushes \ {f}, (flushes \ {f}) \cup {g}}
    BY <1>1, DrainedOf DEF Ran
<1>4. Buffered(new) = {} /\ Flying(new) = Flying(s)
    <2>1. Buffered(new) = PollsOf(q.buffer)
        BY <1>3, HeldBy
    <2>2. Flying(new) = Flying(s)
        <3>1. Flying(new) = IF s.poll = None THEN {} ELSE {s.poll}
            <4> HIDE DEF s
            <4>1. QED BY HeldBy
        <3>2. QED BY <3>1 DEF Flying
    <2>3. QED BY <1>3, <2>1, <2>2, PollsOfNone
<1>5. Carried(g) \in SUBSET Buffered(s) /\ ~g.arrived
    <2>1. ~f.arrived
        BY <1>2 DEF Apart
    <2>2. QED BY <1>3, <2>1 DEF Carried, Buffered
<1> HIDE DEF new, i
<1>6. /\ Flying(s) \in SUBSET Held(s) /\ Buffered(s) \in SUBSET Held(s)
      /\ Flying(s) \cap Buffered(s) = {} /\ Held(new) = Flying(s)
    BY <1>3, <1>4 DEF Apart, Held
<1> DEFINE H(j) == Held(sessions[j])
           K(j) == Held(sessions'[j])
<1>7. /\ DOMAIN sessions' = DOMAIN sessions
      /\ \A j \in DOMAIN sessions : /\ K(j) \in SUBSET H(j)
                                    /\ Buffered(s) \cap K(j) = {}
                                    /\ Flying(sessions'[j]) \cap Buffered(sessions'[j]) = {}
    <2>1. \A j \in DOMAIN sessions : j # i => Held(s) \cap Held(sessions[j]) = {}
        BY <1>3 DEF Apart
    <2>2. QED BY <1>3, <1>4, <1>6, <2>1 DEF Replaced, Apart
<1>8. /\ \A j \in DOMAIN sessions : H(j) \in SUBSET DOMAIN history /\ H(j) \cap Taken = {}
      /\ \A j, k \in DOMAIN sessions : j # k => H(j) \cap H(k) = {}
      /\ \A h \in flushes, j \in DOMAIN sessions : Carried(h) \cap H(j) = {}
      /\ Held(s) = H(i)
    BY DEF Apart
<1>9. Taken' = Taken /\ Taken \in SUBSET DOMAIN history
    BY <1>2 DEF Taken, Apart
<1>10. \A h \in flushes : /\ Carried(h) \in SUBSET DOMAIN history
                          /\ \A k \in flushes : h # k => Carried(h) \cap Carried(k) = {}
                          /\ h.batch = None => ~h.arrived
                          /\ h.arrived => Carried(h) \in SUBSET Taken
                          /\ ~h.arrived => Carried(h) \cap Taken = {}
    BY DEF Apart
<1> HIDE DEF H, K, s
<1>11. \A j \in DOMAIN sessions' : /\ K(j) \in SUBSET DOMAIN history /\ K(j) \cap Taken = {}
                                   /\ \A k \in DOMAIN sessions' : j # k => K(j) \cap K(k) = {}
                                   /\ \A h \in flushes' : Carried(h) \cap K(j) = {}
    BY <1>3, <1>5, <1>7, <1>8
<1>12. /\ Carried(g) \in SUBSET DOMAIN history /\ Carried(g) \cap Taken = {}
       /\ \A h \in flushes : Carried(h) \cap Carried(g) = {}
    BY <1>3, <1>5, <1>6, <1>8
<1>13. \A h \in flushes' : /\ Carried(h) \in SUBSET DOMAIN history
                           /\ \A k \in flushes' : h # k => Carried(h) \cap Carried(k) = {}
                           /\ h.batch = None => ~h.arrived
                           /\ h.arrived => Carried(h) \in SUBSET Taken
                           /\ ~h.arrived => Carried(h) \cap Taken = {}
    BY <1>3, <1>5, <1>10, <1>12
<1>14. QED BY <1>2, <1>7, <1>9, <1>11, <1>13 DEF Apart, K

-----------------------------------------------------------------------------
(***************************************************************************)
(* Every trace says what its poll came to, and every poll that a reporter  *)
(* holds began with the user's consent.                                    *)
(***************************************************************************)
Faithful(batch, h, name) ==
    /\ DistinctPolls(batch)
    /\ \A t \in ToSet(batch) : /\ t = TraceFor(t.poll, h[t.poll].outcome, name)
                               /\ ~h[t.poll].optedOut

Truthful(s, h, name) ==
    s.reporter # None => /\ Faithful(s.reporter.buffer, h, name)
                         /\ s.poll # None => ~h[s.poll].optedOut

\* What the app remembers of the roster it last listed is from a poll of the
\* past, so that a poll to come is told apart from it.
Remembered ==
    \A x \in Lasts : x # None => /\ x \in DOMAIN history
                                 /\ \A i \in DOMAIN sessions : sessions[i].poll # x

Told ==
    /\ \A i \in DOMAIN sessions : Truthful(sessions[i], history, build.backend)
    /\ \A f \in flushes : f.batch # None => Faithful(f.batch, history, build.backend)

(* What becomes of the other polls is nothing to a batch, or a session.    *)
LEMMA FaithfulElsewhere ==
    ASSUME NEW batch, NEW g, NEW h, NEW D, NEW name, PollsOf(batch) \in SUBSET D,
           \A p \in D : h[p] = g[p], Faithful(batch, g, name)
    PROVE  Faithful(batch, h, name)
<1>1. \A t \in ToSet(batch) : t.poll \in D
    BY DEF PollsOf, ToSet
<1>2. QED BY <1>1 DEF Faithful

LEMMA TruthfulElsewhere ==
    ASSUME NEW s, NEW g, NEW h, NEW D, NEW name, Held(s) \in SUBSET D,
           \A p \in D : h[p] = g[p], Truthful(s, g, name)
    PROVE  Truthful(s, h, name)
<1>1. SUFFICES ASSUME s.reporter # None
               PROVE  /\ Faithful(s.reporter.buffer, h, name)
                      /\ s.poll # None => ~h[s.poll].optedOut
    BY DEF Truthful
<1>2. PICK batch : batch = s.reporter.buffer
    OBVIOUS
<1>3. PollsOf(batch) \in SUBSET D /\ Faithful(batch, g, name)
    BY <1>1, <1>2 DEF Held, Buffered, Truthful
<1>4. Faithful(batch, h, name)
    BY <1>3, FaithfulElsewhere
<1>5. s.poll # None => ~h[s.poll].optedOut
    BY <1>1 DEF Held, Flying, Truthful
<1>6. QED BY <1>2, <1>4, <1>5

(* What the backend takes: a report for each trace of the batch.           *)
Delivery(f, new) ==
    /\ received' = received \cup new /\ IsFiniteSet(new)
    /\ twice' = twice \cup {p \in Carried(f) : p \in Taken}
    /\ \A p \in Carried(f) : \E r \in new : r.poll = p
    /\ \A r \in new : r.poll \in Carried(f)
    /\ \A r \in new : /\ r.span.attributes.Outcome = history[r.poll].outcome
                      /\ ~history[r.poll].optedOut
                      /\ r.url = TracesUrl(FromBundle(build.endpoint, build.key))
                      /\ r.resource.ServiceInstanceId = launch
                      /\ r.resource.ServiceVersion = AppVersion(build.version)
                      /\ r.resource.OsVersion = OsVersion(build.osVersion)

LEMMA DeliveryOf ==
    ASSUME Typed, Running, Told, NEW f \in flushes, Deliver(f)
    PROVE  \E new : Delivery(f, new)
<1> DEFINE batch == f.batch
           reporter == sessions[f.session].reporter
           resource == ResourceOf(reporter)
           url == TracesUrl(FromBundle(build.endpoint, build.key))
           spans == ExportTraceRequest(resource, batch).spans
           Report(span) == [poll |-> span.traceId, url |-> url, resource |-> resource,
                            span |-> span]
           new == {Report(span) : span \in spans}
<1>1. /\ batch \in Seq(Trace) /\ batch # None
      /\ f.session \in DOMAIN sessions /\ reporter # None
    BY DeliverSteps, ReporterOfFlush
<1>2. Faithful(batch, history, build.backend)
    BY <1>1 DEF Told
<1>3. /\ \A span \in spans : /\ span.traceId \in {t.poll : t \in ToSet(batch)}
                             /\ span.attributes.Outcome = history[span.traceId].outcome
      /\ \A t \in ToSet(batch) : \E span \in spans : span.traceId = t.poll
      /\ IsFiniteSet(spans)
    <2>1. PICK name : name = build.backend
        OBVIOUS
    <2> HIDE DEF batch, resource
    <2>2. \A t \in ToSet(batch) : t = TraceFor(t.poll, history[t.poll].outcome, name)
        BY <1>2, <2>1 DEF Faithful
    <2>3. QED BY <1>1, <2>2, SpansOnTheWire
<1>4. {t.poll : t \in ToSet(batch)} = PollsOf(batch) /\ Carried(f) = PollsOf(batch)
    BY <1>1 DEF Carried, PollsOf, ToSet
<1>5. /\ received' = received \cup new
      /\ twice' = twice \cup {p \in {t.poll : t \in ToSet(batch)} : \E r \in received : r.poll = p}
    BY DEF Deliver, ExportTraceRequest
<1>6. /\ resource.ServiceInstanceId = reporter.install
      /\ resource.ServiceVersion = AppVersion(build.version)
      /\ resource.OsVersion = OsVersion(build.osVersion)
    BY DEF ResourceOf, Resource
<1>7. reporter.install = launch
    BY <1>1 DEF Running, Proper
<1> HIDE DEF batch, reporter, resource, url, spans
<1>8. IsFiniteSet(new)
    <2> DEFINE W == [span \in spans |-> Report(span)]
    <2>1. W \in Surjection(spans, new)
        BY DEF Surjection
    <2> HIDE DEF W, new
    <2>2. QED BY <1>3, <2>1, FS_Surjection
<1>9. /\ \A p \in Carried(f) : \E r \in new : r.poll = p
      /\ \A r \in new : r.poll \in Carried(f)
    <2>1. \A span \in spans : Report(span).poll = span.traceId
        OBVIOUS
    <2>2. /\ \A r \in new : \E span \in spans : r = Report(span)
          /\ \A span \in spans : Report(span) \in new
        OBVIOUS
    <2> HIDE DEF new, Report
    <2>3. QED BY <1>3, <1>4, <2>1, <2>2
<1>10. \A r \in new : /\ r.span \in spans /\ r.poll = r.span.traceId /\ r.url = url
                      /\ r.resource = resource
    OBVIOUS
<1>11. twice' = twice \cup {p \in Carried(f) : p \in Taken}
    BY <1>4, <1>5 DEF Taken
<1> HIDE DEF new
<1>12. \A r \in new : ~history[r.poll].optedOut
    BY <1>2, <1>3, <1>4, <1>10 DEF Faithful
<1>13. \A r \in new : r.span.attributes.Outcome = history[r.poll].outcome
    BY <1>3, <1>10
<1>14. Delivery(f, new)
    BY <1>5, <1>6, <1>7, <1>8, <1>9, <1>10, <1>11, <1>12, <1>13 DEF Delivery, url
<1>15. QED BY <1>14

LEMMA ApartDeliver ==
    ASSUME Typed, Running, Told, Apart, NEW f \in flushes, Deliver(f)
    PROVE  Apart'
<1>1. PICK new : Delivery(f, new)
    BY DeliveryOf
<1>2. PICK g \in Flush : /\ g = [session |-> f.session, by |-> f.by, batch |-> f.batch,
                                 arrived |-> TRUE]
                         /\ flushes' = (flushes \ {f}) \cup {g}
    BY DeliverSteps
<1>3. UNCHANGED << sessions, history >> /\ f.batch # None
    BY DeliverSteps
<1>4. Taken' = Taken \cup Carried(f)
    BY <1>1 DEF Taken, Delivery
<1>5. Carried(g) = Carried(f) /\ g.arrived /\ g.batch # None
    BY <1>2, <1>3 DEF Carried
<1>6. /\ Taken' \in SUBSET DOMAIN history
      /\ \A i \in DOMAIN sessions : Held(sessions[i]) \cap Taken' = {}
    BY <1>4 DEF Apart
<1>7. \A h \in flushes' : /\ Carried(h) \in SUBSET DOMAIN history
                          /\ \A i \in DOMAIN sessions : Carried(h) \cap Held(sessions[i]) = {}
                          /\ \A k \in flushes' : h # k => Carried(h) \cap Carried(k) = {}
                          /\ h.batch = None => ~h.arrived
                          /\ h.arrived => Carried(h) \in SUBSET Taken'
                          /\ ~h.arrived => Carried(h) \cap Taken' = {}
    BY <1>2, <1>4, <1>5 DEF Apart
<1>8. QED BY <1>3, <1>6, <1>7 DEF Apart

LEMMA HoldsNothing ==
    ASSUME NEW s, s.poll = None, s.reporter # None => s.reporter.buffer = << >>
    PROVE  Held(s) = {} /\ Flying(s) = {} /\ Buffered(s) = {}
    BY PollsOfNone DEF Held, Flying, Buffered

LEMMA AssembledHoldsNothing ==
    ASSUME NEW out \in BOOLEAN, NEW process \in Nat, NEW x \in Freshness,
           NEW s, s = Assembled(out, process, x)
    PROVE  /\ s.poll = None /\ s.freshness = x
           /\ s.reporter # None => /\ s.reporter.buffer = << >>
                                   /\ s.reporter.spans = 0
<1>1. s.poll = None /\ s.freshness = x /\ s.reporter \in {None, NewReporter(process)}
    BY AssembledOf
<1>2. NewReporter(process).buffer = << >> /\ NewReporter(process).spans = 0
    BY DEF NewReporter
<1>3. QED BY <1>1, <1>2

LEMMA ApartKept ==
    ASSUME Typed, Running, Told, Apart, [Next]_vars
    PROVE  Apart'
<1>1. CASE BeginPoll
    BY <1>1, ApartBeginPoll
<1>2. ASSUME NEW i \in DOMAIN sessions, FinishPoll(i)
      PROVE  Apart'
    BY <1>2, ApartFinishPoll
<1>3. ASSUME NEW i \in DOMAIN sessions, DropPoll(i)
      PROVE  Apart'
    <2> DEFINE s == sessions[i]
               new == With(s, s.reporter, s.freshness, None)
    <2>1. Replaced(i, new)
        BY <1>3, DropPollSteps
    <2>2. Flying(new) = {} /\ Buffered(new) = Buffered(s)
        <3>1. Flying(new) = {}
            BY HeldBy
        <3>2. Buffered(new) = IF s.reporter = None THEN {} ELSE PollsOf(s.reporter.buffer)
            <4> HIDE DEF s
            <4>1. QED BY HeldBy
        <3>3. QED BY <3>1, <3>2 DEF Buffered
    <2> HIDE DEF new
    <2>3. Held(new) \in SUBSET Held(s)
        BY <2>2 DEF Held
    <2>4. UNCHANGED << flushes, received, history >>
        BY <1>3 DEF DropPoll
    <2>5. QED BY <2>1, <2>2, <2>3, <2>4, ApartReplaced
<1>4. CASE FlushUsage
    <2>1. UNCHANGED << sessions, received, history >> /\ flushes' = flushes \cup {Spawned(current, 0)}
        BY <1>4 DEF FlushUsage
    <2>2. current \in Nat
        BY <1>4, IndicesOf DEF FlushUsage, Typed
    <2>3. Carried(Spawned(current, 0)) = {} /\ ~Spawned(current, 0).arrived
        BY <2>2, SpawnedOf DEF Carried
    <2>4. \A j \in DOMAIN sessions' :
            /\ j \in DOMAIN sessions /\ Held(sessions'[j]) \in SUBSET Held(sessions[j])
            /\ Flying(sessions'[j]) \cap Buffered(sessions'[j]) = {}
        BY <2>1 DEF Apart
    <2>5. QED BY <2>1, <2>3, <2>4, ApartShrinks
<1>5. ASSUME NEW f \in flushes, RunFlush(f)
      PROVE  Apart'
    BY <1>5, ApartRunFlush
<1>6. ASSUME NEW f \in flushes, Deliver(f)
      PROVE  Apart'
    BY <1>6, ApartDeliver
<1>7. ASSUME NEW f \in flushes, Answer(f) \/ GiveUp(f)
      PROVE  Apart'
    <2>1. PICK q \in Reporter : Settled(f, q)
        BY <1>7, SettleSteps
    <2>2. UNCHANGED << received, history >>
        BY <1>7, SettleSteps
    <2> DEFINE i == f.session
               s == sessions[i]
               new == With(s, q, s.freshness, s.poll)
    <2>3. /\ Replaced(i, new) /\ q # None /\ s.reporter # None /\ i \in DOMAIN sessions
          /\ q.buffer = s.reporter.buffer /\ flushes' = flushes \ {f}
        BY <2>1 DEF Settled
    <2>4. Flying(new) = Flying(s) /\ Buffered(new) = Buffered(s)
        <3> HIDE DEF s
        <3>1. Flying(new) = IF s.poll = None THEN {} ELSE {s.poll}
            BY HeldBy
        <3>3. Buffered(new) = IF q = None THEN {} ELSE PollsOf(q.buffer)
            BY HeldBy
        <3>2. QED BY <2>3, <3>1, <3>3 DEF Flying, Buffered
    <2> HIDE DEF new, i
    <2>5. Held(new) \in SUBSET Held(s) /\ Flying(new) \cap Buffered(new) = {}
        BY <2>3, <2>4 DEF Held, Apart
    <2>6. QED BY <2>2, <2>3, <2>5, ApartReplaced
<1>8. ASSUME NEW f \in flushes, DropFlush(f)
      PROVE  Apart'
    <2>1. UNCHANGED << sessions, received, history >> /\ flushes' = flushes \ {f}
        BY <1>8 DEF DropFlush
    <2>2. \A j \in DOMAIN sessions' :
            /\ j \in DOMAIN sessions /\ Held(sessions'[j]) \in SUBSET Held(sessions[j])
            /\ Flying(sessions'[j]) \cap Buffered(sessions'[j]) = {}
        BY <2>1 DEF Apart
    <2>3. QED BY <2>1, <2>2, ApartShrinks
<1>9. CASE (\E enabled \in BOOLEAN : SetReporting(enabled)) \/ Reload
    <2>1. /\ optedOut' \in BOOLEAN /\ Rebuilt(optedOut')
          /\ UNCHANGED << flushes, received, history >>
        BY <1>9, RebuildSteps
    <2>2. CASE UNCHANGED << sessions, cache >> /\ current' = None
        BY <2>1, <2>2, ApartShrinks DEF Apart
    <2>3. ASSUME NEW x \in Freshness, Added(Assembled(optedOut', launch, x))
          PROVE  Apart'
        <3>1. PICK s : s = Assembled(optedOut', launch, x)
            OBVIOUS
        <3>2. Held(s) = {} /\ Flying(s) = {}
            <4>1. launch \in Nat
                BY DEF Typed
            <4>2. s.poll = None /\ (s.reporter # None => s.reporter.buffer = << >>)
                BY <2>1, <3>1, <4>1, AssembledHoldsNothing
            <4>3. QED BY <4>2, HoldsNothing
        <3>3. Added(s)
            BY <2>3, <3>1
        <3>4. \A j \in DOMAIN sessions' :
                /\ \/ Held(sessions'[j]) = {}
                   \/ j \in DOMAIN sessions /\ Held(sessions'[j]) \in SUBSET Held(sessions[j])
                /\ Flying(sessions'[j]) \cap Buffered(sessions'[j]) = {}
            BY <3>2, <3>3 DEF Added, Apart
        <3>5. QED BY <2>1, <3>4, ApartShrinks
    <2>4. QED BY <2>1, <2>2, <2>3 DEF Rebuilt
<1>10. CASE Relaunch
    <2>1. /\ sessions' = << Assembled(optedOut, launch + 1, NewFreshness) >>
          /\ flushes' = {} /\ UNCHANGED << received, history >>
        BY <1>10 DEF Relaunch
    <2>2. optedOut \in BOOLEAN /\ launch + 1 \in Nat
        BY DEF Typed
    <2>3. PICK s : s = Assembled(optedOut, launch + 1, NewFreshness)
        OBVIOUS
    <2>4. DOMAIN sessions' = {1} /\ sessions'[1] = s
        BY <2>1, <2>2, <2>3, StartedOf
    <2>5. s.poll = None /\ (s.reporter # None => s.reporter.buffer = << >>)
        BY <2>2, <2>3, AssembledHoldsNothing, NewFreshnessOf
    <2>6. Held(s) = {} /\ Flying(s) = {}
        BY <2>5, HoldsNothing
    <2>7. QED BY <2>1, <2>4, <2>6, ApartShrinks
<1>11. CASE UNCHANGED vars
    BY <1>11, ApartShrinks DEF vars, Apart
<1>12. QED BY <1>1, <1>2, <1>3, <1>4, <1>5, <1>6, <1>7, <1>8, <1>9, <1>10, <1>11 DEF Next

(* The steps that end no poll and begin none.                              *)
LEMMA ToldOtherwise ==
    ASSUME Told, UNCHANGED << build, history >>,
           \A j \in DOMAIN sessions' : Truthful(sessions'[j], history, build.backend),
           \A f \in flushes' : f \in flushes \/ f.batch = None
                               \/ Faithful(f.batch, history, build.backend)
    PROVE  Told'
    BY DEF Told, Truthful, Faithful

LEMMA ToldBeginPoll ==
    ASSUME Typed, Running, Apart, Told, BeginPoll
    PROVE  Told'
<1> DEFINE s == sessions[current]
           p == Len(history) + 1
           new == With(s, s.reporter, s.freshness, p)
           name == build.backend
<1>1. /\ current # None /\ current \in DOMAIN sessions /\ Replaced(current, new)
      /\ \A q \in DOMAIN history : history'[q] = history[q]
      /\ history'[p].optedOut = optedOut
      /\ UNCHANGED << build, flushes >>
    BY BeginPollSteps
<1>2. \A j \in DOMAIN sessions : Truthful(sessions[j], history', name)
    <2>1. TAKE j \in DOMAIN sessions
    <2>2. PICK u, g, h, n : u = sessions[j] /\ g = history /\ h = history' /\ n = name
        OBVIOUS
    <2>3. Held(u) \in SUBSET DOMAIN g /\ Truthful(u, g, n) /\ \A q \in DOMAIN g : h[q] = g[q]
        BY <1>1, <2>2 DEF Apart, Told
    <2>4. QED BY <2>2, <2>3, TruthfulElsewhere
<1>3. Truthful(new, history', name)
    <2>1. optedOut => s.reporter = None
        BY <1>1 DEF Running, InEffect
    <2>2. new.reporter = s.reporter /\ new.poll = p
        <3> HIDE DEF s, p
        <3>1. QED BY WithFields
    <2>3. Truthful(s, history', name)
        BY <1>1, <1>2
    <2> HIDE DEF new, p, s, name
    <2>4. QED BY <1>1, <2>1, <2>2, <2>3 DEF Truthful
<1> HIDE DEF new
<1>4. \A j \in DOMAIN sessions' : Truthful(sessions'[j], history', name)
    BY <1>1, <1>2, <1>3 DEF Replaced
<1>5. \A f \in flushes : f.batch # None => Faithful(f.batch, history', name)
    <2>1. SUFFICES ASSUME NEW f \in flushes, f.batch # None
                   PROVE  Faithful(f.batch, history', name)
        OBVIOUS
    <2>2. PICK b, g, h, n : b = f.batch /\ g = history /\ h = history' /\ n = name
        OBVIOUS
    <2>3. PollsOf(b) \in SUBSET DOMAIN g /\ Faithful(b, g, n) /\ \A q \in DOMAIN g : h[q] = g[q]
        BY <1>1, <2>1, <2>2 DEF Apart, Told, Carried
    <2>4. QED BY <2>2, <2>3, FaithfulElsewhere
<1>6. name = build'.backend
    BY <1>1
<1> HIDE DEF name
<1>7. QED BY <1>1, <1>4, <1>5, <1>6 DEF Told

LEMMA ToldFinishPoll ==
    ASSUME Typed, Running, Apart, Told, Remembered, NEW i \in DOMAIN sessions, FinishPoll(i)
    PROVE  Told'
<1>1. PICK r \in Reporter \cup {None}, x \in Freshness, out \in Outcomes, told \in Outcomes :
        Ended(i, r, x, out, told)
    BY FinishPollSteps
<1>2. build' = build
    BY FinishPollSteps
<1> DEFINE s == sessions[i]
           p == s.poll
           new == With(s, r, x, None)
           name == build.backend
           D == DOMAIN history \ {p}
<1>3. /\ p \in DOMAIN history /\ p # None /\ Replaced(i, new)
      /\ flushes' \in {flushes, flushes \cup {Spawned(i, p)}}
      /\ \A q \in D : history'[q] = history[q]
      /\ history'[p].optedOut = history[p].optedOut /\ history'[p].outcome = out
    BY <1>1 DEF Ended, FinishPoll
<1>4. told = out
    <2>1. s.freshness.lastRoster \in Lasts
        BY DEF Lasts
    <2>2. s.freshness.lastRoster # p
        BY <1>3, <2>1 DEF Remembered
    <2>3. QED BY <1>1, <2>2 DEF Ended
<1>5. p \in Held(s) /\ p \notin Buffered(s) /\ Buffered(s) \in SUBSET DOMAIN history
    BY <1>3 DEF Held, Flying, Apart
<1>6. \A j \in DOMAIN sessions : j # i => Truthful(sessions[j], history', name)
    <2>1. SUFFICES ASSUME NEW j \in DOMAIN sessions, j # i
                   PROVE  Truthful(sessions[j], history', name)
        OBVIOUS
    <2>2. PICK u, g, h, n, E : u = sessions[j] /\ g = history /\ h = history' /\ n = name /\ E = D
        OBVIOUS
    <2>3. Held(u) \in SUBSET E
        BY <1>5, <2>1, <2>2 DEF Apart
    <2>4. Truthful(u, g, n) /\ \A q \in E : h[q] = g[q]
        BY <1>3, <2>2 DEF Told
    <2>5. QED BY <2>2, <2>3, <2>4, TruthfulElsewhere
<1>7. Truthful(new, history', name)
    <2>1. new.reporter = r /\ new.poll = None
        <3> HIDE DEF s
        <3>1. QED BY WithFields
    <2>2. SUFFICES ASSUME r # None
                   PROVE  Faithful(r.buffer, history', name)
        BY <2>1 DEF Truthful
    <2>3. PICK old, t, b : old = s.reporter /\ t = TraceFor(p, told, name) /\ b = old.buffer
        OBVIOUS
    <2>4. old # None /\ old \in Reporter /\ r = Recorded(old, t)
        BY <1>1, <2>2, <2>3 DEF Ended
    <2>5. p \in Nat /\ told \in Outcomes
        BY <1>3, HistoryOf DEF Typed
    <2>6. t \in Trace /\ t.poll = p
        <3> HIDE DEF p
        <3>1. QED BY <2>3, <2>5, TraceForOf
    <2>7. Faithful(b, history, name) /\ ~history[p].optedOut
        BY <1>3, <2>3, <2>4 DEF Told, Truthful
    <2>8. PollsOf(b) \in SUBSET D /\ p \notin PollsOf(b)
        BY <1>5, <2>3, <2>4 DEF Buffered
    <2>9. Faithful(b, history', name)
        <3>1. PICK g, h, n, E : g = history /\ h = history' /\ n = name /\ E = D
            OBVIOUS
        <3>2. PollsOf(b) \in SUBSET E /\ Faithful(b, g, n) /\ \A q \in E : h[q] = g[q]
            BY <1>3, <2>7, <2>8, <3>1
        <3>3. QED BY <3>1, <3>2, FaithfulElsewhere
    <2>10. /\ ToSet(r.buffer) \in SUBSET (ToSet(b) \cup {t})
           /\ DistinctPolls(b) /\ t.poll \notin PollsOf(b) => DistinctPolls(r.buffer)
        <3>1. ToSet(r.buffer) \in SUBSET (ToSet(old.buffer) \cup {t})
            BY <2>4, <2>6, RecordedOf
        <3>2. DistinctPolls(old.buffer) /\ t.poll \notin PollsOf(old.buffer)
                => DistinctPolls(r.buffer)
            BY <2>4, <2>6, RecordedOf
        <3>3. QED BY <2>3, <3>1, <3>2
    <2>11. t = TraceFor(t.poll, history'[t.poll].outcome, name) /\ ~history'[t.poll].optedOut
        BY <1>3, <1>4, <2>3, <2>6, <2>7
    <2> HIDE DEF p, name, D
    <2>12. QED BY <2>6, <2>8, <2>9, <2>10, <2>11 DEF Faithful
<1>8. \A f \in flushes : f.batch # None => Faithful(f.batch, history', name)
    <2>1. SUFFICES ASSUME NEW f \in flushes, f.batch # None
                   PROVE  Faithful(f.batch, history', name)
        OBVIOUS
    <2>2. PICK b, g, h, n, E : b = f.batch /\ g = history /\ h = history' /\ n = name /\ E = D
        OBVIOUS
    <2>3. PollsOf(b) \in SUBSET E
        BY <1>5, <2>1, <2>2 DEF Apart, Carried
    <2>4. Faithful(b, g, n) /\ \A q \in E : h[q] = g[q]
        BY <1>3, <2>1, <2>2 DEF Told
    <2>5. QED BY <2>2, <2>3, <2>4, FaithfulElsewhere
<1>9. Spawned(i, p).batch = None
    BY DEF Spawned
<1>10. name = build'.backend
    BY <1>2
<1> HIDE DEF new, name, p
<1>11. \A j \in DOMAIN sessions' : Truthful(sessions'[j], history', name)
    BY <1>3, <1>6, <1>7 DEF Replaced
<1>12. QED BY <1>3, <1>8, <1>9, <1>10, <1>11 DEF Told

LEMMA NothingToTell ==
    ASSUME NEW s, s.poll = None, s.reporter # None => s.reporter.buffer = << >>,
           NEW h, NEW name
    PROVE  Truthful(s, h, name)
<1>1. DOMAIN << >> = {} /\ ToSet(<< >>) = {}
    BY DEF ToSet
<1>2. Faithful(<< >>, h, name)
    BY <1>1 DEF Faithful, DistinctPolls
<1>3. QED BY <1>2 DEF Truthful

LEMMA ToldKept ==
    ASSUME Typed, Running, Apart, Told, Remembered, [Next]_vars
    PROVE  Told'
<1> DEFINE name == build.backend
<1>1. CASE BeginPoll
    BY <1>1, ToldBeginPoll
<1>2. ASSUME NEW i \in DOMAIN sessions, FinishPoll(i)
      PROVE  Told'
    BY <1>2, ToldFinishPoll
<1>3. ASSUME NEW i \in DOMAIN sessions, DropPoll(i)
      PROVE  Told'
    <2> DEFINE s == sessions[i]
               new == With(s, s.reporter, s.freshness, None)
    <2>1. Replaced(i, new) /\ UNCHANGED << build, history, flushes >>
        BY <1>3, DropPollSteps DEF DropPoll
    <2>2. new.reporter = s.reporter /\ new.poll = None
        <3> HIDE DEF s
        <3>1. QED BY WithFields
    <2> HIDE DEF new
    <2>3. Truthful(new, history, name)
        BY <2>2 DEF Told, Truthful
    <2>4. \A j \in DOMAIN sessions' : Truthful(sessions'[j], history, name)
        BY <2>1, <2>3 DEF Replaced, Told
    <2>5. QED BY <2>1, <2>4, ToldOtherwise
<1>4. CASE FlushUsage
    <2>1. UNCHANGED << sessions, build, history >> /\ flushes' = flushes \cup {Spawned(current, 0)}
        BY <1>4 DEF FlushUsage
    <2>2. Spawned(current, 0).batch = None
        BY DEF Spawned
    <2>3. \A j \in DOMAIN sessions' : Truthful(sessions'[j], history, name)
        BY <2>1 DEF Told
    <2>4. QED BY <2>1, <2>2, <2>3, ToldOtherwise
<1>5. ASSUME NEW f \in flushes, RunFlush(f)
      PROVE  Told'
    <2>1. PICK q \in Reporter, g \in Flush : Ran(f, q, g)
        BY <1>5, RunFlushSteps
    <2>2. UNCHANGED << build, history >>
        BY <1>5, RunFlushSteps
    <2> DEFINE i == f.session
               s == sessions[i]
               new == With(s, q, s.freshness, s.poll)
    <2>3. /\ i \in DOMAIN sessions /\ s.reporter # None /\ q.buffer = << >>
          /\ Replaced(i, new) /\ g.batch = s.reporter.buffer
          /\ flushes' \in {flushes \ {f}, (flushes \ {f}) \cup {g}}
        BY <2>1, DrainedOf DEF Ran
    <2>4. new.reporter = q /\ new.poll = s.poll
        <3> HIDE DEF s
        <3>1. QED BY WithFields
    <2>5. Faithful(s.reporter.buffer, history, name) /\ (s.poll # None => ~history[s.poll].optedOut)
        BY <2>3 DEF Told, Truthful
    <2> HIDE DEF new, i
    <2>6. Truthful(new, history, name)
        <3>1. Faithful(<< >>, history, name)
            BY DEF Faithful, DistinctPolls, ToSet
        <3>2. QED BY <2>3, <2>4, <2>5, <3>1 DEF Truthful
    <2>7. \A j \in DOMAIN sessions' : Truthful(sessions'[j], history, name)
        BY <2>3, <2>6 DEF Replaced, Told
    <2>8. QED BY <2>2, <2>3, <2>5, <2>7, ToldOtherwise
<1>6. ASSUME NEW f \in flushes, Deliver(f)
      PROVE  Told'
    <2>1. PICK g \in Flush : g.batch = f.batch /\ flushes' = (flushes \ {f}) \cup {g}
        BY <1>6, DeliverSteps
    <2>2. UNCHANGED << build, history, sessions >> /\ f.batch # None
        BY <1>6, DeliverSteps
    <2>3. \A j \in DOMAIN sessions' : Truthful(sessions'[j], history, name)
        BY <2>2 DEF Told
    <2>4. Faithful(g.batch, history, name)
        BY <2>1, <2>2 DEF Told
    <2>5. QED BY <2>1, <2>2, <2>3, <2>4, ToldOtherwise
<1>7. ASSUME NEW f \in flushes, Answer(f) \/ GiveUp(f)
      PROVE  Told'
    <2>1. PICK q \in Reporter : Settled(f, q)
        BY <1>7, SettleSteps
    <2>2. UNCHANGED << build, history >>
        BY <1>7, SettleSteps
    <2> DEFINE i == f.session
               s == sessions[i]
               new == With(s, q, s.freshness, s.poll)
    <2>3. /\ Replaced(i, new) /\ q # None /\ s.reporter # None /\ i \in DOMAIN sessions
          /\ q.buffer = s.reporter.buffer /\ flushes' = flushes \ {f}
        BY <2>1 DEF Settled
    <2>4. new.reporter = q /\ new.poll = s.poll
        <3> HIDE DEF s
        <3>1. QED BY WithFields
    <2> HIDE DEF new, i
    <2>5. Truthful(new, history, name)
        BY <2>3, <2>4 DEF Told, Truthful
    <2>6. \A j \in DOMAIN sessions' : Truthful(sessions'[j], history, name)
        BY <2>3, <2>5 DEF Replaced, Told
    <2>7. QED BY <2>2, <2>3, <2>6, ToldOtherwise
<1>8. ASSUME NEW f \in flushes, DropFlush(f)
      PROVE  Told'
    <2>1. UNCHANGED << sessions, build, history >> /\ flushes' = flushes \ {f}
        BY <1>8 DEF DropFlush
    <2>2. \A j \in DOMAIN sessions' : Truthful(sessions'[j], history, name)
        BY <2>1 DEF Told
    <2>3. QED BY <2>1, <2>2, ToldOtherwise
<1>9. CASE (\E enabled \in BOOLEAN : SetReporting(enabled)) \/ Reload
    <2>1. /\ optedOut' \in BOOLEAN /\ Rebuilt(optedOut')
          /\ UNCHANGED << flushes, build, history >>
        BY <1>9, RebuildSteps
    <2>2. CASE UNCHANGED << sessions, cache >> /\ current' = None
        <3>1. \A j \in DOMAIN sessions' : Truthful(sessions'[j], history, name)
            BY <2>2 DEF Told
        <3>2. QED BY <2>1, <3>1, ToldOtherwise
    <2>3. ASSUME NEW x \in Freshness, Added(Assembled(optedOut', launch, x))
          PROVE  Told'
        <3>1. PICK s : s = Assembled(optedOut', launch, x)
            OBVIOUS
        <3>2. Truthful(s, history, name)
            <4>1. launch \in Nat
                BY DEF Typed
            <4>2. s.poll = None /\ (s.reporter # None => s.reporter.buffer = << >>)
                BY <2>1, <3>1, <4>1, AssembledHoldsNothing
            <4>3. QED BY <4>2, NothingToTell
        <3>3. Added(s)
            BY <2>3, <3>1
        <3>4. \A j \in DOMAIN sessions' : Truthful(sessions'[j], history, name)
            BY <3>2, <3>3 DEF Added, Told
        <3>5. QED BY <2>1, <3>4, ToldOtherwise
    <2>4. QED BY <2>1, <2>2, <2>3 DEF Rebuilt
<1>10. CASE Relaunch
    <2>1. /\ sessions' = << Assembled(optedOut, launch + 1, NewFreshness) >>
          /\ flushes' = {} /\ UNCHANGED << build, history >>
        BY <1>10 DEF Relaunch
    <2>2. optedOut \in BOOLEAN /\ launch + 1 \in Nat
        BY DEF Typed
    <2>3. PICK s : s = Assembled(optedOut, launch + 1, NewFreshness)
        OBVIOUS
    <2>4. DOMAIN sessions' = {1} /\ sessions'[1] = s
        BY <2>1, <2>2, <2>3, StartedOf
    <2>5. s.poll = None /\ (s.reporter # None => s.reporter.buffer = << >>)
        BY <2>2, <2>3, AssembledHoldsNothing, NewFreshnessOf
    <2>6. Truthful(s, history, name)
        BY <2>5, NothingToTell
    <2>7. \A j \in DOMAIN sessions' : Truthful(sessions'[j], history, name)
        BY <2>4, <2>6
    <2>8. QED BY <2>1, <2>7, ToldOtherwise
<1>11. CASE UNCHANGED vars
    <2>1. \A j \in DOMAIN sessions' : Truthful(sessions'[j], history, name)
        BY <1>11 DEF vars, Told
    <2>2. UNCHANGED << build, history, flushes >>
        BY <1>11 DEF vars
    <2>3. QED BY <2>1, <2>2, ToldOtherwise
<1>12. QED BY <1>1, <1>2, <1>3, <1>4, <1>5, <1>6, <1>7, <1>8, <1>9, <1>10, <1>11 DEF Next

(* The steps that end no poll and begin none.                              *)
LEMMA RememberedOtherwise ==
    ASSUME Remembered, cache'.lastRoster \in Lasts, DOMAIN history' = DOMAIN history,
           \A j \in DOMAIN sessions' :
             /\ sessions'[j].freshness.lastRoster \in Lasts
             /\ \/ sessions'[j].poll = None
                \/ j \in DOMAIN sessions /\ sessions'[j].poll = sessions[j].poll
    PROVE  Remembered'
<1> DEFINE L == {None, cache'.lastRoster}
                \cup {sessions'[i].freshness.lastRoster : i \in DOMAIN sessions'}
<1>1. Lasts' = L
    BY DEF Lasts
<1>2. \A x \in L : x \in Lasts
    BY DEF Lasts
<1>3. \A x \in L : x # None => /\ x \in DOMAIN history'
                               /\ \A j \in DOMAIN sessions' : sessions'[j].poll # x
    BY <1>2 DEF Remembered
<1> HIDE DEF L
<1>4. QED BY <1>1, <1>3 DEF Remembered

LEMMA RememberedBeginPoll ==
    ASSUME Typed, Remembered, BeginPoll
    PROVE  Remembered'
<1> DEFINE s == sessions[current]
           p == Len(history) + 1
           new == With(s, s.reporter, s.freshness, p)
           L == {None, cache.lastRoster}
                \cup {sessions'[i].freshness.lastRoster : i \in DOMAIN sessions'}
<1>1. /\ current \in DOMAIN sessions /\ Replaced(current, new) /\ cache' = cache
      /\ history' \in Seq(Poll) /\ Len(history') = Len(history) + 1
    BY BeginPollSteps
<1>2. p \notin DOMAIN history /\ DOMAIN history' = DOMAIN history \cup {p}
    <2>1. DOMAIN history = 1..Len(history) /\ Len(history) \in Nat
          /\ DOMAIN history' = 1..Len(history')
        BY <1>1, LenProperties DEF Typed
    <2>2. QED BY <1>1, <2>1
<1>3. new.poll = p /\ new.freshness = s.freshness
    <2> HIDE DEF s, p
    <2>1. QED BY WithFields
<1>4. Lasts' = L
    BY <1>1 DEF Lasts
<1> HIDE DEF new, p
<1>5. \A x \in L : x \in Lasts
    BY <1>1, <1>3 DEF Lasts, Replaced
<1>6. \A x \in L : x # None => /\ x \in DOMAIN history'
                               /\ \A j \in DOMAIN sessions' : sessions'[j].poll # x
    <2>1. TAKE x \in L
    <2>2. HAVE x # None
    <2>3. x \in DOMAIN history /\ \A j \in DOMAIN sessions : sessions[j].poll # x
        BY <1>5, <2>2 DEF Remembered
    <2>4. \A j \in DOMAIN sessions' : sessions'[j].poll # x
        BY <1>1, <1>2, <1>3, <2>3 DEF Replaced
    <2>5. QED BY <1>2, <2>3, <2>4
<1> HIDE DEF L
<1>7. QED BY <1>4, <1>6 DEF Remembered

LEMMA RememberedFinishPoll ==
    ASSUME Typed, Apart, Remembered, NEW i \in DOMAIN sessions, FinishPoll(i)
    PROVE  Remembered'
<1>1. PICK r \in Reporter \cup {None}, y \in Freshness, out \in Outcomes, told \in Outcomes :
        Ended(i, r, y, out, told)
    BY FinishPollSteps
<1> DEFINE s == sessions[i]
           p == s.poll
           new == With(s, r, y, None)
           L == {None, cache'.lastRoster}
                \cup {sessions'[k].freshness.lastRoster : k \in DOMAIN sessions'}
<1>2. /\ p \in DOMAIN history /\ p # None /\ Replaced(i, new)
      /\ y.lastRoster \in {p, s.freshness.lastRoster}
      /\ cache' \in {cache, y} /\ DOMAIN history' = DOMAIN history
    BY <1>1 DEF Ended, FinishPoll
<1>3. new.poll = None /\ new.freshness = y
    <2> HIDE DEF s
    <2>1. QED BY WithFields
<1>4. \A j \in DOMAIN sessions : j # i => sessions[j].poll # p
    BY <1>2 DEF Apart, Held, Flying
<1>5. Lasts' = L
    BY DEF Lasts
<1> HIDE DEF new, p
<1>6. \A x \in L : x \in Lasts \cup {p}
    BY <1>2, <1>3 DEF Lasts, Replaced
<1>7. \A x \in L : x # None => /\ x \in DOMAIN history'
                               /\ \A j \in DOMAIN sessions' : sessions'[j].poll # x
    <2>1. TAKE x \in L
    <2>2. HAVE x # None
    <2>3. x \in DOMAIN history /\ \A j \in DOMAIN sessions : j # i => sessions[j].poll # x
        BY <1>2, <1>4, <1>6, <2>2 DEF Remembered
    <2>4. \A j \in DOMAIN sessions' : sessions'[j].poll # x
        BY <1>2, <1>3, <2>2, <2>3 DEF Replaced
    <2>5. QED BY <1>2, <2>3, <2>4
<1> HIDE DEF L
<1>8. QED BY <1>5, <1>7 DEF Remembered

LEMMA RememberedKept ==
    ASSUME Typed, Running, Apart, Remembered, [Next]_vars
    PROVE  Remembered'
<1>0. /\ cache.lastRoster \in Lasts /\ None \in Lasts
      /\ \A j \in DOMAIN sessions : sessions[j].freshness.lastRoster \in Lasts
    BY DEF Lasts
<1>1. CASE BeginPoll
    BY <1>1, RememberedBeginPoll
<1>2. ASSUME NEW i \in DOMAIN sessions, FinishPoll(i)
      PROVE  Remembered'
    BY <1>2, RememberedFinishPoll
<1>3. ASSUME NEW i \in DOMAIN sessions, DropPoll(i)
      PROVE  Remembered'
    <2> DEFINE s == sessions[i]
               new == With(s, s.reporter, s.freshness, None)
    <2>1. Replaced(i, new) /\ UNCHANGED << cache, history >>
        BY <1>3, DropPollSteps DEF DropPoll
    <2>2. new.freshness = s.freshness /\ new.poll = None
        <3> HIDE DEF s
        <3>1. QED BY WithFields
    <2> HIDE DEF new
    <2>3. QED BY <1>0, <2>1, <2>2, RememberedOtherwise DEF Replaced
<1>4. CASE FlushUsage
    <2>1. UNCHANGED << sessions, cache, history >>
        BY <1>4 DEF FlushUsage
    <2>2. QED BY <1>0, <2>1, RememberedOtherwise
<1>5. ASSUME NEW i \in DOMAIN sessions, NEW q \in Reporter,
             Replaced(i, With(sessions[i], q, sessions[i].freshness, sessions[i].poll)),
             UNCHANGED << cache, history >>
      PROVE  Remembered'
    <2> DEFINE s == sessions[i]
               new == With(s, q, s.freshness, s.poll)
    <2>1. new.freshness = s.freshness /\ new.poll = s.poll
        <3> HIDE DEF s
        <3>1. QED BY WithFields
    <2>2. Replaced(i, new)
        BY <1>5
    <2> HIDE DEF new
    <2>3. QED BY <1>0, <1>5, <2>1, <2>2, RememberedOtherwise DEF Replaced
<1>6. ASSUME NEW f \in flushes, RunFlush(f)
      PROVE  Remembered'
    BY <1>5, <1>6, RunFlushSteps DEF Ran
<1>7. ASSUME NEW f \in flushes, Answer(f) \/ GiveUp(f)
      PROVE  Remembered'
    BY <1>5, <1>7, SettleSteps DEF Settled
<1>8. ASSUME NEW f \in flushes, Deliver(f) \/ DropFlush(f)
      PROVE  Remembered'
    <2>1. UNCHANGED << sessions, cache, history >>
        BY <1>8 DEF Deliver, DropFlush
    <2>2. QED BY <1>0, <2>1, RememberedOtherwise
<1>9. CASE (\E enabled \in BOOLEAN : SetReporting(enabled)) \/ Reload
    <2>1. optedOut' \in BOOLEAN /\ Rebuilt(optedOut') /\ UNCHANGED history
        BY <1>9, RebuildSteps
    <2>2. CASE UNCHANGED << sessions, cache >> /\ current' = None
        BY <1>0, <2>1, <2>2, RememberedOtherwise
    <2>3. ASSUME NEW x \in Freshness, NEW c \in Freshness, x.lastRoster \in Lasts,
                 c.lastRoster \in Lasts, Added(Assembled(optedOut', launch, x)), cache' = c
          PROVE  Remembered'
        <3>1. PICK s : s = Assembled(optedOut', launch, x)
            OBVIOUS
        <3>2. s.poll = None /\ s.freshness = x
            <4>1. launch \in Nat
                BY DEF Typed
            <4>2. QED BY <2>1, <3>1, <4>1, AssembledHoldsNothing
        <3>3. Added(s)
            BY <2>3, <3>1
        <3>4. QED BY <1>0, <2>1, <2>3, <3>2, <3>3, RememberedOtherwise DEF Added
    <2>4. QED BY <2>1, <2>2, <2>3 DEF Rebuilt
<1>10. CASE Relaunch
    <2>1. /\ sessions' = << Assembled(optedOut, launch + 1, NewFreshness) >>
          /\ cache' = NewFreshness /\ UNCHANGED history
        BY <1>10 DEF Relaunch
    <2>2. optedOut \in BOOLEAN /\ launch + 1 \in Nat
        BY DEF Typed
    <2>3. PICK s : s = Assembled(optedOut, launch + 1, NewFreshness)
        OBVIOUS
    <2>4. DOMAIN sessions' = {1} /\ sessions'[1] = s
        BY <2>1, <2>2, <2>3, StartedOf
    <2>5. s.poll = None /\ s.freshness = NewFreshness
        BY <2>2, <2>3, AssembledHoldsNothing, NewFreshnessOf
    <2>6. QED BY <1>0, <2>1, <2>4, <2>5, NewFreshnessOf, RememberedOtherwise
<1>11. CASE UNCHANGED vars
    <2>1. UNCHANGED << sessions, cache, history >>
        BY <1>11 DEF vars
    <2>2. QED BY <1>0, <2>1, RememberedOtherwise
<1>12. QED BY <1>1, <1>2, <1>3, <1>4, <1>6, <1>7, <1>8, <1>9, <1>10, <1>11 DEF Next

-----------------------------------------------------------------------------
(***************************************************************************)
(* What the backend holds: each report true, no poll twice, and at least   *)
(* as many of an install as its reporters count.                           *)
(***************************************************************************)
Truth(r) ==
    /\ r.span.attributes.Outcome = history[r.poll].outcome
    /\ ~history[r.poll].optedOut

Proven(r) ==
    /\ FromBundle(build.endpoint, build.key) # None
    /\ r.url = TracesUrl(FromBundle(build.endpoint, build.key))
    /\ r.resource.ServiceInstanceId \in 1..launch
    /\ r.resource.ServiceVersion = AppVersion(build.version)
    /\ r.resource.OsVersion = OsVersion(build.osVersion)

Sent ==
    /\ IsFiniteSet(received) /\ twice = {}
    /\ \A r \in received : Truth(r) /\ Proven(r)

LEMMA SentKept ==
    ASSUME Typed, Running, Apart, Told, Sent, [Next]_vars
    PROVE  Sent'
<1>0. launch \in Nat /\ DOMAIN history = 1..Len(history) /\ Len(history) \in Nat
    BY LenProperties DEF Typed
<1>1. ASSUME UNCHANGED << build, received, twice >>, launch' \in {launch, launch + 1},
             \A p \in Taken : history'[p] = history[p]
      PROVE  Sent'
    <2>1. \A r \in received : r.poll \in Taken
        BY DEF Taken
    <2>2. 1..launch \in SUBSET (1..launch')
        BY <1>0, <1>1
    <2>3. ASSUME NEW r \in received
          PROVE  (Truth(r) /\ Proven(r))'
        <3>1. Truth(r) /\ Proven(r) /\ history'[r.poll] = history[r.poll]
            BY <1>1, <2>1 DEF Sent
        <3>2. Truth(r)'
            BY <3>1 DEF Truth
        <3>3. Proven(r)'
            BY <1>1, <2>2, <3>1 DEF Proven
        <3>4. QED BY <3>2, <3>3
    <2>4. (\A r \in received : Truth(r) /\ Proven(r))'
        BY <1>1, <2>3
    <2>5. QED BY <1>1, <2>4 DEF Sent
<1>2. CASE BeginPoll
    <2>1. /\ UNCHANGED << build, received, twice, launch >>
          /\ \A p \in DOMAIN history : history'[p] = history[p]
        BY <1>2, BeginPollSteps
    <2>2. QED BY <1>1, <2>1 DEF Apart
<1>3. ASSUME NEW i \in DOMAIN sessions, FinishPoll(i)
      PROVE  Sent'
    <2>1. PICK r \in Reporter \cup {None}, x \in Freshness, out \in Outcomes, told \in Outcomes :
            Ended(i, r, x, out, told)
        BY <1>3, FinishPollSteps
    <2>2. UNCHANGED << build, received, twice, launch >>
        BY <1>3, FinishPollSteps
    <2>3. sessions[i].poll # None /\ \A q \in DOMAIN history :
                                        q # sessions[i].poll => history'[q] = history[q]
        BY <1>3, <2>1 DEF Ended, FinishPoll
    <2>4. \A q \in Taken : history'[q] = history[q]
        BY <2>3 DEF Apart, Held, Flying
    <2>5. QED BY <1>1, <2>2, <2>4
<1>4. ASSUME NEW f \in flushes, Deliver(f)
      PROVE  Sent'
    <2>1. PICK new : Delivery(f, new)
        BY <1>4, DeliveryOf
    <2>2. UNCHANGED << build, launch, history >> /\ ~f.arrived
        BY <1>4, DeliverSteps
    <2>3. twice' = {} /\ received' = received \cup new
        BY <2>1, <2>2 DEF Delivery, Apart, Sent
    <2>4. IsFiniteSet(received')
        <3>1. PICK R : R = received
            OBVIOUS
        <3>2. IsFiniteSet(R) /\ IsFiniteSet(new)
            BY <2>1, <3>1 DEF Sent, Delivery
        <3>3. IsFiniteSet(R \cup new)
            BY <3>2, FS_Union
        <3>4. QED BY <2>3, <3>1, <3>3
    <2>5. FromBundle(build.endpoint, build.key) # None
        BY DEF Running, Proper
    <2>6. launch \in 1..launch
        BY DEF Typed
    <2>7. \A r \in new : Truth(r) /\ Proven(r)
        BY <2>1, <2>5, <2>6 DEF Delivery, Truth, Proven
    <2>8. \A r \in received' : Truth(r) /\ Proven(r)
        BY <2>3, <2>7 DEF Sent
    <2>9. (\A r \in received : Truth(r) /\ Proven(r))'
        BY <2>2, <2>8 DEF Truth, Proven
    <2>10. QED BY <2>3, <2>4, <2>9 DEF Sent
<1>5. CASE \/ \E i \in DOMAIN sessions : DropPoll(i)
           \/ FlushUsage
           \/ \E f \in flushes : RunFlush(f) \/ Answer(f) \/ GiveUp(f) \/ DropFlush(f)
           \/ UNCHANGED vars
    <2>1. UNCHANGED << build, received, twice, launch, history >>
        BY <1>5 DEF DropPoll, FlushUsage, RunFlush, Answer, GiveUp, Settle, DropFlush, vars
    <2>2. QED BY <1>1, <2>1
<1>6. CASE (\E enabled \in BOOLEAN : SetReporting(enabled)) \/ Reload
    <2>1. UNCHANGED << build, received, twice, launch, history >>
        BY <1>6, RebuildSteps
    <2>2. QED BY <1>1, <2>1
<1>7. CASE Relaunch
    <2>1. UNCHANGED << build, received, twice, history >> /\ launch' = launch + 1
        BY <1>7 DEF Relaunch
    <2>2. QED BY <1>1, <2>1
<1>8. QED BY <1>2, <1>3, <1>4, <1>5, <1>6, <1>7 DEF Next

-----------------------------------------------------------------------------
LEMMA PollsCounted ==
    ASSUME NEW batch \in Seq(Trace), DistinctPolls(batch)
    PROVE  IsFiniteSet(PollsOf(batch)) /\ Cardinality(PollsOf(batch)) = Len(batch)
<1> DEFINE n == Len(batch)
           D == 1..n
           P == PollsOf(batch)
           M == [k \in D |-> batch[k].poll]
<1>1. n \in Nat /\ DOMAIN batch = D
    BY LenProperties
<1>2. IsFiniteSet(D) /\ Cardinality(D) = n
    <2>1. 1 \in Int /\ n \in Int /\ (1 > n => n = 0)
        BY <1>1
    <2> HIDE DEF n
    <2>2. IsFiniteSet(1..n) /\ Cardinality(1..n) = IF 1 > n THEN 0 ELSE n - 1 + 1
        BY <2>1, FS_Interval
    <2>3. QED BY <2>1, <2>2
<1>3. P = {batch[k].poll : k \in D}
    BY <1>1 DEF PollsOf
<1>4. \A k, m \in D : batch[k].poll = batch[m].poll => k = m
    BY <1>1 DEF DistinctPolls
<1> HIDE DEF n, D, P
<1>5. M \in Surjection(D, P)
    BY <1>3 DEF Surjection
<1>6. M \in Injection(D, P)
    <2>1. M \in [D -> P]
        BY <1>5 DEF Surjection
    <2>2. \A k \in D : M[k] = batch[k].poll
        OBVIOUS
    <2> HIDE DEF M
    <2>3. \A k, m \in D : M[k] = M[m] => k = m
        BY <1>4, <2>2
    <2>4. QED BY <2>1, <2>3 DEF Injection, IsInjective
<1> HIDE DEF M
<1>7. IsFiniteSet(P) /\ Cardinality(P) = Cardinality(D)
    BY <1>2, <1>5, <1>6, FS_Surjection
<1>8. QED BY <1>2, <1>7 DEF P, n

LEMMA ReportsCounted ==
    ASSUME NEW S, IsFiniteSet(S), NEW P, NEW n, n = Cardinality(P),
           \A p \in P : \E r \in S : r.poll = p, \A r \in S : r.poll \in P
    PROVE  Cardinality(S) >= n /\ Cardinality(S) \in Nat
<1> DEFINE M == [r \in S |-> r.poll]
<1>1. M \in Surjection(S, P)
    BY DEF Surjection
<1> HIDE DEF M
<1>2. IsFiniteSet(P) /\ Cardinality(P) <= Cardinality(S)
    BY <1>1, FS_Surjection
<1>3. Cardinality(P) \in Nat /\ Cardinality(S) \in Nat
    BY <1>2, FS_CardinalityType
<1>4. QED BY <1>2, <1>3

\* C backs a count: reports of the install, none of them of a poll that a
\* flush of the session still carries, and no fewer than the spans counted.
Pending(i, fs) == UNION {Carried(f) : f \in {g \in fs : g.session = i}}
Backs(C, taken, install, spans, pending) ==
    /\ C \in SUBSET taken /\ Cardinality(C) >= spans
    /\ \A r \in C : r.resource.ServiceInstanceId = install /\ r.poll \notin pending

Backed ==
    /\ \A f \in flushes : f.arrived =>
         \A p \in Carried(f) :
           \E r \in received : r.poll = p /\ r.resource.ServiceInstanceId = launch
    /\ \A i \in DOMAIN sessions : sessions[i].reporter # None =>
         \E C : Backs(C, received, launch, sessions[i].reporter.spans, Pending(i, flushes))

(* The steps that count no span: no flush carries a poll that was taken    *)
(* before, unless one of its session did.                                  *)
LEMMA BackedOtherwise ==
    ASSUME Backed, launch' = launch, received \in SUBSET received',
           \A j \in DOMAIN sessions' : sessions'[j].reporter # None =>
             \/ sessions'[j].reporter.spans = 0
             \/ /\ j \in DOMAIN sessions /\ sessions[j].reporter # None
                /\ sessions'[j].reporter.spans = sessions[j].reporter.spans,
           \A g \in flushes' :
             /\ \/ Carried(g) \cap Taken = {}
                \/ \E f \in flushes : f.session = g.session /\ Carried(g) \in SUBSET Carried(f)
             /\ \/ ~g.arrived
                \/ g \in flushes
                \/ \A p \in Carried(g) : \E r \in received' :
                     r.poll = p /\ r.resource.ServiceInstanceId = launch
    PROVE  Backed'
<1>1. ASSUME NEW g \in flushes', g.arrived, NEW p \in Carried(g)
      PROVE  \E r \in received' : r.poll = p /\ r.resource.ServiceInstanceId = launch'
    BY <1>1 DEF Backed
<1>2. ASSUME NEW j \in DOMAIN sessions', sessions'[j].reporter # None
      PROVE  \E C : Backs(C, received', launch', sessions'[j].reporter.spans,
                          Pending(j, flushes'))
    <2>1. CASE sessions'[j].reporter.spans = 0
        <3>1. Cardinality({}) = 0
            BY FS_EmptySet
        <3>2. Backs({}, received', launch', 0, Pending(j, flushes'))
            BY <3>1 DEF Backs
        <3>3. QED BY <2>1, <3>2
    <2>2. CASE /\ j \in DOMAIN sessions /\ sessions[j].reporter # None
               /\ sessions'[j].reporter.spans = sessions[j].reporter.spans
        <3>1. PICK C : Backs(C, received, launch, sessions[j].reporter.spans, Pending(j, flushes))
            BY <2>2 DEF Backed
        <3>2. ASSUME NEW r \in C
              PROVE  r.poll \notin Pending(j, flushes')
            <4>1. r.poll \in Taken /\ r.poll \notin Pending(j, flushes)
                BY <3>1, <3>2 DEF Backs, Taken
            <4>2. \A f \in flushes : f.session = j => r.poll \notin Carried(f)
                BY <4>1 DEF Pending
            <4>3. \A g \in flushes' : g.session = j => r.poll \notin Carried(g)
                BY <4>1, <4>2
            <4>4. QED BY <4>3 DEF Pending
        <3>3. Backs(C, received', launch', sessions'[j].reporter.spans, Pending(j, flushes'))
            BY <2>2, <3>1, <3>2 DEF Backs
        <3>4. QED BY <3>3
    <2>3. QED BY <1>2, <2>1, <2>2
<1>3. QED BY <1>1, <1>2 DEF Backed

LEMMA BackedSettle ==
    ASSUME Typed, Running, Apart, Told, Sent, Backed,
           NEW f \in flushes, Answer(f) \/ GiveUp(f)
    PROVE  Backed'
<1>1. PICK q \in Reporter : Settled(f, q)
    BY SettleSteps
<1>2. UNCHANGED << launch, received >>
    BY SettleSteps
<1> DEFINE i == f.session
           s == sessions[i]
           new == With(s, q, s.freshness, s.poll)
           D == {r \in received : /\ r.resource.ServiceInstanceId = launch
                                  /\ r.poll \in Carried(f)}
<1>3. /\ Replaced(i, new) /\ q # None /\ s.reporter # None /\ i \in DOMAIN sessions
      /\ s.reporter \in Reporter /\ flushes' = flushes \ {f}
      /\ f.batch \in Seq(Trace) /\ f.batch # None
      /\ \/ q.spans = s.reporter.spans
         \/ f.arrived /\ q.spans = s.reporter.spans + Len(f.batch)
    BY <1>1 DEF Settled
<1>4. new.reporter = q
    <2> HIDE DEF s
    <2>1. QED BY WithFields
<1> HIDE DEF new, i
<1>5. \A j, p : p \in Pending(j, flushes') => p \in Pending(j, flushes)
    BY <1>3 DEF Pending
<1>6. \A g \in flushes' : g.arrived =>
        \A p \in Carried(g) :
          \E r \in received : r.poll = p /\ r.resource.ServiceInstanceId = launch
    BY <1>3 DEF Backed
<1>7. ASSUME NEW j \in DOMAIN sessions, sessions[j].reporter # None
      PROVE  \E C : Backs(C, received, launch, sessions[j].reporter.spans, Pending(j, flushes'))
    <2>1. PICK C : Backs(C, received, launch, sessions[j].reporter.spans, Pending(j, flushes))
        BY <1>7 DEF Backed
    <2>2. Backs(C, received, launch, sessions[j].reporter.spans, Pending(j, flushes'))
        BY <1>5, <2>1 DEF Backs
    <2>3. QED BY <2>2
<1>8. ASSUME f.arrived, q.spans = s.reporter.spans + Len(f.batch)
      PROVE  \E C : Backs(C, received, launch, q.spans, Pending(i, flushes'))
    <2>1. PICK C : Backs(C, received, launch, s.reporter.spans, Pending(i, flushes))
        BY <1>3 DEF Backed
    <2>2. Carried(f) \in SUBSET Pending(i, flushes)
        BY DEF Pending, i
    <2>3. C \cap D = {}
        BY <2>1, <2>2 DEF Backs
    <2>4. IsFiniteSet(C) /\ IsFiniteSet(D)
        <3>1. C \in SUBSET received /\ D \in SUBSET received
            BY <2>1 DEF Backs
        <3> HIDE DEF D
        <3>2. QED BY <3>1, FS_Subset DEF Sent
    <2>5. Carried(f) = PollsOf(f.batch) /\ DistinctPolls(f.batch)
        BY <1>3 DEF Carried, Told, Faithful
    <2>6. Len(f.batch) = Cardinality(Carried(f))
        BY <1>3, <2>5, PollsCounted
    <2>7. \A p \in Carried(f) : \E r \in D : r.poll = p
        BY <1>8 DEF Backed
    <2>8. \A r \in D : r.poll \in Carried(f)
        OBVIOUS
    <2>9. \A p \in Carried(f) : p \notin Pending(i, flushes')
        BY <1>3 DEF Pending, Apart
    <2>10. D \in SUBSET received /\ \A r \in D : r.resource.ServiceInstanceId = launch
        OBVIOUS
    <2> HIDE DEF D
    <2>11. Cardinality(D) >= Len(f.batch) /\ Cardinality(D) \in Nat
        <3>1. PICK n, P : n = Len(f.batch) /\ P = Carried(f)
            OBVIOUS
        <3>2. n = Cardinality(P)
            BY <2>6, <3>1
        <3>3. Cardinality(D) >= n /\ Cardinality(D) \in Nat
            BY <2>4, <2>7, <2>8, <3>1, <3>2, ReportsCounted
        <3>4. QED BY <3>1, <3>3
    <2>12. Cardinality(C \cup D) = Cardinality(C) + Cardinality(D)
        <3>1. Cardinality(C \cup D) = Cardinality(C) + Cardinality(D) - Cardinality(C \cap D)
            BY <2>4, FS_Union
        <3>2. Cardinality(C \cap D) = 0
            BY <2>3, FS_EmptySet
        <3>3. Cardinality(C) \in Nat
            BY <2>4, FS_CardinalityType
        <3>4. QED BY <2>11, <3>1, <3>2, <3>3
    <2>13. Cardinality(C \cup D) >= q.spans
        <3>1. PICK a, b, c, d : /\ a = Cardinality(C) /\ b = Cardinality(D)
                                /\ c = s.reporter.spans /\ d = Len(f.batch)
            OBVIOUS
        <3>2. a \in Nat /\ b \in Nat /\ c \in Nat /\ d \in Nat /\ a >= c /\ b >= d
            BY <1>3, <2>1, <2>4, <2>11, <3>1, FS_CardinalityType, ReporterFields, LenProperties
               DEF Backs
        <3>3. a + b >= c + d
            BY <3>2
        <3>4. QED BY <1>8, <2>12, <3>1, <3>3
    <2>14. Backs(C \cup D, received, launch, q.spans, Pending(i, flushes'))
        BY <1>5, <2>1, <2>8, <2>9, <2>10, <2>13 DEF Backs
    <2>15. QED BY <2>14
<1>9. \E C : Backs(C, received, launch, q.spans, Pending(i, flushes'))
    BY <1>3, <1>7, <1>8
<1>10. \A j \in DOMAIN sessions' : sessions'[j].reporter # None =>
         \E C : Backs(C, received, launch, sessions'[j].reporter.spans, Pending(j, flushes'))
    BY <1>3, <1>4, <1>7, <1>9 DEF Replaced
<1>11. QED BY <1>2, <1>6, <1>10 DEF Backed

LEMMA BackedKept ==
    ASSUME Typed, Running, Apart, Told, Sent, Backed, [Next]_vars
    PROVE  Backed'
<1> DEFINE Same(j) == /\ j \in DOMAIN sessions /\ sessions[j].reporter # None
                      /\ sessions'[j].reporter.spans = sessions[j].reporter.spans
           Goes(g) == \E f \in flushes : f.session = g.session /\ Carried(g) \in SUBSET Carried(f)
<1>0. \A g \in flushes : Goes(g)
    OBVIOUS
<1>1. CASE BeginPoll
    <2> DEFINE s == sessions[current]
               p == Len(history) + 1
               new == With(s, s.reporter, s.freshness, p)
    <2>1. Replaced(current, new) /\ UNCHANGED << launch, received, flushes >>
        BY <1>1, BeginPollSteps
    <2>2. new.reporter = s.reporter
        <3> HIDE DEF s, p
        <3>1. QED BY WithFields
    <2> HIDE DEF new
    <2>3. \A j \in DOMAIN sessions' : sessions'[j].reporter # None => Same(j)
        BY <2>1, <2>2 DEF Replaced
    <2>4. QED BY <1>0, <2>1, <2>3, BackedOtherwise
<1>2. ASSUME NEW i \in DOMAIN sessions, FinishPoll(i)
      PROVE  Backed'
    <2>1. PICK r \in Reporter \cup {None}, x \in Freshness, out \in Outcomes, told \in Outcomes :
            Ended(i, r, x, out, told)
        BY <1>2, FinishPollSteps
    <2>2. UNCHANGED << launch, received >>
        BY <1>2, FinishPollSteps
    <2> DEFINE s == sessions[i]
               p == s.poll
               new == With(s, r, x, None)
    <2>3. /\ Replaced(i, new) /\ flushes' \in {flushes, flushes \cup {Spawned(i, p)}}
          /\ s.reporter = None => r = None
          /\ p \in DOMAIN history
        BY <2>1 DEF Ended
    <2>4. new.reporter = r
        <3> HIDE DEF s
        <3>1. QED BY WithFields
    <2>5. r # None => s.reporter # None /\ r.spans = s.reporter.spans
        <3>1. SUFFICES ASSUME r # None PROVE s.reporter # None /\ r.spans = s.reporter.spans
            OBVIOUS
        <3>2. PICK old, t : old = s.reporter /\ t = TraceFor(p, told, build.backend)
            OBVIOUS
        <3>3. old \in Reporter /\ r = Recorded(old, t) /\ s.reporter # None
            BY <2>1, <3>1, <3>2 DEF Ended
        <3>4. p \in Nat
            BY <2>3, HistoryOf DEF Typed
        <3>5. t \in Trace
            <4> HIDE DEF p
            <4>1. QED BY <3>2, <3>4, TraceForOf
        <3>6. r.spans = old.spans
            BY <3>3, <3>5, RecordedOf
        <3>7. QED BY <3>2, <3>3, <3>6
    <2>6. Carried(Spawned(i, p)) = {} /\ ~Spawned(i, p).arrived
        BY DEF Spawned, Carried
    <2> HIDE DEF new, p
    <2>7. \A j \in DOMAIN sessions' : sessions'[j].reporter # None => Same(j)
        BY <2>3, <2>4, <2>5 DEF Replaced
    <2>8. \A g \in flushes' : /\ Carried(g) \cap Taken = {} \/ Goes(g)
                              /\ ~g.arrived \/ g \in flushes
        BY <1>0, <2>3, <2>6
    <2>9. QED BY <2>2, <2>7, <2>8, BackedOtherwise
<1>3. ASSUME NEW i \in DOMAIN sessions, DropPoll(i)
      PROVE  Backed'
    <2> DEFINE s == sessions[i]
               new == With(s, s.reporter, s.freshness, None)
    <2>1. Replaced(i, new) /\ UNCHANGED << launch, received, flushes >>
        BY <1>3, DropPollSteps DEF DropPoll
    <2>2. new.reporter = s.reporter
        <3> HIDE DEF s
        <3>1. QED BY WithFields
    <2> HIDE DEF new
    <2>3. \A j \in DOMAIN sessions' : sessions'[j].reporter # None => Same(j)
        BY <2>1, <2>2 DEF Replaced
    <2>4. QED BY <1>0, <2>1, <2>3, BackedOtherwise
<1>4. CASE FlushUsage
    <2>1. /\ UNCHANGED << launch, received, sessions >>
          /\ flushes' = flushes \cup {Spawned(current, 0)}
        BY <1>4 DEF FlushUsage
    <2>2. Carried(Spawned(current, 0)) = {} /\ ~Spawned(current, 0).arrived
        BY DEF Spawned, Carried
    <2>3. QED BY <1>0, <2>1, <2>2, BackedOtherwise
<1>5. ASSUME NEW f \in flushes, RunFlush(f)
      PROVE  Backed'
    <2>1. PICK q \in Reporter, g \in Flush : Ran(f, q, g)
        BY <1>5, RunFlushSteps
    <2>2. UNCHANGED << launch, received >> /\ f.batch = None
        BY <1>5, RunFlushSteps
    <2> DEFINE i == f.session
               s == sessions[i]
               new == With(s, q, s.freshness, s.poll)
    <2>3. /\ i \in DOMAIN sessions /\ s.reporter # None /\ q.spans = s.reporter.spans
          /\ Replaced(i, new) /\ g.batch = s.reporter.buffer /\ g.arrived = f.arrived
          /\ flushes' \in {flushes \ {f}, (flushes \ {f}) \cup {g}}
        BY <2>1, DrainedOf DEF Ran
    <2>4. new.reporter = q
        <3> HIDE DEF s
        <3>1. QED BY WithFields
    <2>5. Carried(g) \cap Taken = {} /\ ~g.arrived
        <3>1. Carried(g) \in SUBSET Held(s)
            BY <2>3 DEF Carried, Held, Buffered
        <3>2. Held(s) \cap Taken = {} /\ ~f.arrived
            BY <2>2, <2>3 DEF Apart
        <3>3. QED BY <2>3, <3>1, <3>2
    <2> HIDE DEF new, i
    <2>6. \A j \in DOMAIN sessions' : sessions'[j].reporter # None => Same(j)
        BY <2>3, <2>4 DEF Replaced
    <2>7. \A h \in flushes' : /\ Carried(h) \cap Taken = {} \/ Goes(h)
                              /\ ~h.arrived \/ h \in flushes
        BY <1>0, <2>3, <2>5
    <2>8. QED BY <2>2, <2>6, <2>7, BackedOtherwise
<1>6. ASSUME NEW f \in flushes, Deliver(f)
      PROVE  Backed'
    <2>1. PICK new : Delivery(f, new)
        BY <1>6, DeliveryOf
    <2>2. PICK g \in Flush : g.session = f.session /\ g.batch = f.batch
                             /\ flushes' = (flushes \ {f}) \cup {g}
        BY <1>6, DeliverSteps
    <2>3. UNCHANGED << launch, sessions >>
        BY <1>6, DeliverSteps
    <2>4. Carried(g) = Carried(f)
        BY <2>2 DEF Carried
    <2>5. /\ received' = received \cup new
          /\ \A p \in Carried(f) : \E r \in new :
               r.poll = p /\ r.resource.ServiceInstanceId = launch
        BY <2>1 DEF Delivery
    <2>6. \A h \in flushes' : /\ Carried(h) \cap Taken = {} \/ Goes(h)
                              /\ \/ ~h.arrived
                                 \/ h \in flushes
                                 \/ \A p \in Carried(h) : \E r \in received' :
                                      r.poll = p /\ r.resource.ServiceInstanceId = launch
        BY <1>0, <2>2, <2>4, <2>5
    <2>7. QED BY <2>3, <2>5, <2>6, BackedOtherwise
<1>7. ASSUME NEW f \in flushes, Answer(f) \/ GiveUp(f)
      PROVE  Backed'
    BY <1>7, BackedSettle
<1>8. ASSUME NEW f \in flushes, DropFlush(f)
      PROVE  Backed'
    <2>1. UNCHANGED << sessions, received, launch >> /\ flushes' = flushes \ {f}
        BY <1>8 DEF DropFlush
    <2>2. QED BY <1>0, <2>1, BackedOtherwise
<1>9. CASE (\E enabled \in BOOLEAN : SetReporting(enabled)) \/ Reload
    <2>1. /\ optedOut' \in BOOLEAN /\ Rebuilt(optedOut')
          /\ UNCHANGED << flushes, received, launch >>
        BY <1>9, RebuildSteps
    <2>2. CASE UNCHANGED << sessions, cache >> /\ current' = None
        BY <1>0, <2>1, <2>2, BackedOtherwise
    <2>3. ASSUME NEW x \in Freshness, Added(Assembled(optedOut', launch, x))
          PROVE  Backed'
        <3>1. PICK s : s = Assembled(optedOut', launch, x)
            OBVIOUS
        <3>2. s.reporter # None => s.reporter.spans = 0
            <4>1. launch \in Nat
                BY DEF Typed
            <4>2. QED BY <2>1, <3>1, <4>1, AssembledHoldsNothing
        <3>3. Added(s)
            BY <2>3, <3>1
        <3>4. \A j \in DOMAIN sessions' : sessions'[j].reporter # None =>
                sessions'[j].reporter.spans = 0 \/ Same(j)
            BY <3>2, <3>3 DEF Added
        <3>5. QED BY <1>0, <2>1, <3>4, BackedOtherwise
    <2>4. QED BY <2>1, <2>2, <2>3 DEF Rebuilt
<1>10. CASE Relaunch
    <2>1. /\ sessions' = << Assembled(optedOut, launch + 1, NewFreshness) >>
          /\ flushes' = {}
        BY <1>10 DEF Relaunch
    <2>2. optedOut \in BOOLEAN /\ launch + 1 \in Nat
        BY DEF Typed
    <2>3. PICK s : s = Assembled(optedOut, launch + 1, NewFreshness)
        OBVIOUS
    <2>4. DOMAIN sessions' = {1} /\ sessions'[1] = s
        BY <2>1, <2>2, <2>3, StartedOf
    <2>5. s.reporter # None => s.reporter.spans = 0
        BY <2>2, <2>3, AssembledHoldsNothing, NewFreshnessOf
    <2>6. Cardinality({}) = 0
        BY FS_EmptySet
    <2>7. \A j \in DOMAIN sessions' : sessions'[j].reporter # None =>
            Backs({}, received', launch', sessions'[j].reporter.spans, Pending(j, flushes'))
        BY <2>4, <2>5, <2>6 DEF Backs
    <2>8. QED BY <2>1, <2>7 DEF Backed
<1>11. CASE UNCHANGED vars
    <2>1. UNCHANGED << sessions, received, launch, flushes >>
        BY <1>11 DEF vars
    <2>2. QED BY <1>0, <2>1, BackedOtherwise
<1>12. QED BY <1>1, <1>2, <1>3, <1>4, <1>5, <1>6, <1>7, <1>8, <1>9, <1>10, <1>11 DEF Next

-----------------------------------------------------------------------------
(***************************************************************************)
(* The inductive invariant, and what follows from it.                      *)
(***************************************************************************)
Sound == Typed /\ Running /\ Apart /\ Told /\ Remembered /\ Sent /\ Backed

LEMMA StartsSound ==
    ASSUME Init
    PROVE  Sound
<1>1. Typed /\ Running
    BY StartsRunning
<1>2. /\ optedOut \in BOOLEAN /\ sessions = << Assembled(optedOut, 1, NewFreshness) >>
      /\ 1 \in Nat /\ cache = NewFreshness
      /\ flushes = {} /\ received = {} /\ twice = {} /\ history = << >>
    BY DEF Init
<1>3. PICK s : s = Assembled(optedOut, 1, NewFreshness)
    OBVIOUS
<1>4. DOMAIN sessions = {1} /\ sessions[1] = s
    BY <1>2, <1>3, StartedOf
<1>5. /\ s.poll = None /\ s.freshness = NewFreshness
      /\ s.reporter # None => s.reporter.buffer = << >> /\ s.reporter.spans = 0
    BY <1>2, <1>3, NewFreshnessOf, AssembledHoldsNothing
<1>6. Apart
    <2>1. Held(s) = {} /\ Flying(s) = {}
        BY <1>5, HoldsNothing
    <2>2. Taken = {}
        BY <1>2 DEF Taken
    <2>3. QED BY <1>2, <1>4, <2>1, <2>2 DEF Apart
<1>7. Told
    <2>1. Truthful(s, history, build.backend)
        BY <1>5, NothingToTell
    <2>2. QED BY <1>2, <1>4, <2>1 DEF Told
<1>8. Remembered
    <2>1. Lasts = {None}
        BY <1>2, <1>4, <1>5, NewFreshnessOf DEF Lasts
    <2>2. QED BY <2>1 DEF Remembered
<1>9. Sent
    <2>1. IsFiniteSet({})
        BY FS_EmptySet
    <2>2. QED BY <1>2, <2>1 DEF Sent
<1>10. Backed
    <2>1. Cardinality({}) = 0
        BY FS_EmptySet
    <2>2. \A j \in DOMAIN sessions : sessions[j].reporter # None =>
            Backs({}, received, launch, sessions[j].reporter.spans, Pending(j, flushes))
        BY <1>4, <1>5, <2>1 DEF Backs
    <2>3. QED BY <1>2, <2>2 DEF Backed
<1>11. QED BY <1>1, <1>6, <1>7, <1>8, <1>9, <1>10 DEF Sound

LEMMA SoundKept ==
    ASSUME Sound, [Next]_vars
    PROVE  Sound'
    BY TypedKept, RunningKept, ApartKept, ToldKept, RememberedKept, SentKept, BackedKept
       DEF Sound

LEMMA UsageIsSound == Spec => []Sound
<1>1. Init => Sound
    BY StartsSound
<1>2. Sound /\ [Next]_vars => Sound'
    BY SoundKept
<1>3. QED BY <1>1, <1>2, PTL DEF Spec

(* Whatever sessions and flushes the user's answers have left behind,      *)
(* nothing of a poll that began after an opt-out is reported, and the      *)
(* reason on screen for not reporting is one in effect.                    *)
THEOREM NothingIsReportedUnasked == Spec => []ReportingIsAllowed
<1>1. ASSUME Sound
      PROVE  ReportingIsAllowed
    <2>1. ConsentHolds
        BY <1>1 DEF Sound, Sent, Truth, ConsentHolds
    <2>2. DenialIsInEffect
        BY <1>1 DEF Sound, Running, InEffect, DenialIsInEffect
    <2>3. QED BY <2>1, <2>2 DEF ReportingIsAllowed
<1>2. Sound => ReportingIsAllowed
    BY <1>1
<1>3. QED BY <1>2, UsageIsSound, PTL

(* For builds whose base names a signal only at its end: what the backend  *)
(* holds is true.  It takes no poll twice, whatever answers are lost; each *)
(* span says what became of its own poll; the reports of a process come    *)
(* from one install, go to the traces path and carry a part of the host's  *)
(* version; and no reporter counts a span the backend does not hold.       *)
THEOREM WhatIsReportedIsTrue ==
    ASSUME \A b \in Builds : b.endpoint # None => NamesOneSignal(b.endpoint.path)
    PROVE  Spec => []ReportsAreTrue
<1>1. ASSUME Sound
      PROVE  ReportsAreTrue
    <2>0. build \in Builds /\ launch \in Nat /\ launch # 0
          /\ \A r \in received : Truth(r) /\ Proven(r)
        BY <1>1 DEF Sound, Typed, Sent
    <2>1. ReportedOnce
        BY <1>1 DEF Sound, Sent, ReportedOnce
    <2>2. OneInstallPerProcess
        <3> DEFINE I == {r.resource.ServiceInstanceId : r \in received}
        <3>1. I \in SUBSET (1..launch)
            BY <2>0 DEF Proven
        <3>2. IsFiniteSet(1..launch) /\ Cardinality(1..launch) = launch
            <4>1. PICK a, b : a = 1 /\ b = launch
                OBVIOUS
            <4>2. a \in Int /\ b \in Int /\ a <= b
                BY <2>0, <4>1
            <4>3. IsFiniteSet(a..b) /\ Cardinality(a..b) = IF a > b THEN 0 ELSE b - a + 1
                BY <4>2, FS_Interval
            <4>4. (IF a > b THEN 0 ELSE b - a + 1) = launch
                BY <2>0, <4>1
            <4>5. QED BY <4>1, <4>3, <4>4
        <3> HIDE DEF I
        <3>3. Cardinality(I) <= Cardinality(1..launch)
            BY <3>1, <3>2, FS_Subset
        <3>4. QED BY <3>2, <3>3 DEF OneInstallPerProcess, I
    <2>3. OutcomeIsOfThisPoll
        BY <2>0 DEF Truth, OutcomeIsOfThisPoll
    <2>4. PostsToTraces
        <3>1. SUFFICES ASSUME NEW r \in received
                       PROVE  /\ Last(r.url.path) = "v1/traces"
                              /\ \A n \in DOMAIN r.url.path :
                                   r.url.path[n] \in SignalPaths => n = Len(r.url.path)
            BY DEF PostsToTraces
        <3>2. PICK e, key, url : e = build.endpoint /\ key = build.key /\ url = r.url
            OBVIOUS
        <3>3. FromBundle(e, key) # None /\ url = TracesUrl(FromBundle(e, key))
            BY <2>0, <3>2 DEF Proven
        <3>4. e # None
            BY <3>3 DEF FromBundle
        <3>5. e \in Endpoint /\ NamesOneSignal(e.path)
            BY <2>0, <3>2, <3>4, BuildAssumption
        <3>6. QED BY <3>2, <3>3, <3>5, TracesUrlOf
    <2>5. VersionsAreVersions
        <3>1. PICK version, os : version = build.version /\ os = build.osVersion
            OBVIOUS
        <3>2. version \in Version /\ os \in Version
            BY <2>0, <3>1, BuildAssumption
        <3>3. /\ AppVersion(version) # None => IsPrefix(AppVersion(version), version)
              /\ OsVersion(os) # None => IsPrefix(OsVersion(os), os)
            BY <3>2, PrefixOf DEF AppVersion, OsVersion
        <3>4. QED BY <2>0, <3>1, <3>3 DEF Proven, VersionsAreVersions
    <2>6. CountsAreBackedUp
        <3>1. SUFFICES ASSUME NEW i \in Reporters
                       PROVE  sessions[i].reporter.spans <= Cardinality(
                                {r \in received : r.resource.ServiceInstanceId
                                                  = sessions[i].reporter.install})
            BY DEF CountsAreBackedUp
        <3>2. i \in DOMAIN sessions /\ sessions[i].reporter # None
            BY DEF Reporters
        <3>3. sessions[i] \in Session /\ sessions[i].reporter.install = launch
            BY <1>1, <3>2, IndicesOf DEF Sound, Running, Proper
        <3>4. sessions[i].reporter \in Reporter
            BY <3>2, <3>3, SessionFields
        <3>5. PICK C : Backs(C, received, launch, sessions[i].reporter.spans, Pending(i, flushes))
            BY <1>1, <3>2 DEF Sound, Backed
        <3> DEFINE S == {r \in received : r.resource.ServiceInstanceId = launch}
        <3>6. C \in SUBSET S /\ S \in SUBSET received
            BY <3>5 DEF Backs
        <3> HIDE DEF S
        <3>7. IsFiniteSet(S)
            BY <1>1, <3>6, FS_Subset DEF Sound, Sent
        <3>8. /\ Cardinality(C) <= Cardinality(S)
              /\ Cardinality(C) \in Nat /\ Cardinality(S) \in Nat
            BY <3>6, <3>7, FS_Subset, FS_CardinalityType
        <3>9. PICK n : n = sessions[i].reporter.spans
            OBVIOUS
        <3>10. n \in Nat
            BY <3>4, <3>9, ReporterFields
        <3>11. n <= Cardinality(S)
            BY <3>5, <3>8, <3>9, <3>10 DEF Backs
        <3>12. QED BY <3>3, <3>9, <3>11 DEF S
    <2>7. QED BY <2>1, <2>2, <2>3, <2>4, <2>5, <2>6 DEF ReportsAreTrue
<1>2. Sound => ReportsAreTrue
    BY <1>1
<1>3. QED BY <1>2, UsageIsSound, PTL
=============================================================================
