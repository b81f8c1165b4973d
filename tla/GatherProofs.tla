------------------------------ MODULE GatherProofs ------------------------------
(***************************************************************************)
(* What a roll call and a metric query say, for any configuration, samples, *)
(* exports meanwhile, faults and order of the answers.                      *)
(***************************************************************************)
EXTENDS Gather, ObservationProofs

-------------------------------------------------------------------------------
(***************************************************************************)
(* Names, and how an instance spells them.                                 *)
(***************************************************************************)
(* A name is known by its words: dots are after all but the last.          *)
LEMMA QueriedAreDotted ==
    ASSUME NEW a \in QueriedAttributes
    PROVE  a = Dotted(a.words)
<1>1. \A w : Dotted(w).words = w
    BY DEF Dotted, Named
<1>2. CASE a \in {HostName, OsType, ServiceVersion}
    BY <1>1, <1>2 DEF HostName, OsType, ServiceVersion
<1>3. ASSUME NEW kind \in MetricKinds, a \in ToSet(ExtraDimensions(kind))
      PROVE  a = Dotted(a.words)
    <2>1. PICK i \in DOMAIN ExtraDimensions(kind) : a = ExtraDimensions(kind)[i]
        BY <1>3 DEF ToSet
    <2>2. \E w : a = Dotted(w)
        BY <2>1 DEF ExtraDimensions
    <2>3. QED BY <1>1, <2>2
<1>4. QED BY <1>2, <1>3 DEF QueriedAttributes

(* What to_dotted reads is what was asked for.                             *)
LEMMA SpellingReadsBack ==
    ASSUME NEW n \in NamingKinds, NEW a \in QueriedAttributes
    PROVE  /\ ToDotted(n, Spelled(n, a)) = a
           /\ \A b \in QueriedAttributes : Spelled(n, a) = Spelled(n, b) => a = b
<1>1. \A b \in QueriedAttributes : Spelled(n, b).words = b.words
    BY QueriedAreDotted DEF Spelled, Dotted, Named
<1>2. \A b \in QueriedAttributes : Spelled(n, a) = Spelled(n, b) => a = b
    BY <1>1, QueriedAreDotted
<1>3. CASE n = "Dotted"
    BY <1>2, <1>3 DEF ToDotted, Spelled
<1>4. CASE n # "Dotted"
    <2> DEFINE readings == {b \in QueriedAttributes : Spelled(n, b) = Spelled(n, a)}
    <2>1. readings = {a}
        BY <1>2
    <2> HIDE DEF readings
    <2>2. (CHOOSE b \in readings : TRUE) = a
        BY <2>1
    <2>3. ToDotted(n, Spelled(n, a)) = CHOOSE b \in readings : TRUE
        BY <1>4, <2>1 DEF ToDotted, readings
    <2>4. QED BY <1>2, <2>2, <2>3
<1>5. QED BY <1>3, <1>4

LEMMA MetricNames ==
    ASSUME NEW k \in MetricKinds
    PROVE  \E w, d : OtelName(k) = Named(w, d) /\ d # {}
<1>1. \A w, d : w = << >> \/ TRUE
    OBVIOUS
<1>2. QED BY DEF OtelName, MetricKinds, MetricKindOrder, Dotted

LEMMA MetricsApart ==
    ASSUME NEW k \in MetricKinds, NEW l \in MetricKinds, OtelName(k).words = OtelName(l).words
    PROVE  k = l
BY DEF OtelName, MetricKinds, MetricKindOrder, Dotted, Named

LEMMA MetricsSpelledApart ==
    ASSUME NEW n \in NamingKinds, NEW k \in MetricKinds,
           NEW m \in NamingKinds, NEW l \in MetricKinds,
           Spelled(n, OtelName(k)) = Spelled(m, OtelName(l))
    PROVE  n = m /\ k = l
<1>1. PICK w1, d1 : OtelName(k) = Named(w1, d1) /\ d1 # {}
    BY MetricNames
<1>2. PICK w2, d2 : OtelName(l) = Named(w2, d2) /\ d2 # {}
    BY MetricNames
<1>3. /\ Spelled(n, OtelName(k)).words = w1 /\ OtelName(k).words = w1
      /\ Spelled(n, OtelName(k)).dots = IF n = "Dotted" THEN d1 ELSE {}
    BY <1>1 DEF Spelled, Named
<1>4. /\ Spelled(m, OtelName(l)).words = w2 /\ OtelName(l).words = w2
      /\ Spelled(m, OtelName(l)).dots = IF m = "Dotted" THEN d2 ELSE {}
    BY <1>2 DEF Spelled, Named
<1>5. k = l
    BY <1>3, <1>4, MetricsApart
<1>6. (n = "Dotted") = (m = "Dotted")
    BY <1>1, <1>2, <1>3, <1>4
<1>7. QED BY <1>5, <1>6 DEF NamingKinds

-------------------------------------------------------------------------------
(***************************************************************************)
(* What a backend answers with.                                            *)
(***************************************************************************)
LEMMA BucketIs ==
    ASSUME NEW at \in Int, NEW step \in Nat \ {0}
    PROVE  /\ BucketOf(at, step) \in Int
           /\ BucketOf(at, step) <= at /\ at < BucketOf(at, step) + step
<1> DEFINE q == at \div step
           r == at % step
<1>1. q \in Int /\ r \in 0 .. step - 1 /\ at = step * q + r
    BY DivisionTheorem
<1>2. BucketOf(at, step) = q * step
    BY DEF BucketOf
<1> HIDE DEF q, r
<1>3. q * step = step * q /\ step * q \in Int
    BY <1>1
<1>4. QED BY <1>1, <1>2, <1>3

(* Requests of the adapter: of a metric, by some of the queried attributes. *)
IsRequest(r, n, kind, names, range, step, filter) ==
    /\ n \in NamingKinds /\ kind \in MetricKinds
    /\ HostName \in names /\ names \in SUBSET QueriedAttributes
    /\ range.start \in Int /\ range.end \in Int /\ step \in Nat \ {0}
    /\ r.start = range.start /\ r.end = range.end /\ r.step = step
    /\ r.metric = Spelled(n, OtelName(kind)) /\ r.temporality = TemporalityFor(kind)
    /\ r.aggregation = AggregationFor(kind) /\ r.filter = filter
    /\ ToSet(r.groupBy) = {Spelled(n, a) : a \in names}

(* What an instance holds.                                                 *)
IsStore(b) ==
    /\ b.naming \in NamingKinds
    /\ IsFiniteSet(b.samples) /\ b.samples \in SUBSET Samples
    /\ \A s \in b.samples : IsSample(s)

(* An instance spelled otherwise has nothing to answer with.               *)
LEMMA MatchedIs ==
    ASSUME NEW b, IsStore(b), NEW r, NEW n, NEW kind, NEW names, NEW range, NEW step,
           NEW filter, IsRequest(r, n, kind, names, range, step, filter), NEW s
    PROVE  s \in Matched(b, r) <=>
              /\ s \in b.samples /\ b.naming = n /\ s.kind = kind
              /\ InRange(range, s.at)
              /\ filter = None
                 \/ (HostName \in DOMAIN s.labels /\ s.labels[HostName] \in filter)
<1>1. ASSUME s \in b.samples
      PROVE  Spelled(b.naming, OtelName(s.kind)) = r.metric <=> b.naming = n /\ s.kind = kind
    BY <1>1, MetricsSpelledApart DEF IsStore, IsRequest, IsSample
<1>2. InRange(r, s.at) <=> InRange(range, s.at)
    BY DEF InRange, IsRequest
<1>3. r.temporality = TemporalityFor(kind) /\ r.filter = filter
    BY DEF IsRequest
<1>4. QED BY <1>1, <1>2, <1>3 DEF Matched, TemporalityFor

(* The attributes of a sample among some, as its agent attached them.      *)
LabelsOf(s, names) == [a \in names \cap DOMAIN s.labels |-> s.labels[a]]

(* Grouped by some attributes and read back, a sample has those.           *)
LEMMA GroupReadsBack ==
    ASSUME NEW b, NEW n \in NamingKinds, b.naming = n, NEW s, IsSample(s),
           NEW names \in SUBSET QueriedAttributes,
           NEW keys, keys = {Spelled(n, a) : a \in names},
           NEW series, series.labels = Keyed(b, s, keys)
    PROVE  DottedLabels(n, series) = LabelsOf(s, names)
<1> DEFINE has == {a \in DOMAIN s.labels : Spelled(n, a) \in keys}
           labels == series.labels
           scalar == {k \in DOMAIN labels : labels[k] # None}
<1>1. \A a \in DOMAIN s.labels : s.labels[a] # None
                                 /\ \A q \in QueriedAttributes : a.words = q.words => a = q
    BY DEF IsSample
<1>2. ASSUME NEW a \in DOMAIN s.labels, NEW q \in names, Spelled(n, a) = Spelled(n, q)
      PROVE  a = q
    <2>1. q = Dotted(q.words)
        BY QueriedAreDotted
    <2>2. Spelled(n, q).words = q.words
        BY <2>1 DEF Spelled, Dotted, Named
    <2>3. CASE n = "Dotted"
        BY <1>2, <2>3 DEF Spelled
    <2>4. CASE n # "Dotted"
        <3>1. [a EXCEPT !.dots = {}].words = q.words
            BY <1>2, <2>2, <2>4 DEF Spelled
        <3>2. QED BY <1>1, <3>1
    <2>5. QED BY <2>3, <2>4
<1>3. has = names \cap DOMAIN s.labels
    BY <1>2
<1>4. labels = [k \in {Spelled(n, a) : a \in has} |->
                  s.labels[CHOOSE a \in has : Spelled(n, a) = k]]
    BY DEF Keyed
<1> HIDE DEF has, labels
<1>5. ASSUME NEW a \in has
      PROVE  /\ ToDotted(n, Spelled(n, a)) = a
             /\ labels[Spelled(n, a)] = s.labels[a]
             /\ \A c \in has : Spelled(n, c) = Spelled(n, a) => c = a
    <2>1. \A c \in has : Spelled(n, c) = Spelled(n, a) => c = a
        BY <1>3, SpellingReadsBack
    <2>2. (CHOOSE c \in has : Spelled(n, c) = Spelled(n, a)) = a
        BY <2>1
    <2>3. labels[Spelled(n, a)] = s.labels[a]
        BY <1>4, <2>2
    <2>4. QED BY <1>3, <2>1, <2>3, SpellingReadsBack
<1>6. DOMAIN labels = {Spelled(n, a) : a \in has}
    BY <1>4
<1>7. scalar = {Spelled(n, a) : a \in has}
    BY <1>1, <1>3, <1>5, <1>6
<1>8. DottedLabels(n, series) =
         [name \in {ToDotted(n, k) : k \in scalar} |->
            labels[CHOOSE k \in scalar : ToDotted(n, k) = name]]
    BY DEF DottedLabels, labels
<1> HIDE DEF scalar
<1>9. {ToDotted(n, k) : k \in scalar} = has
    BY <1>5, <1>7
<1>10. ASSUME NEW a \in has
       PROVE  labels[CHOOSE k \in scalar : ToDotted(n, k) = a] = s.labels[a]
    <2>1. \A k \in scalar : ToDotted(n, k) = a => k = Spelled(n, a)
        BY <1>5, <1>7
    <2>2. Spelled(n, a) \in scalar /\ ToDotted(n, Spelled(n, a)) = a
        BY <1>5, <1>7
    <2>3. (CHOOSE k \in scalar : ToDotted(n, k) = a) = Spelled(n, a)
        BY <2>1, <2>2
    <2>4. QED BY <1>5, <2>3
<1>11. QED BY <1>3, <1>8, <1>9, <1>10 DEF LabelsOf

(* The greatest of finitely many integers.                                 *)
LEMMA GreatestOf ==
    ASSUME NEW values \in SUBSET Int, IsFiniteSet(values), values # {}
    PROVE  \E v \in values : \A w \in values : w <= v
<1>1. PICK v \in values : \A w \in values : ~Beats("Max", w, v)
    BY BestOf
<1>2. QED BY <1>1 DEF Beats

(* A bucket without a finite sample holds none, and a bucket with one holds *)
(* a number; of a counter, none below zero.                                *)
LEMMA AggregateIs ==
    ASSUME NEW T, IsFiniteSet(T), T \in SUBSET Samples, \A s \in T : IsSample(s),
           NEW kind \in MetricKinds, \A s \in T : s.kind = kind,
           NEW v, v = Aggregate(T, AggregationFor(kind))
    PROVE  IF \A s \in T : s.value = Gap THEN v = Gap
           ELSE v \in Int /\ v # Gap /\ (kind \in Counters => v \in Nat)
<1> DEFINE finite == {s \in T : s.value # Gap}
           values == {s.value : s \in finite}
           valueOf == [s \in finite |-> s.value]
<1>1. v = IF finite = {} THEN Gap
          ELSE IF AggregationFor(kind) = "max" THEN CHOOSE x \in values : \A w \in values : w <= x
          ELSE Mean(finite)
    BY DEF Aggregate
<1>2. Gap \notin Int
    BY BackendAssumption
<1>3. \A s \in finite : s.value \in Int /\ (kind \in Counters => s.value \in Nat)
    BY DEF IsSample, InstrumentKind
<1>4. finite \in SUBSET {s \in Samples : s.value # Gap}
    OBVIOUS
<1>5. IsFiniteSet(finite)
    BY FS_Subset
<1>6. IsFiniteSet(values)
    <2>1. DOMAIN valueOf = finite /\ valueOf = [s \in finite |-> valueOf[s]]
        OBVIOUS
    <2>2. values = {valueOf[s] : s \in finite}
        OBVIOUS
    <2> HIDE DEF finite, values, valueOf
    <2>3. QED BY <1>5, <2>1, <2>2, ImageIsFinite
<1>7. values \in SUBSET Int /\ (kind \in Counters => values \in SUBSET Nat)
    BY <1>3
<1>8. finite = {} <=> \A s \in T : s.value = Gap
    OBVIOUS
<1>9. finite # {} => values # {}
    OBVIOUS
<1>10. kind \in Counters => AggregationFor(kind) = "max"
    BY DEF AggregationFor, InstrumentKind
<1> HIDE DEF finite, values
<1>11. CASE finite = {}
    BY <1>1, <1>8, <1>11
<1>12. CASE finite # {} /\ AggregationFor(kind) = "max"
    <2>1. \E x \in values : \A w \in values : w <= x
        BY <1>6, <1>7, <1>9, <1>12, GreatestOf
    <2>2. v \in values
        BY <1>1, <1>12, <2>1
    <2>3. QED BY <1>2, <1>7, <1>8, <1>12, <2>2
<1>13. CASE finite # {} /\ AggregationFor(kind) # "max"
    <2>1. Mean(finite) \in Int
        BY <1>4, <1>5, <1>13, BackendAssumption
    <2>2. QED BY <1>1, <1>2, <1>8, <1>10, <1>13, <2>1
<1>14. QED BY <1>11, <1>12, <1>13

(* The buckets of a group: each of a sample's, and each sample's, in order *)
(* of their instants.                                                      *)
BucketHolds(T, bucket, range, step) ==
    \E s \in T : /\ s.value # Gap /\ BucketOf(s.at, step) = bucket.at
                 /\ range.start <= bucket.at /\ bucket.at + step <= range.end

LEMMA BucketsAre ==
    ASSUME NEW T, IsFiniteSet(T), T \in SUBSET Samples, \A s \in T : IsSample(s),
           NEW r, NEW n, NEW kind, NEW names, NEW range, NEW step, NEW filter,
           IsRequest(r, n, kind, names, range, step, filter),
           \A s \in T : s.kind = kind,
           NEW b, b = BucketsOf(T, r)
    PROVE  \E k \in Nat :
              /\ DOMAIN b = 1 .. k
              /\ \A i \in 1 .. k :
                    /\ b[i].at \in Int
                    /\ \A j \in 1 .. k : j < i => b[j].at < b[i].at
                    /\ Usable(b[i]) =>
                          /\ BucketHolds(T, b[i], range, step)
                          /\ b[i].value \in Int /\ (kind \in Counters => b[i].value \in Nat)
              /\ \A s \in T :
                    /\ s.value # Gap /\ range.start <= BucketOf(s.at, step)
                    /\ BucketOf(s.at, step) + step <= range.end
                    => \E i \in 1 .. k : b[i].at = BucketOf(s.at, step) /\ Usable(b[i])
<1> DEFINE starts == {BucketOf(s.at, step) : s \in T}
           startOf == [s \in T |-> BucketOf(s.at, step)]
           order == Ascending(starts)
           N == 1 .. Cardinality(starts)
           within(at) == {s \in T : BucketOf(s.at, step) = at}
           value(at) == Aggregate(within(at), AggregationFor(kind))
           partial(at) == at < range.start \/ at + step > range.end
<1>1. /\ kind \in MetricKinds /\ range.start \in Int /\ range.end \in Int /\ step \in Nat \ {0}
      /\ r.start = range.start /\ r.end = range.end /\ r.step = step
      /\ r.aggregation = AggregationFor(kind)
    BY DEF IsRequest
<1>2. \A s \in T : BucketOf(s.at, step) \in Int
    BY <1>1, BucketIs DEF IsSample
<1>3. starts \in SUBSET Int
    BY <1>2
<1>4. IsFiniteSet(starts)
    <2>1. DOMAIN startOf = T /\ startOf = [s \in T |-> startOf[s]]
        OBVIOUS
    <2>2. starts = {startOf[s] : s \in T}
        OBVIOUS
    <2> HIDE DEF starts, startOf
    <2>3. QED BY <2>1, <2>2, ImageIsFinite
<1>5. b = [i \in DOMAIN order |->
             [at |-> order[i], value |-> value(order[i]), partial |-> partial(order[i])]]
    BY <1>1 DEF BucketsOf
<1>6. \A at \in starts : \E s \in T : BucketOf(s.at, step) = at
    OBVIOUS
<1>7. \A s \in T : BucketOf(s.at, step) \in starts
    OBVIOUS
<1>8. ASSUME NEW at
      PROVE  IF \A s \in within(at) : s.value = Gap THEN value(at) = Gap
             ELSE value(at) \in Int /\ value(at) # Gap /\ (kind \in Counters => value(at) \in Nat)
    <2> DEFINE W == within(at)
    <2>1. W \in SUBSET T
        OBVIOUS
    <2>2. IsFiniteSet(W) /\ W \in SUBSET Samples /\ \A s \in W : IsSample(s) /\ s.kind = kind
        BY <2>1, FS_Subset
    <2> HIDE DEF W
    <2> DEFINE v == Aggregate(W, AggregationFor(kind))
    <2> HIDE DEF v
    <2>3. IF \A s \in W : s.value = Gap THEN v = Gap
          ELSE v \in Int /\ v # Gap /\ (kind \in Counters => v \in Nat)
        BY <1>1, <2>2, AggregateIs DEF v
    <2>4. v = value(at)
        BY DEF v, W
    <2>5. QED BY <2>3, <2>4 DEF W
<1> HIDE DEF starts, value
<1>9. Cardinality(starts) \in Nat /\ order \in [N -> starts]
    BY <1>3, <1>4, AscendingOf
<1>10. \A i, j \in N : j < i => order[j] < order[i]
    BY <1>3, <1>4, AscendsBy DEF order
<1>11. \A at \in starts : \E i \in N : order[i] = at
    BY <1>3, <1>4, AscendsBy DEF order
<1> HIDE DEF order
<1>12. DOMAIN order = N /\ DOMAIN b = N
    BY <1>5, <1>9
<1>13. ASSUME NEW i \in N
       PROVE  /\ b[i].at = order[i] /\ b[i].value = value(order[i])
              /\ b[i].partial = partial(order[i]) /\ order[i] \in starts
    BY <1>5, <1>9, <1>12
<1>14. ASSUME NEW i \in N, Usable(b[i])
       PROVE  /\ BucketHolds(T, b[i], range, step)
              /\ b[i].value \in Int /\ (kind \in Counters => b[i].value \in Nat)
    <2>1. value(order[i]) # Gap /\ ~partial(order[i])
        BY <1>13, <1>14 DEF Usable
    <2>2. /\ value(order[i]) \in Int /\ (kind \in Counters => value(order[i]) \in Nat)
          /\ \E s \in within(order[i]) : s.value # Gap
        BY <1>8, <2>1
    <2>3. order[i] \in Int
        BY <1>3, <1>13
    <2>4. range.start <= order[i] /\ order[i] + step <= range.end
        BY <1>1, <2>1, <2>3
    <2>5. QED BY <1>13, <2>2, <2>4 DEF BucketHolds
<1>15. ASSUME NEW s \in T, s.value # Gap, range.start <= BucketOf(s.at, step),
              BucketOf(s.at, step) + step <= range.end
       PROVE  \E i \in N : b[i].at = BucketOf(s.at, step) /\ Usable(b[i])
    <2>1. PICK i \in N : order[i] = BucketOf(s.at, step)
        BY <1>7, <1>11
    <2>2. s \in within(order[i])
        BY <2>1
    <2>3. value(order[i]) # Gap
        BY <1>8, <1>15, <2>2
    <2>4. ~partial(order[i])
        BY <1>1, <1>2, <1>15, <2>1
    <2>5. QED BY <1>13, <2>1, <2>3, <2>4 DEF Usable
<1>16. \A i \in N : b[i].at \in Int /\ \A j \in N : j < i => b[j].at < b[i].at
    BY <1>3, <1>10, <1>13
<1>17. QED BY <1>9, <1>12, <1>14, <1>15, <1>16

(* An answer: one series of every group of what matches, whatever the order. *)
GroupOf(b, r, s) == Keyed(b, s, ToSet(r.groupBy))
GroupSamples(b, r, s) == {t \in Matched(b, r) : GroupOf(b, r, t) = GroupOf(b, r, s)}

OneGroup(b, r, series) ==
    \E s \in Matched(b, r) :
       /\ series.labels = GroupOf(b, r, s)
       /\ series.values = BucketsOf(GroupSamples(b, r, s), r)

LEMMA AnswerIs ==
    ASSUME NEW b, IsStore(b), NEW r, NEW backwards \in BOOLEAN,
           NEW reply, reply = Answer(b, r, backwards)
    PROVE  /\ Post(reply).ok
           /\ \E m \in Nat :
                 /\ DOMAIN Post(reply).value = 1 .. m
                 /\ \A i \in 1 .. m : OneGroup(b, r, Post(reply).value[i])
                 /\ \A s \in Matched(b, r) :
                       \E i \in 1 .. m : Post(reply).value[i].labels = GroupOf(b, r, s)
                 /\ \A i, j \in 1 .. m :
                       Post(reply).value[i].labels = Post(reply).value[j].labels => i = j
<1> DEFINE matched == Matched(b, r)
           groups == {GroupOf(b, r, s) : s \in matched}
           groupOf == [s \in matched |-> GroupOf(b, r, s)]
           samplesOf(g) == {s \in matched : GroupOf(b, r, s) = g}
           seriesOf == [g \in groups |-> [labels |-> g, values |-> BucketsOf(samplesOf(g), r)]]
           all == {seriesOf[g] : g \in groups}
           n == Cardinality(all)
           series == SetToSeq(all)
           told == IF backwards THEN Reverse(series) ELSE series
<1>1. IsFiniteSet(matched)
    <2>1. matched \in SUBSET b.samples
        BY DEF Matched
    <2>2. QED BY <2>1, FS_Subset DEF IsStore
<1>2. IsFiniteSet(groups)
    <2>1. DOMAIN groupOf = matched /\ groupOf = [s \in matched |-> groupOf[s]]
        OBVIOUS
    <2>2. groups = {groupOf[s] : s \in matched}
        OBVIOUS
    <2> HIDE DEF groups, groupOf, matched
    <2>3. QED BY <1>1, <2>1, <2>2, ImageIsFinite
<1>3. IsFiniteSet(all)
    <2>1. DOMAIN seriesOf = groups /\ seriesOf = [g \in groups |-> seriesOf[g]]
        OBVIOUS
    <2> HIDE DEF groups, seriesOf
    <2>2. QED BY <1>2, <2>1, ImageIsFinite
<1>4. reply = [transport |-> "ok", status |-> 200, parses |-> TRUE, says |-> "success",
               null |-> groups = {}, results |-> told]
    BY DEF Answer, GroupOf
<1>5. Post(reply).ok /\ Post(reply).value = IF groups = {} THEN << >> ELSE told
    <2> DEFINE none == groups = {}
    <2>1. /\ reply.transport = "ok" /\ reply.status = 200 /\ reply.parses
          /\ reply.says = "success" /\ reply.null = none /\ reply.results = told
        BY <1>4
    <2>2. \A v : Success(v).ok /\ Success(v).value = v
        BY DEF Success
    <2> HIDE DEF told, none
    <2>3. Post(reply) = Success(IF none THEN << >> ELSE told)
        BY <2>1 DEF Post
    <2>4. QED BY <2>2, <2>3 DEF none
<1>6. ASSUME NEW x \in all
      PROVE  /\ OneGroup(b, r, x) /\ x.labels \in groups
             /\ \A y \in all : x.labels = y.labels => x = y
    <2>1. PICK g \in groups : x = seriesOf[g]
        OBVIOUS
    <2>2. PICK s \in matched : g = GroupOf(b, r, s)
        OBVIOUS
    <2>3. samplesOf(g) = GroupSamples(b, r, s)
        BY <2>2 DEF GroupSamples
    <2>4. x.labels = g /\ x.values = BucketsOf(samplesOf(g), r)
        BY <2>1
    <2>5. OneGroup(b, r, x)
        BY <2>2, <2>3, <2>4 DEF OneGroup
    <2>6. ASSUME NEW y \in all, x.labels = y.labels PROVE x = y
        <3>1. PICK h \in groups : y = seriesOf[h]
            OBVIOUS
        <3>2. y.labels = h
            BY <3>1
        <3>3. QED BY <2>1, <2>4, <2>6, <3>1, <3>2
    <2>7. QED BY <2>4, <2>5, <2>6
<1>7. ASSUME NEW s \in matched PROVE \E x \in all : x.labels = GroupOf(b, r, s)
    <2> DEFINE g == GroupOf(b, r, s)
    <2>1. g \in groups /\ seriesOf[g] \in all
        OBVIOUS
    <2>2. seriesOf[g].labels = g
        BY <2>1
    <2>3. QED BY <2>1, <2>2
<1>8. groups = {} <=> all = {}
    OBVIOUS
<1> HIDE DEF matched, groups, seriesOf, all, series
<1>9. n \in Nat /\ series \in [1 .. n -> all] /\ IsInjective(series)
    BY <1>3, ListOf DEF series
<1>10. series \in Seq(all) /\ Len(series) = n
    BY <1>9, ListIsASeq
<1>11. \A x \in all : \E i \in 1 .. n : series[i] = x
    BY <1>3, ListHasAll DEF series
<1>12. /\ told \in [1 .. n -> all]
       /\ \A i, j \in 1 .. n : told[i] = told[j] => i = j
       /\ \A x \in all : \E i \in 1 .. n : told[i] = x
    <2>1. CASE ~backwards
        BY <1>9, <1>11, <2>1 DEF IsInjective
    <2>2. CASE backwards
        <3>1. told = [i \in 1 .. n |-> series[n - i + 1]]
            BY <1>10, <2>2 DEF Reverse
        <3>2. \A i \in 1 .. n : n - i + 1 \in 1 .. n
            BY <1>9
        <3> HIDE DEF told
        <3>3. told \in [1 .. n -> all]
            BY <1>9, <3>1, <3>2
        <3>4. ASSUME NEW i \in 1 .. n, NEW j \in 1 .. n, told[i] = told[j]
              PROVE  i = j
            <4>1. series[n - i + 1] = series[n - j + 1]
                BY <3>1, <3>4
            <4>2. n - i + 1 = n - j + 1
                BY <1>9, <3>2, <4>1 DEF IsInjective
            <4>3. QED BY <1>9, <4>2
        <3>5. ASSUME NEW x \in all PROVE \E i \in 1 .. n : told[i] = x
            <4>1. PICK i \in 1 .. n : series[i] = x
                BY <1>11
            <4>2. n - i + 1 \in 1 .. n /\ n - (n - i + 1) + 1 = i
                BY <1>9
            <4>3. QED BY <3>1, <4>1, <4>2
        <3>6. QED BY <3>3, <3>4, <3>5
    <2>3. QED BY <2>1, <2>2
<1> HIDE DEF told
<1>13. CASE groups = {}
    <2>1. matched = {} /\ DOMAIN Post(reply).value = 1 .. 0
        BY <1>5, <1>7, <1>8, <1>13
    <2>2. QED BY <1>5, <2>1 DEF matched
<1>14. CASE groups # {}
    <2>1. Post(reply).value = told
        BY <1>5, <1>14
    <2>2. DOMAIN told = 1 .. n /\ \A i \in 1 .. n : told[i] \in all
        BY <1>12
    <2>3. \A s \in matched : \E i \in 1 .. n : told[i].labels = GroupOf(b, r, s)
        BY <1>7, <1>12
    <2>4. \A i, j \in 1 .. n : told[i].labels = told[j].labels => i = j
        BY <1>6, <1>12, <2>2
    <2>5. QED BY <1>5, <1>6, <1>9, <2>1, <2>2, <2>3, <2>4 DEF matched
<1>15. QED BY <1>13, <1>14

-------------------------------------------------------------------------------
(***************************************************************************)
(* The roll call.                                                          *)
(***************************************************************************)
RollCallNames == {HostName, OsType, ServiceVersion}

LEMMA RosterRequestIs ==
    ASSUME NEW n \in NamingKinds, NEW range, range.start \in Int, range.end \in Int
    PROVE  IsRequest(RosterRequest(n, range, Beat), n, "AgentHeartbeat", RollCallNames,
                     range, Beat, None)
<1> DEFINE keys == << Spelled(n, HostName), Spelled(n, OsType), Spelled(n, ServiceVersion) >>
           r == RosterRequest(n, range, Beat)
<1>1. Beat \in Nat \ {0} /\ AtLeastASecond(Beat) = Beat
    BY ConfigAssumption, TelemetryAssumption DEF AtLeastASecond
<1>2. r = [start |-> range.start, end |-> range.end, step |-> Beat,
           metric |-> Spelled(n, OtelName("AgentHeartbeat")),
           temporality |-> TemporalityFor("AgentHeartbeat"),
           aggregation |-> AggregationFor("AgentHeartbeat"),
           filter |-> None, groupBy |-> keys]
    BY <1>1 DEF RosterRequest, Request
<1>3. ToSet(keys) = {Spelled(n, a) : a \in RollCallNames}
    BY DEF ToSet, RollCallNames
<1>4. HostName \in RollCallNames /\ RollCallNames \in SUBSET QueriedAttributes
    BY DEF RollCallNames, QueriedAttributes
<1>5. "AgentHeartbeat" \in MetricKinds
    BY DEF MetricKinds, MetricKindOrder
<1> HIDE DEF keys
<1>6. QED BY <1>1, <1>2, <1>3, <1>4, <1>5 DEF IsRequest

(* The labels of a group, read back, are those of each of its samples.     *)
LEMMA GroupIs ==
    ASSUME NEW b, IsStore(b), NEW r, NEW n, NEW kind, NEW names, NEW range, NEW step,
           NEW filter, IsRequest(r, n, kind, names, range, step, filter),
           NEW series, NEW s \in Matched(b, r), series.labels = GroupOf(b, r, s)
    PROVE  /\ IsSample(s) /\ s \in b.samples /\ s \in Samples
           /\ DottedLabels(n, series) = LabelsOf(s, names)
<1>1. s \in b.samples /\ b.naming = n
    BY MatchedIs
<1>2. IsSample(s) /\ s \in Samples
    BY <1>1 DEF IsStore
<1>3. n \in NamingKinds /\ names \in SUBSET QueriedAttributes
      /\ ToSet(r.groupBy) = {Spelled(n, a) : a \in names}
    BY DEF IsRequest
<1>4. series.labels = Keyed(b, s, ToSet(r.groupBy))
    BY DEF GroupOf
<1>5. DottedLabels(n, series) = LabelsOf(s, names)
    BY <1>1, <1>2, <1>3, <1>4, GroupReadsBack
<1>6. QED BY <1>1, <1>2, <1>5

(* The samples of a group: of one metric, and alike in what they are        *)
(* grouped by.                                                             *)
LEMMA GroupSamplesAre ==
    ASSUME NEW b, IsStore(b), NEW r, NEW n, NEW kind, NEW names, NEW range, NEW step,
           NEW filter, IsRequest(r, n, kind, names, range, step, filter),
           NEW s \in Matched(b, r), NEW T, T = GroupSamples(b, r, s)
    PROVE  /\ IsFiniteSet(T) /\ T \in SUBSET Samples /\ T \in SUBSET Matched(b, r)
           /\ \A t \in T : IsSample(t) /\ t.kind = kind /\ LabelsOf(t, names) = LabelsOf(s, names)
<1>1. T \in SUBSET Matched(b, r) /\ \A t \in T : GroupOf(b, r, t) = GroupOf(b, r, s)
    BY DEF GroupSamples
<1>2. \A t \in Matched(b, r) : t \in b.samples /\ t.kind = kind
    BY MatchedIs
<1>3. IsFiniteSet(T) /\ T \in SUBSET Samples
    BY <1>1, <1>2, FS_Subset DEF IsStore
<1>4. ASSUME NEW t \in T PROVE IsSample(t) /\ LabelsOf(t, names) = LabelsOf(s, names)
    <2>1. PICK series : series.labels = GroupOf(b, r, s)
        <3>1. [labels |-> GroupOf(b, r, s)].labels = GroupOf(b, r, s)
            OBVIOUS
        <3>2. QED BY <3>1
    <2>2. DottedLabels(n, series) = LabelsOf(s, names)
        BY <2>1, GroupIs
    <2>3. t \in Matched(b, r) /\ series.labels = GroupOf(b, r, t)
        BY <1>1, <2>1
    <2>4. IsSample(t) /\ DottedLabels(n, series) = LabelsOf(t, names)
        BY <2>3, GroupIs
    <2>5. QED BY <2>2, <2>4
<1>5. QED BY <1>1, <1>2, <1>3, <1>4

(* A heartbeat of a host, in a window.                                     *)
Beaten(s, h, range) ==
    /\ s.kind = "AgentHeartbeat" /\ HostName \in DOMAIN s.labels
    /\ s.labels[HostName] = h /\ InRange(range, s.at)

(* The beat of a host is in the window, and one of its version was there.  *)
BeatIsReal(host, h, S, range) ==
    /\ host.beat \in Int /\ range.start <= host.beat /\ host.beat + Beat <= range.end
    /\ \E s \in S : /\ Beaten(s, h, range)
                    /\ host.beat <= s.at /\ s.at < host.beat + Beat
                    /\ host.version = s.labels[ServiceVersion]

(* One series of a roll call.                                              *)
LEMMA HostOfIs ==
    ASSUME NEW b, IsStore(b), NEW r, NEW n, NEW range,
           IsRequest(r, n, "AgentHeartbeat", RollCallNames, range, Beat, None),
           NEW series, NEW s \in Matched(b, r),
           series.labels = GroupOf(b, r, s),
           series.values = BucketsOf(GroupSamples(b, r, s), r),
           NEW labels, labels = DottedLabels(n, series), HostName \in DOMAIN labels,
           NEW host, host = HostOf(labels, series)
    PROVE  /\ host.id \in Int /\ Beaten(s, host.id, range)
           /\ host.beat # None => BeatIsReal(host, host.id, b.samples, range)
           /\ \A t \in GroupSamples(b, r, s) :
                 /\ t.value # Gap /\ range.start <= BucketOf(t.at, Beat)
                 /\ BucketOf(t.at, Beat) + Beat <= range.end
                 => host.beat # None /\ host.beat >= BucketOf(t.at, Beat)
<1> DEFINE T == GroupSamples(b, r, s)
           values == series.values
           usable == {j \in DOMAIN values : Usable(values[j])}
           beats == {values[i].at : i \in usable}
           beatOf == [i \in usable |-> values[i].at]
<1>0. /\ Beat \in Nat \ {0} /\ range.start \in Int /\ range.end \in Int
      /\ "AgentHeartbeat" \in MetricKinds
    BY DEF IsRequest
<1>1. /\ s \in b.samples /\ IsSample(s) /\ s.kind = "AgentHeartbeat" /\ InRange(range, s.at)
      /\ labels = LabelsOf(s, RollCallNames)
    BY GroupIs, MatchedIs
<1>2. HostName \in DOMAIN s.labels /\ labels[HostName] = s.labels[HostName]
    BY <1>1 DEF LabelsOf
<1>3. /\ s.labels[HostName] \in Int /\ ServiceVersion \in DOMAIN s.labels
    BY <1>1, <1>2 DEF IsSample
<1>4. labels[ServiceVersion] = s.labels[ServiceVersion] /\ ServiceVersion \in DOMAIN labels
    BY <1>1, <1>3 DEF LabelsOf, RollCallNames
<1>5. /\ host.id = labels[HostName] /\ host.version = labels[ServiceVersion]
      /\ host.beat = IF beats = {} THEN None
                     ELSE CHOOSE x \in beats : \A y \in beats : y <= x
    BY <1>4 DEF HostOf
<1>6. /\ IsFiniteSet(T) /\ T \in SUBSET Samples /\ T \in SUBSET Matched(b, r)
      /\ \A t \in T : /\ IsSample(t) /\ t.kind = "AgentHeartbeat"
                      /\ LabelsOf(t, RollCallNames) = LabelsOf(s, RollCallNames)
    BY GroupSamplesAre
<1> HIDE DEF T
<1>7. PICK k \in Nat :
          /\ DOMAIN values = 1 .. k
          /\ \A i \in 1 .. k : values[i].at \in Int
                               /\ (Usable(values[i]) => BucketHolds(T, values[i], range, Beat))
          /\ \A t \in T :
                /\ t.value # Gap /\ range.start <= BucketOf(t.at, Beat)
                /\ BucketOf(t.at, Beat) + Beat <= range.end
                => \E i \in 1 .. k : values[i].at = BucketOf(t.at, Beat) /\ Usable(values[i])
    BY <1>6, BucketsAre DEF T
<1>8. IsFiniteSet(beats)
    <2>1. IsFiniteSet(1 .. k)
        BY FS_Interval
    <2>2. IsFiniteSet(usable)
        BY <1>7, <2>1, FS_Subset
    <2>3. DOMAIN beatOf = usable /\ beatOf = [i \in usable |-> beatOf[i]]
        OBVIOUS
    <2>4. beats = {beatOf[i] : i \in usable}
        OBVIOUS
    <2> HIDE DEF beats, beatOf, usable
    <2>5. QED BY <2>2, <2>3, <2>4, ImageIsFinite
<1>9. beats \in SUBSET Int
    BY <1>7
<1>10. \A x \in beats : \E i \in 1 .. k : values[i].at = x /\ Usable(values[i])
    BY <1>7
<1>11. \A i \in 1 .. k : Usable(values[i]) => values[i].at \in beats
    BY <1>7
<1> HIDE DEF values, usable, beats
<1>12. beats # {} => host.beat \in beats /\ \A y \in beats : y <= host.beat
    <2>1. beats # {} => \E x \in beats : \A y \in beats : y <= x
        BY <1>8, <1>9, GreatestOf
    <2>2. QED BY <1>5, <2>1
<1>13. host.beat # None <=> beats # {}
    BY <1>5, <1>9, <1>12, TelemetryAssumption
<1>14. Beaten(s, host.id, range)
    BY <1>1, <1>2, <1>5 DEF Beaten
<1>15. ASSUME host.beat # None
       PROVE  BeatIsReal(host, host.id, b.samples, range)
    <2>1. host.beat \in beats /\ host.beat \in Int
        BY <1>9, <1>12, <1>13, <1>15
    <2>2. PICK i \in 1 .. k : values[i].at = host.beat /\ Usable(values[i])
        BY <1>10, <2>1
    <2>3. PICK t \in T : /\ BucketOf(t.at, Beat) = host.beat
                         /\ range.start <= host.beat /\ host.beat + Beat <= range.end
        BY <1>7, <2>2 DEF BucketHolds
    <2>4. IsSample(t) /\ t.kind = "AgentHeartbeat" /\ t \in Matched(b, r)
          /\ LabelsOf(t, RollCallNames) = labels
        BY <1>1, <1>6, <2>3
    <2>5. t \in b.samples /\ InRange(range, t.at)
        BY <2>4, MatchedIs
    <2>6. /\ HostName \in DOMAIN t.labels /\ t.labels[HostName] = labels[HostName]
          /\ ServiceVersion \in DOMAIN t.labels
          /\ t.labels[ServiceVersion] = labels[ServiceVersion]
        BY <1>4, <2>4 DEF LabelsOf
    <2>7. host.beat <= t.at /\ t.at < host.beat + Beat
        BY <1>0, <2>3, <2>4, BucketIs DEF IsSample
    <2>8. QED BY <1>5, <2>1, <2>3, <2>4, <2>5, <2>6, <2>7 DEF BeatIsReal, Beaten
<1>16. ASSUME NEW t \in T, t.value # Gap, range.start <= BucketOf(t.at, Beat),
              BucketOf(t.at, Beat) + Beat <= range.end
       PROVE  host.beat # None /\ host.beat >= BucketOf(t.at, Beat)
    <2>1. BucketOf(t.at, Beat) \in beats
        BY <1>7, <1>11, <1>16
    <2>2. host.beat \in Int /\ BucketOf(t.at, Beat) <= host.beat /\ BucketOf(t.at, Beat) \in Int
        BY <1>9, <1>12, <2>1
    <2>3. QED BY <1>13, <2>1, <2>2
<1>17. QED BY <1>3, <1>2, <1>5, <1>14, <1>15, <1>16 DEF T

(* Whoever is listed has beaten in the window; and whoever has, in a bucket *)
(* that is complete, is listed with a beat no older.                       *)
RollCall(hosts, S, range) ==
    /\ DOMAIN hosts \in SUBSET Int /\ IsFiniteSet(DOMAIN hosts)
    /\ \A h \in DOMAIN hosts :
          /\ \E s \in S : Beaten(s, h, range)
          /\ hosts[h].beat # None => BeatIsReal(hosts[h], h, S, range)

Complete(hosts, S, range) ==
    \A s \in Shown(S, "AgentHeartbeat", range, Beat) :
       /\ s.labels[HostName] \in DOMAIN hosts
       /\ hosts[s.labels[HostName]].beat >= BucketOf(s.at, Beat)

(* Of finitely many beats of a host one stays: none is newer, and of two    *)
(* alike it is the first (list_hosts).                                     *)
LEMMA OneStays ==
    ASSUME NEW m \in Nat, NEW S \in SUBSET (1 .. m), S # {}, NEW host,
           \A i \in S : host[i].beat \in Int \cup {None}
    PROVE  \E i \in S : \A j \in S :
              IF i <= j THEN ~NewerBeat(host[i], host[j]) ELSE NewerBeat(host[j], host[i])
<1> DEFINE ahead(i, j) == \/ NewerBeat(host[j], host[i])
                          \/ i < j /\ ~NewerBeat(host[i], host[j])
           R == {p \in S \X S : ahead(p[1], p[2])}
<1>1. \A i \in S : i \in Nat
    OBVIOUS
<1>2. None \notin Int
    BY TelemetryAssumption
<1>3. \A i \in S : ~ahead(i, i)
    BY <1>1, <1>2 DEF NewerBeat
<1>4. \A i, j, k \in S : ahead(i, j) /\ ahead(j, k) => ahead(i, k)
    BY <1>1, <1>2 DEF NewerBeat
<1>5. ASSUME NEW i \in S, NEW j \in S, i # j PROVE ahead(i, j) \/ ahead(j, i)
    <2>1. i < j \/ j < i
        BY <1>1, <1>5
    <2>2. QED BY <2>1
<1>6. \A i, j \in S : << i, j >> \in R <=> ahead(i, j)
    OBVIOUS
<1>7. IsFiniteSet(S)
    <2>1. IsFiniteSet(1 .. m)
        BY FS_Interval
    <2>2. QED BY <2>1, FS_Subset
<1> HIDE DEF ahead, R
<1>8. StrictOrder(S, R)
    BY <1>3, <1>4, <1>5, <1>6 DEF StrictOrder
<1>9. PICK i \in S : \A j \in S : << j, i >> \notin R
    BY <1>7, <1>8, FirstIn
<1>10. ASSUME NEW j \in S
       PROVE  IF i <= j THEN ~NewerBeat(host[i], host[j]) ELSE NewerBeat(host[j], host[i])
    <2>1. ~ahead(j, i)
        BY <1>6, <1>9
    <2>2. CASE i <= j
        BY <2>1, <2>2 DEF ahead
    <2>3. CASE ~(i <= j)
        <3>0. i # j
            BY <1>1, <2>3
        <3>1. ahead(i, j)
            BY <1>5, <2>1, <3>0
        <3>2. ~(i < j)
            BY <1>1, <2>3
        <3>3. QED BY <2>3, <3>1, <3>2 DEF ahead
    <2>4. QED BY <2>2, <2>3
<1>11. QED BY <1>10

LEMMA RollCallIs ==
    ASSUME NEW b, IsStore(b), NEW n \in NamingKinds,
           NEW range, range.start \in Int, range.end \in Int, NEW backwards \in BOOLEAN,
           NEW a, a = ListHosts(n, Answer(b, RosterRequest(n, range, Beat), backwards))
    PROVE  /\ a.ok /\ RollCall(a.value, b.samples, range)
           /\ DOMAIN a.value # {} => b.naming = n
           /\ b.naming = n => Complete(a.value, b.samples, range)
<1> DEFINE r == RosterRequest(n, range, Beat)
           reply == Answer(b, r, backwards)
           value == Post(reply).value
           labels(i) == DottedLabels(n, value[i])
           host(i) == HostOf(labels(i), value[i])
           named == OfAHost(n, value)
           seen(id) == {i \in named : host(i).id = id}
           stays(i, j) == IF i <= j THEN ~NewerBeat(host(i), host(j))
                          ELSE NewerBeat(host(j), host(i))
           kept(id) == CHOOSE i \in seen(id) : \A j \in seen(id) : stays(i, j)
           ids == {host(i).id : i \in named}
<1>1. IsRequest(r, n, "AgentHeartbeat", RollCallNames, range, Beat, None)
    BY RosterRequestIs
<1> HIDE DEF r
<1>2. Post(reply).ok
    BY AnswerIs
<1>3. PICK m \in Nat :
          /\ DOMAIN value = 1 .. m
          /\ \A i \in 1 .. m : OneGroup(b, r, value[i])
          /\ \A s \in Matched(b, r) : \E i \in 1 .. m : value[i].labels = GroupOf(b, r, s)
          /\ \A i, j \in 1 .. m : value[i].labels = value[j].labels => i = j
    BY AnswerIs
<1>4. a.ok /\ a.value = [id \in ids |-> host(kept(id))]
    BY <1>2 DEF ListHosts, Success, r
<1> HIDE DEF reply
<1> HIDE DEF value
<1>5. named = {i \in 1 .. m : HostName \in DOMAIN labels(i)}
    BY <1>3 DEF OfAHost
<1>6. ASSUME NEW i \in named, NEW s \in Matched(b, r),
             value[i].labels = GroupOf(b, r, s)
      PROVE  /\ host(i).id \in Int /\ Beaten(s, host(i).id, range)
             /\ host(i).beat # None => BeatIsReal(host(i), host(i).id, b.samples, range)
             /\ \A t \in GroupSamples(b, r, s) :
                   /\ t.value # Gap /\ range.start <= BucketOf(t.at, Beat)
                   /\ BucketOf(t.at, Beat) + Beat <= range.end
                   => host(i).beat # None /\ host(i).beat >= BucketOf(t.at, Beat)
    <2>1. i \in 1 .. m /\ HostName \in DOMAIN labels(i)
        BY <1>5
    <2>2. PICK u \in Matched(b, r) :
              /\ value[i].labels = GroupOf(b, r, u)
              /\ value[i].values = BucketsOf(GroupSamples(b, r, u), r)
        BY <1>3, <2>1 DEF OneGroup
    <2>3. GroupSamples(b, r, u) = GroupSamples(b, r, s)
        BY <1>6, <2>2 DEF GroupSamples
    <2>4. value[i].values = BucketsOf(GroupSamples(b, r, s), r)
        BY <2>2, <2>3
    <2>5. QED BY <1>1, <1>6, <2>1, <2>4, HostOfIs
<1>7. ASSUME NEW i \in named
      PROVE  /\ host(i).id \in Int
             /\ \E s \in b.samples : Beaten(s, host(i).id, range)
             /\ host(i).beat # None => BeatIsReal(host(i), host(i).id, b.samples, range)
             /\ host(i).beat \in Int \cup {None}
             /\ b.naming = n
    <2>1. PICK s \in Matched(b, r) : value[i].labels = GroupOf(b, r, s)
        BY <1>3, <1>5 DEF OneGroup
    <2>2. s \in b.samples /\ b.naming = n
        BY <1>1, MatchedIs
    <2>3. QED BY <1>6, <2>1, <2>2 DEF BeatIsReal
<1> HIDE DEF labels, named
<1>8. ASSUME NEW id \in ids
      PROVE  kept(id) \in named /\ host(kept(id)).id = id
             /\ \A j \in seen(id) : stays(kept(id), j)
    <2> DEFINE S == seen(id)
               hosts == [i \in S |-> host(i)]
    <2>1. S \in SUBSET (1 .. m) /\ S # {}
        BY <1>5
    <2>2. \A i \in S : hosts[i] = host(i) /\ hosts[i].beat \in Int \cup {None}
        BY <1>7
    <2> HIDE DEF S, hosts, host
    <2>3. \E i \in S : \A j \in S :
             IF i <= j THEN ~NewerBeat(hosts[i], hosts[j]) ELSE NewerBeat(hosts[j], hosts[i])
        BY <2>1, <2>2, OneStays
    <2>4. \E i \in S : \A j \in S : stays(i, j)
        BY <2>2, <2>3
    <2>5. kept(id) \in S /\ \A j \in S : stays(kept(id), j)
        BY <2>4 DEF S
    <2>6. QED BY <2>5 DEF S
<1>9. DOMAIN a.value = ids /\ \A id \in ids : a.value[id] = host(kept(id))
    BY <1>4
<1> HIDE DEF kept
<1>10. ids \in SUBSET Int /\ IsFiniteSet(ids)
    <2> DEFINE idOf == [i \in named |-> host(i).id]
    <2>1. IsFiniteSet(1 .. m)
        BY FS_Interval
    <2>2. IsFiniteSet(named)
        BY <1>5, <2>1, FS_Subset
    <2>3. DOMAIN idOf = named /\ idOf = [i \in named |-> idOf[i]] /\ ids = {idOf[i] : i \in named}
        OBVIOUS
    <2>4. ids \in SUBSET Int
        BY <1>7
    <2> HIDE DEF idOf, ids
    <2>5. QED BY <2>2, <2>3, <2>4, ImageIsFinite
<1>11. RollCall(a.value, b.samples, range)
    <2>1. ASSUME NEW h \in ids
          PROVE  /\ \E s \in b.samples : Beaten(s, h, range)
                 /\ a.value[h].beat # None => BeatIsReal(a.value[h], h, b.samples, range)
        <3> DEFINE i == kept(h)
        <3>1. i \in named /\ host(i).id = h /\ a.value[h] = host(i)
            BY <1>8, <1>9
        <3> HIDE DEF host, i
        <3>2. QED BY <1>7, <3>1
    <2>2. QED BY <1>9, <1>10, <2>1 DEF RollCall
<1>12. DOMAIN a.value # {} => b.naming = n
    BY <1>7, <1>9
<1>13. ASSUME b.naming = n, NEW s \in Shown(b.samples, "AgentHeartbeat", range, Beat)
       PROVE  /\ s.labels[HostName] \in DOMAIN a.value
              /\ a.value[s.labels[HostName]].beat >= BucketOf(s.at, Beat)
    <2> DEFINE h == s.labels[HostName]
    <2>1. /\ s \in b.samples /\ s.kind = "AgentHeartbeat" /\ HostName \in DOMAIN s.labels
          /\ s.value # Gap /\ range.start <= BucketOf(s.at, Beat)
          /\ BucketOf(s.at, Beat) + Beat <= range.end
        BY DEF Shown
    <2>2. IsSample(s) /\ Beat \in Nat \ {0}
        BY <1>1, <2>1 DEF IsStore, IsRequest
    <2>3. /\ BucketOf(s.at, Beat) \in Int /\ BucketOf(s.at, Beat) <= s.at
          /\ s.at < BucketOf(s.at, Beat) + Beat /\ s.at \in Int
        BY <2>2, BucketIs DEF IsSample
    <2>4. InRange(range, s.at)
        BY <2>1, <2>2, <2>3 DEF InRange
    <2>5. s \in Matched(b, r)
        BY <1>1, <1>13, <2>1, <2>4, MatchedIs
    <2>6. PICK i \in 1 .. m : value[i].labels = GroupOf(b, r, s)
        BY <1>3, <2>5
    <2>7. labels(i) = LabelsOf(s, RollCallNames)
        BY <1>1, <2>5, <2>6, GroupIs DEF labels
    <2>8. HostName \in DOMAIN labels(i)
        BY <2>1, <2>7 DEF LabelsOf, RollCallNames
    <2>9. i \in named
        BY <1>5, <2>8 DEF labels, named
    <2>10. s \in GroupSamples(b, r, s)
        BY <2>5 DEF GroupSamples
    <2>11. /\ host(i).id \in Int /\ Beaten(s, host(i).id, range)
           /\ host(i).beat # None /\ host(i).beat >= BucketOf(s.at, Beat)
        BY <1>6, <2>1, <2>5, <2>6, <2>9, <2>10
    <2>12. host(i).id = h
        BY <2>11 DEF Beaten
    <2>13. h \in ids /\ i \in seen(h)
        BY <2>9, <2>12
    <2> DEFINE k == kept(h)
    <2>14. k \in named /\ stays(k, i) /\ a.value[h] = host(k)
        BY <1>8, <1>9, <2>13
    <2>15. host(k).beat \in Int \cup {None} /\ host(i).beat \in Int
        BY <1>7, <2>9, <2>11, <2>14
    <2> HIDE DEF host, k
    <2>16. host(k).beat \in Int /\ host(k).beat >= host(i).beat
        <3>1. ~NewerBeat(host(k), host(i)) \/ NewerBeat(host(i), host(k))
            BY <2>14
        <3>2. QED BY <2>15, <3>1, TelemetryAssumption DEF NewerBeat
    <2>17. a.value[h].beat >= BucketOf(s.at, Beat)
        BY <2>3, <2>11, <2>14, <2>15, <2>16
    <2>18. QED BY <1>9, <2>13, <2>17
<1>14. QED BY <1>4, <1>11, <1>12, <1>13 DEF Complete

-------------------------------------------------------------------------------
(***************************************************************************)
(* The series of a metric.                                                 *)
(***************************************************************************)
DimensionsOf(kind) == ToSet(ExtraDimensions(kind))
SeriesNames(kind) == {HostName} \cup DimensionsOf(kind)

(* The dimensions of a metric are not its host.                            *)
LEMMA HostIsNoDimension ==
    ASSUME NEW kind \in MetricKinds
    PROVE  HostName \notin DimensionsOf(kind)
<1>1. HostName.words = << "host", "name" >>
    BY DEF HostName, Dotted, Named
<1>2. ASSUME NEW a \in DimensionsOf(kind) PROVE a.words # << "host", "name" >>
    <2>1. PICK i \in DOMAIN ExtraDimensions(kind) : a = ExtraDimensions(kind)[i]
        BY DEF DimensionsOf, ToSet
    <2>2. QED BY <2>1 DEF ExtraDimensions, Dotted, Named
<1>3. QED BY <1>1, <1>2

LEMMA BuildRequestIs ==
    ASSUME NEW n \in NamingKinds, NEW kind \in MetricKinds, NEW selector,
           NEW range, range.start \in Int, range.end \in Int,
           NEW step \in Int, step >= Second
    PROVE  IsRequest(BuildRequest(n, kind, selector, range, step), n, kind,
                     SeriesNames(kind), range, step, FilterFor(selector))
<1> DEFINE dims == ExtraDimensions(kind)
           keys == << HostName >> \o dims
           grouped == [i \in DOMAIN keys |-> Spelled(n, keys[i])]
           filter == FilterFor(selector)
           r == BuildRequest(n, kind, selector, range, step)
<1>1. step \in Nat \ {0} /\ AtLeastASecond(step) = step
    BY TelemetryAssumption DEF AtLeastASecond
<1>2. r = [start |-> range.start, end |-> range.end, step |-> step,
           metric |-> Spelled(n, OtelName(kind)),
           temporality |-> TemporalityFor(kind), aggregation |-> AggregationFor(kind),
           filter |-> filter, groupBy |-> grouped]
    BY <1>1 DEF BuildRequest, Request, GroupBy
<1>3. dims \in Seq(ToSet(dims))
    <2>1. dims = << >> \/ (\E a : dims = << a >>) \/ (\E a, c : dims = << a, c >>)
        BY DEF ExtraDimensions
    <2> DEFINE V == ToSet(dims)
    <2>2. \A i \in DOMAIN dims : dims[i] \in V
        BY DEF ToSet
    <2> HIDE DEF V
    <2>3. CASE dims = << >>
        BY <2>3 DEF V
    <2>4. CASE \E a : dims = << a >>
        <3>1. PICK a : dims = << a >>
            BY <2>4
        <3>2. a \in V
            BY <2>2, <3>1
        <3>3. << a >> \in Seq(V)
            BY <3>2
        <3>4. QED BY <3>1, <3>3 DEF V
    <2>5. CASE \E a, c : dims = << a, c >>
        <3>1. PICK a, c : dims = << a, c >>
            BY <2>5
        <3>2. a \in V /\ c \in V
            BY <2>2, <3>1
        <3>3. << a, c >> \in Seq(V)
            BY <3>2
        <3>4. QED BY <3>1, <3>3 DEF V
    <2>6. QED BY <2>1, <2>3, <2>4, <2>5
<1> HIDE DEF dims
<1>4. ToSet(keys) = SeriesNames(kind)
    <2> DEFINE V == {HostName} \cup ToSet(dims)
               one == << HostName >>
    <2>1. /\ one \in Seq(V) /\ Len(one) = 1 /\ one[1] = HostName
          /\ dims \in Seq(V) /\ DOMAIN dims = 1 .. Len(dims) /\ Len(dims) \in Nat
        BY <1>3
    <2> HIDE DEF V, one
    <2>2. /\ one \o dims \in Seq(V) /\ Len(one \o dims) = Len(one) + Len(dims)
          /\ \A i \in 1 .. Len(one) + Len(dims) :
                (one \o dims)[i] = IF i <= Len(one) THEN one[i] ELSE dims[i - Len(one)]
        BY <2>1, ConcatProperties
    <2> DEFINE k == one \o dims
    <2>3. DOMAIN k = 1 .. 1 + Len(dims)
        BY <2>1, <2>2
    <2>4. \A i \in DOMAIN k : k[i] = IF i <= 1 THEN HostName ELSE dims[i - 1]
        BY <2>1, <2>2, <2>3
    <2>5. keys = k
        BY DEF one
    <2> HIDE DEF k, keys
    <2>6. \A i \in DOMAIN k : k[i] = HostName \/ k[i] \in ToSet(dims)
        <3>1. \A i \in DOMAIN k : i > 1 => i - 1 \in DOMAIN dims
            BY <2>1, <2>3
        <3>2. QED BY <2>3, <2>4, <3>1 DEF ToSet
    <2>7. 1 \in DOMAIN k /\ k[1] = HostName
        BY <2>1, <2>3, <2>4
    <2>8. ASSUME NEW i \in DOMAIN dims PROVE i + 1 \in DOMAIN k /\ k[i + 1] = dims[i]
        BY <2>1, <2>3, <2>4
    <2>9. \A a \in ToSet(dims) : \E i \in DOMAIN k : k[i] = a
        BY <2>8 DEF ToSet
    <2>10. QED BY <2>5, <2>6, <2>7, <2>9 DEF ToSet, SeriesNames, DimensionsOf, dims
<1> HIDE DEF keys
<1>5. ToSet(grouped) = {Spelled(n, a) : a \in SeriesNames(kind)}
    BY <1>4 DEF ToSet
<1>6. HostName \in SeriesNames(kind) /\ SeriesNames(kind) \in SUBSET QueriedAttributes
    BY DEF SeriesNames, DimensionsOf, QueriedAttributes
<1> HIDE DEF grouped, filter
<1>7. QED BY <1>1, <1>2, <1>5, <1>6 DEF IsRequest, filter

(* Places in the order of their instants.                                  *)
InOrder(S, f) ==
    [n \in 1 .. Cardinality(S) |->
       CHOOSE x \in S : Cardinality({y \in S : f[y].at < f[x].at}) = n - 1]

LEMMA PlacesBy ==
    ASSUME NEW S, IsFiniteSet(S), NEW f, \A x \in S : f[x].at \in Int,
           \A x, y \in S : f[x].at = f[y].at => x = y,
           NEW s, s = InOrder(S, f)
    PROVE  /\ Cardinality(S) \in Nat /\ s \in [1 .. Cardinality(S) -> S]
           /\ \A i, j \in 1 .. Cardinality(S) : j < i => f[s[j]].at < f[s[i]].at
           /\ \A x \in S : \E i \in 1 .. Cardinality(S) : s[i] = x
<1> DEFINE R == {u \in S \X S : f[u[1]].at < f[u[2]].at}
           N == 1 .. Cardinality(S)
<1>1. \A x, y \in S : << x, y >> \in R <=> f[x].at < f[y].at
    OBVIOUS
<1>2. Cardinality(S) \in Nat
    BY FS_CardinalityType
<1> HIDE DEF R
<1>3. StrictOrder(S, R)
    BY <1>1 DEF StrictOrder
<1>4. \A x \in S : {y \in S : f[y].at < f[x].at} = Ahead(S, R, x)
    BY <1>1 DEF Ahead
<1>5. \A x \in S : Cardinality({y \in S : f[y].at < f[x].at}) = Rank(S, R, x)
    BY <1>4 DEF Rank
<1>6. ASSUME NEW i \in N PROVE s[i] \in S /\ Rank(S, R, s[i]) = i - 1
    <2>1. \E x \in S : Rank(S, R, x) = i - 1
        BY <1>3, EveryRank
    <2>2. s[i] = CHOOSE x \in S : Rank(S, R, x) = i - 1
        BY <1>5 DEF InOrder
    <2>3. QED BY <2>1, <2>2
<1>7. s \in [N -> S]
    BY <1>6 DEF InOrder
<1>8. ASSUME NEW i \in N, NEW j \in N, j < i PROVE f[s[j]].at < f[s[i]].at
    <2>1. /\ s[i] \in S /\ s[j] \in S
          /\ Rank(S, R, s[i]) = i - 1 /\ Rank(S, R, s[j]) = j - 1
        BY <1>6
    <2>2. f[s[j]].at < f[s[i]].at \/ f[s[i]].at = f[s[j]].at \/ f[s[i]].at < f[s[j]].at
        BY <2>1
    <2>3. ASSUME f[s[i]].at < f[s[j]].at PROVE FALSE
        <3>1. << s[i], s[j] >> \in R
            BY <1>1, <2>1, <2>3
        <3>2. Rank(S, R, s[i]) < Rank(S, R, s[j])
            BY <1>3, <2>1, <3>1, RankGrows
        <3>3. QED BY <1>8, <2>1, <3>2
    <2>4. ASSUME f[s[i]].at = f[s[j]].at PROVE FALSE
        <3>1. s[i] = s[j]
            BY <2>1, <2>4
        <3>2. i - 1 = j - 1
            BY <2>1, <3>1
        <3>3. QED BY <1>8, <3>2
    <2>5. QED BY <2>2, <2>3, <2>4
<1>9. ASSUME NEW x \in S PROVE \E i \in N : s[i] = x
    <2>1. Rank(S, R, x) \in Nat /\ Rank(S, R, x) < Cardinality(S)
        BY <1>3, RankIsAPlace
    <2> DEFINE i == Rank(S, R, x) + 1
    <2>2. i \in N /\ i - 1 = Rank(S, R, x)
        BY <1>2, <2>1
    <2> HIDE DEF i
    <2>3. s[i] \in S /\ Rank(S, R, s[i]) = Rank(S, R, x)
        BY <1>6, <2>2
    <2>4. s[i] = x
        BY <1>3, <2>3, SameRank
    <2>5. QED BY <2>2, <2>4
<1>10. QED BY <1>2, <1>7, <1>8, <1>9

(* The points of a series, in the order of their instants.                 *)
IsTrace(points, kind) ==
    \E k \in Nat :
       /\ DOMAIN points = 1 .. k
       /\ \A i \in 1 .. k :
             /\ points[i].at \in Int /\ points[i].value \in Int
             /\ kind \in Counters => points[i].value \in Nat
             /\ \A j \in 1 .. k : j < i => points[j].at < points[i].at

(* The dimensions an agent attached to a sample.                           *)
Attached(s, kind) == [a \in DimensionsOf(kind) |-> s.labels[a]]

(* A series, and the host and the attributes of a sample it is of.         *)
IsSeriesOf(x, s, kind, selector) ==
    /\ s.kind = kind /\ HostName \in DOMAIN s.labels
    /\ x.host = s.labels[HostName] /\ x.host \in Int /\ Matches(selector, x.host)
    /\ x.kind = kind /\ x.attributes = Attached(s, kind)
    /\ "points" \in DOMAIN x /\ IsTrace(x.points, kind)

LEMMA ToMetricSeriesIs ==
    ASSUME NEW b, IsStore(b), NEW r, NEW n, NEW kind, NEW range, NEW step, NEW selector,
           IsRequest(r, n, kind, SeriesNames(kind), range, step, FilterFor(selector)),
           selector = SelectAll \/ \E h : selector = SelectHost(h) /\ {h} # None,
           NEW series, NEW s \in Matched(b, r),
           series.labels = GroupOf(b, r, s),
           series.values = BucketsOf(GroupSamples(b, r, s), r),
           HostName \in DOMAIN DottedLabels(n, series),
           NEW x, x = ToMetricSeries(n, kind, series)
    PROVE  s \in b.samples /\ IsSeriesOf(x, s, kind, selector)
<1> DEFINE T == GroupSamples(b, r, s)
           values == series.values
           labels == DottedLabels(n, series)
           usable == {i \in DOMAIN values : Usable(values[i])}
           order == InOrder(usable, values)
           pointAt(i) == [at |-> values[i].at, value |-> values[i].value]
<1>0. kind \in MetricKinds
    BY DEF IsRequest
<1>1. /\ s \in b.samples /\ IsSample(s) /\ s.kind = kind
      /\ FilterFor(selector) = None
         \/ (HostName \in DOMAIN s.labels /\ s.labels[HostName] \in FilterFor(selector))
      /\ labels = LabelsOf(s, SeriesNames(kind))
    BY GroupIs, MatchedIs
<1>2. HostName \in DOMAIN s.labels /\ labels[HostName] = s.labels[HostName]
    BY <1>1 DEF LabelsOf
<1>3. s.labels[HostName] \in Int /\ DimensionsOf(kind) \subseteq DOMAIN s.labels
    BY <1>1, <1>2 DEF IsSample, DimensionsOf
<1>4. [a \in DOMAIN labels \ {HostName} |-> labels[a]] = Attached(s, kind)
    <2>1. DOMAIN labels = SeriesNames(kind)
        BY <1>1, <1>2, <1>3 DEF LabelsOf, SeriesNames
    <2>2. DOMAIN labels \ {HostName} = DimensionsOf(kind)
        BY <1>0, <2>1, HostIsNoDimension DEF SeriesNames
    <2>3. \A a \in DOMAIN labels : labels[a] = s.labels[a]
        BY <1>1 DEF LabelsOf
    <2>4. QED BY <2>2, <2>3 DEF Attached
<1>5. Matches(selector, s.labels[HostName])
    <2>1. CASE selector = SelectAll
        BY <2>1 DEF Matches, SelectAll
    <2>2. CASE selector # SelectAll
        <3>1. PICK h : selector = SelectHost(h) /\ {h} # None
            BY <2>2
        <3>2. FilterFor(selector) = {h}
            BY <3>1 DEF FilterFor, SelectHost
        <3>3. s.labels[HostName] = h
            BY <1>1, <3>1, <3>2
        <3>4. QED BY <3>1, <3>3 DEF Matches, SelectHost
    <2>3. QED BY <2>1, <2>2
<1>6. /\ IsFiniteSet(T) /\ T \in SUBSET Samples /\ \A t \in T : IsSample(t) /\ t.kind = kind
    BY GroupSamplesAre
<1> HIDE DEF T
<1>7. PICK k \in Nat :
          /\ DOMAIN values = 1 .. k
          /\ \A i \in 1 .. k :
                /\ values[i].at \in Int
                /\ \A j \in 1 .. k : j < i => values[j].at < values[i].at
                /\ Usable(values[i]) => values[i].value \in Int
                                        /\ (kind \in Counters => values[i].value \in Nat)
    BY <1>6, BucketsAre DEF T
<1>8. x = [host |-> labels[HostName], kind |-> kind,
           attributes |-> [a \in DOMAIN labels \ {HostName} |-> labels[a]],
           points |-> [m \in DOMAIN order |-> pointAt(order[m])]]
    BY DEF ToMetricSeries, Ranked, InOrder
<1>9. /\ x.host = s.labels[HostName] /\ x.kind = kind /\ x.attributes = Attached(s, kind)
      /\ x.points = [m \in DOMAIN order |-> pointAt(order[m])]
      /\ "points" \in DOMAIN x
    BY <1>2, <1>4, <1>8
<1>10. IsFiniteSet(usable)
    <2>1. IsFiniteSet(1 .. k)
        BY FS_Interval
    <2>2. QED BY <1>7, <2>1, FS_Subset
<1>11. \A i \in usable : values[i].at \in Int
    BY <1>7
<1>12. \A i, j \in usable : values[i].at = values[j].at => i = j
    <2> SUFFICES ASSUME NEW i \in usable, NEW j \in usable, values[i].at = values[j].at
                 PROVE  i = j
        OBVIOUS
    <2>1. /\ i \in 1 .. k /\ j \in 1 .. k /\ i \in Int /\ j \in Int /\ values[i].at \in Int
        BY <1>7
    <2>2. ~(i < j) /\ ~(j < i)
        BY <1>7, <2>1
    <2>3. QED BY <2>1, <2>2
<1>13. \A i \in usable : values[i].value \in Int /\ (kind \in Counters => values[i].value \in Nat)
    BY <1>7
<1> DEFINE N == 1 .. Cardinality(usable)
<1>14. DOMAIN order = N
    BY DEF InOrder
<1> HIDE DEF usable, values, order
<1>15. /\ Cardinality(usable) \in Nat /\ order \in [N -> usable]
       /\ \A i, j \in N : j < i => values[order[j]].at < values[order[i]].at
    BY <1>10, <1>11, <1>12, PlacesBy DEF order
<1>16. /\ DOMAIN x.points = N
       /\ \A i \in N : /\ x.points[i].at = values[order[i]].at
                         /\ x.points[i].value = values[order[i]].value
    BY <1>9, <1>14, <1>15
<1>17. IsTrace(x.points, kind)
    BY <1>11, <1>13, <1>15, <1>16 DEF IsTrace
<1>18. QED BY <1>1, <1>2, <1>3, <1>5, <1>9, <1>17 DEF IsSeriesOf

(* Samples alike in what they are grouped by are of one group.             *)
LEMMA OneLabelOneGroup ==
    ASSUME NEW b, IsStore(b), NEW r, NEW n, NEW kind, NEW names, NEW range, NEW step,
           NEW filter, IsRequest(r, n, kind, names, range, step, filter),
           NEW s \in Matched(b, r), NEW t \in Matched(b, r),
           LabelsOf(s, names) = LabelsOf(t, names)
    PROVE  GroupOf(b, r, s) = GroupOf(b, r, t)
<1> DEFINE has(u) == {a \in DOMAIN u.labels : Spelled(n, a) \in ToSet(r.groupBy)}
<1>1. b.naming = n /\ n \in NamingKinds /\ names \in SUBSET QueriedAttributes
      /\ ToSet(r.groupBy) = {Spelled(n, a) : a \in names}
    BY MatchedIs DEF IsRequest
<1>2. IsSample(s) /\ IsSample(t)
    BY MatchedIs DEF IsStore
<1>3. ASSUME NEW u, IsSample(u) PROVE has(u) = names \cap DOMAIN u.labels
    <2>1. ASSUME NEW a \in DOMAIN u.labels, NEW q \in names, Spelled(n, a) = Spelled(n, q)
          PROVE  a = q
        <3>1. q = Dotted(q.words)
            BY <1>1, QueriedAreDotted
        <3>2. Spelled(n, q).words = q.words
            BY <3>1 DEF Spelled, Dotted, Named
        <3>3. CASE n = "Dotted"
            BY <2>1, <3>3 DEF Spelled
        <3>4. CASE n # "Dotted"
            <4>1. [a EXCEPT !.dots = {}].words = q.words
                BY <2>1, <3>2, <3>4 DEF Spelled
            <4>2. a.words = q.words
                BY <4>1
            <4>3. q \in QueriedAttributes
                BY <1>1
            <4>4. QED BY <1>3, <4>2, <4>3 DEF IsSample
        <3>5. QED BY <3>3, <3>4
    <2>2. QED BY <1>1, <2>1
<1>4. names \cap DOMAIN s.labels = names \cap DOMAIN t.labels
      /\ \A a \in names \cap DOMAIN s.labels : s.labels[a] = t.labels[a]
    <2>1. DOMAIN LabelsOf(s, names) = names \cap DOMAIN s.labels
          /\ DOMAIN LabelsOf(t, names) = names \cap DOMAIN t.labels
        BY DEF LabelsOf
    <2>2. \A a \in names \cap DOMAIN s.labels :
             LabelsOf(s, names)[a] = s.labels[a]
        BY DEF LabelsOf
    <2>3. \A a \in names \cap DOMAIN t.labels :
             LabelsOf(t, names)[a] = t.labels[a]
        BY DEF LabelsOf
    <2>4. QED BY <2>1, <2>2, <2>3
<1> DEFINE H == names \cap DOMAIN s.labels
<1>5. has(s) = H /\ has(t) = H
    BY <1>2, <1>3, <1>4
<1>6. /\ GroupOf(b, r, s) = [k \in {Spelled(n, a) : a \in has(s)} |->
                               s.labels[CHOOSE a \in has(s) : Spelled(n, a) = k]]
      /\ GroupOf(b, r, t) = [k \in {Spelled(n, a) : a \in has(t)} |->
                               t.labels[CHOOSE a \in has(t) : Spelled(n, a) = k]]
    BY <1>1 DEF GroupOf, Keyed
<1> HIDE DEF has, H
<1>7. /\ GroupOf(b, r, s) = [k \in {Spelled(n, a) : a \in H} |->
                               s.labels[CHOOSE a \in H : Spelled(n, a) = k]]
      /\ GroupOf(b, r, t) = [k \in {Spelled(n, a) : a \in H} |->
                               t.labels[CHOOSE a \in H : Spelled(n, a) = k]]
    BY <1>5, <1>6
<1>8. ASSUME NEW k \in {Spelled(n, a) : a \in H}
      PROVE  s.labels[CHOOSE a \in H : Spelled(n, a) = k]
             = t.labels[CHOOSE a \in H : Spelled(n, a) = k]
    <2>1. (CHOOSE a \in H : Spelled(n, a) = k) \in H
        OBVIOUS
    <2>2. QED BY <1>4, <2>1 DEF H
<1>9. QED BY <1>7, <1>8

(* The answer to a query: series of samples of the metric, of hosts the      *)
(* selector matches, and one of every attribute set of a host.             *)
AreSeries(list, S, kind, selector) ==
    \E m \in Nat :
       /\ DOMAIN list = 1 .. m
       /\ \A i \in 1 .. m : \E s \in S : IsSeriesOf(list[i], s, kind, selector)
       /\ \A i, j \in 1 .. m :
             list[i].host = list[j].host /\ list[i].attributes = list[j].attributes => i = j

(* And there is one of every sample in a complete bucket.                  *)
HasAllShown(list, S, kind, selector, range, step) ==
    \A s \in Shown(S, kind, range, step) :
       Matches(selector, s.labels[HostName]) =>
          \E i \in DOMAIN list : /\ list[i].host = s.labels[HostName]
                                 /\ list[i].attributes = Attached(s, kind)

LEMMA SeriesAre ==
    ASSUME NEW b, IsStore(b), NEW n \in NamingKinds, NEW kind \in MetricKinds, NEW selector,
           selector = SelectAll \/ \E h : selector = SelectHost(h) /\ {h} # None,
           NEW range, range.start \in Int, range.end \in Int,
           NEW step \in Int, step >= Second, NEW backwards \in BOOLEAN,
           NEW a, a = QuerySeries(n, kind,
                         Answer(b, BuildRequest(n, kind, selector, range, step), backwards))
    PROVE  /\ a.ok /\ AreSeries(a.value, b.samples, kind, selector)
           /\ b.naming = n => HasAllShown(a.value, b.samples, kind, selector, range, step)
<1> DEFINE r == BuildRequest(n, kind, selector, range, step)
           reply == Answer(b, r, backwards)
           value == Post(reply).value
           labels(i) == DottedLabels(n, value[i])
           named == OfAHost(n, value)
           order == Ascending(named)
           series(i) == ToMetricSeries(n, kind, value[i])
           N == 1 .. Cardinality(named)
<1>1. IsRequest(r, n, kind, SeriesNames(kind), range, step, FilterFor(selector))
    BY BuildRequestIs
<1> HIDE DEF r
<1>2. Post(reply).ok
    BY AnswerIs
<1>3. PICK m \in Nat :
          /\ DOMAIN value = 1 .. m
          /\ \A i \in 1 .. m : OneGroup(b, r, value[i])
          /\ \A s \in Matched(b, r) : \E i \in 1 .. m : value[i].labels = GroupOf(b, r, s)
          /\ \A i, j \in 1 .. m : value[i].labels = value[j].labels => i = j
    BY AnswerIs
<1>4. a.ok /\ a.value = [i \in DOMAIN order |-> series(order[i])]
    BY <1>2 DEF QuerySeries, Success, r
<1> HIDE DEF reply
<1> HIDE DEF value
<1>5. named = {i \in 1 .. m : HostName \in DOMAIN labels(i)}
    BY <1>3 DEF OfAHost
<1>6. IsFiniteSet(named) /\ named \in SUBSET Int
    <2>1. IsFiniteSet(1 .. m)
        BY FS_Interval
    <2>2. IsFiniteSet(named)
        BY <1>5, <2>1, FS_Subset
    <2>3. QED BY <1>5, <2>2
<1>7. ASSUME NEW i \in named
      PROVE  \E s \in Matched(b, r) : /\ value[i].labels = GroupOf(b, r, s)
                                      /\ s \in b.samples
                                      /\ IsSeriesOf(series(i), s, kind, selector)
    <2>1. i \in 1 .. m /\ HostName \in DOMAIN labels(i)
        BY <1>5
    <2>2. PICK s \in Matched(b, r) :
              /\ value[i].labels = GroupOf(b, r, s)
              /\ value[i].values = BucketsOf(GroupSamples(b, r, s), r)
        BY <1>3, <2>1 DEF OneGroup
    <2> DEFINE x == series(i)
    <2> HIDE DEF x
    <2>3. s \in b.samples /\ IsSeriesOf(x, s, kind, selector)
        BY <1>1, <2>1, <2>2, ToMetricSeriesIs DEF x
    <2>4. QED BY <2>2, <2>3 DEF x
<1> HIDE DEF labels, named, series
<1>8. /\ Cardinality(named) \in Nat /\ order \in [N -> named]
      /\ \A i, j \in N : j < i => order[j] < order[i]
      /\ \A x \in named : \E i \in N : order[i] = x
    <2>1. Cardinality(named) \in Nat /\ order \in [N -> named]
        BY <1>6, AscendingOf
    <2>2. /\ \A i, j \in N : j < i => order[j] < order[i]
          /\ \A x \in named : \E i \in N : order[i] = x
        BY <1>6, AscendsBy DEF order
    <2>3. QED BY <2>1, <2>2
<1> HIDE DEF order
<1>9. DOMAIN a.value = N /\ \A i \in N : a.value[i] = series(order[i]) /\ order[i] \in named
    BY <1>4, <1>8
<1>10. \A i \in N : \E s \in b.samples : IsSeriesOf(a.value[i], s, kind, selector)
    BY <1>7, <1>9
<1>11. ASSUME NEW i \in N, NEW j \in N, a.value[i].host = a.value[j].host,
              a.value[i].attributes = a.value[j].attributes
       PROVE  i = j
    <2>1. PICK s \in Matched(b, r) : /\ value[order[i]].labels = GroupOf(b, r, s)
                                     /\ s \in b.samples
                                     /\ IsSeriesOf(a.value[i], s, kind, selector)
        BY <1>7, <1>9
    <2>2. PICK t \in Matched(b, r) : /\ value[order[j]].labels = GroupOf(b, r, t)
                                     /\ t \in b.samples
                                     /\ IsSeriesOf(a.value[j], t, kind, selector)
        BY <1>7, <1>9
    <2>3. s.labels[HostName] = t.labels[HostName] /\ Attached(s, kind) = Attached(t, kind)
        BY <1>11, <2>1, <2>2 DEF IsSeriesOf
    <2>4. \A d \in DimensionsOf(kind) : s.labels[d] = t.labels[d]
        <3>1. \A d \in DimensionsOf(kind) : Attached(s, kind)[d] = s.labels[d]
                                            /\ Attached(t, kind)[d] = t.labels[d]
            BY DEF Attached
        <3>2. QED BY <2>3, <3>1
    <2>5. /\ SeriesNames(kind) \cap DOMAIN s.labels = SeriesNames(kind)
          /\ SeriesNames(kind) \cap DOMAIN t.labels = SeriesNames(kind)
        <3>1. IsSample(s) /\ IsSample(t)
            BY <2>1, <2>2 DEF IsStore
        <3>2. HostName \in DOMAIN s.labels /\ HostName \in DOMAIN t.labels
              /\ s.kind = kind /\ t.kind = kind
            BY <2>1, <2>2 DEF IsSeriesOf
        <3>3. QED BY <3>1, <3>2 DEF IsSample, SeriesNames, DimensionsOf
    <2>6. LabelsOf(s, SeriesNames(kind)) = LabelsOf(t, SeriesNames(kind))
        BY <2>3, <2>4, <2>5 DEF LabelsOf, SeriesNames
    <2>7. GroupOf(b, r, s) = GroupOf(b, r, t)
        BY <1>1, <2>6, OneLabelOneGroup
    <2>8. order[i] = order[j]
        BY <1>3, <1>5, <1>9, <2>1, <2>2, <2>7
    <2>9. ~(i < j) /\ ~(j < i)
        <3>1. order[i] \in Int /\ order[j] \in Int
            BY <1>6, <1>9
        <3>2. QED BY <1>8, <2>8, <3>1
    <2>10. QED BY <1>8, <2>9
<1>12. AreSeries(a.value, b.samples, kind, selector)
    BY <1>8, <1>9, <1>10, <1>11 DEF AreSeries
<1>13. ASSUME b.naming = n, NEW s \in Shown(b.samples, kind, range, step),
              Matches(selector, s.labels[HostName])
       PROVE  \E i \in DOMAIN a.value : /\ a.value[i].host = s.labels[HostName]
                                        /\ a.value[i].attributes = Attached(s, kind)
    <2>1. /\ s \in b.samples /\ s.kind = kind /\ HostName \in DOMAIN s.labels
          /\ s.value # Gap /\ range.start <= BucketOf(s.at, step)
          /\ BucketOf(s.at, step) + step <= range.end
        BY DEF Shown
    <2>2. IsSample(s) /\ step \in Nat \ {0}
        BY <1>1, <2>1 DEF IsStore, IsRequest
    <2>3. /\ BucketOf(s.at, step) \in Int /\ BucketOf(s.at, step) <= s.at
          /\ s.at < BucketOf(s.at, step) + step /\ s.at \in Int
        BY <2>2, BucketIs DEF IsSample
    <2>4. InRange(range, s.at)
        BY <2>1, <2>2, <2>3 DEF InRange
    <2>5. FilterFor(selector) = None \/ s.labels[HostName] \in FilterFor(selector)
        <3>1. CASE selector = SelectAll
            BY <3>1 DEF FilterFor, SelectAll
        <3>2. CASE selector # SelectAll
            <4>1. PICK h : selector = SelectHost(h)
                BY <3>2
            <4>2. s.labels[HostName] = h
                BY <1>13, <4>1 DEF Matches, SelectHost
            <4>3. QED BY <4>1, <4>2 DEF FilterFor, SelectHost
        <3>3. QED BY <3>1, <3>2
    <2>6. s \in Matched(b, r)
        BY <1>1, <1>13, <2>1, <2>4, <2>5, MatchedIs
    <2>7. PICK i \in 1 .. m : value[i].labels = GroupOf(b, r, s)
        BY <1>3, <2>6
    <2>8. labels(i) = LabelsOf(s, SeriesNames(kind))
        BY <1>1, <2>6, <2>7, GroupIs DEF labels
    <2>9. HostName \in DOMAIN labels(i)
        BY <2>1, <2>8 DEF LabelsOf, SeriesNames
    <2>10. i \in named
        BY <1>5, <2>9 DEF labels, named
    <2>11. PICK t \in Matched(b, r) : /\ value[i].labels = GroupOf(b, r, t)
                                      /\ IsSeriesOf(series(i), t, kind, selector)
        BY <1>7, <2>10
    <2>12. labels(i) = LabelsOf(t, SeriesNames(kind))
        BY <1>1, <2>11, GroupIs DEF labels
    <2>13. /\ s.labels[HostName] = t.labels[HostName] /\ Attached(s, kind) = Attached(t, kind)
        <3>1. DimensionsOf(kind) \subseteq DOMAIN s.labels
            BY <2>1, <2>2 DEF IsSample, DimensionsOf
        <3>2. SeriesNames(kind) \cap DOMAIN s.labels = SeriesNames(kind)
            BY <2>1, <3>1 DEF SeriesNames
        <3>3. \A d \in SeriesNames(kind) : LabelsOf(s, SeriesNames(kind))[d] = s.labels[d]
            BY <3>2 DEF LabelsOf
        <3>4. DOMAIN LabelsOf(t, SeriesNames(kind)) = SeriesNames(kind)
            BY <2>8, <2>12, <3>2 DEF LabelsOf
        <3>5. \A d \in SeriesNames(kind) : LabelsOf(t, SeriesNames(kind))[d] = t.labels[d]
            BY <3>4 DEF LabelsOf
        <3>6. \A d \in SeriesNames(kind) : s.labels[d] = t.labels[d]
            BY <2>8, <2>12, <3>3, <3>5
        <3>7. QED BY <3>6 DEF SeriesNames, Attached
    <2>14. PICK j \in N : order[j] = i
        BY <1>8, <2>10
    <2>15. a.value[j] = series(i) /\ j \in DOMAIN a.value
        BY <1>9, <2>14
    <2>16. QED BY <2>11, <2>13, <2>15 DEF IsSeriesOf
<1>14. QED BY <1>4, <1>12, <1>13 DEF HasAllShown

-------------------------------------------------------------------------------
(***************************************************************************)
(* The configuration.                                                      *)
(***************************************************************************)
Spans == {HostWindow(Tuning), OverviewWindow(Tuning), DetailWindow(Tuning)}

(* Its windows are time ranges.                                            *)
LEMMA RangeIs ==
    ASSUME NEW at \in 0 .. MaxClock, NEW w \in Spans, NEW range,
           range = RangeEndingAt(at, w, Earliest)
    PROVE  /\ range # None /\ range.start \in Int /\ range.end \in Int
           /\ range = [start |-> at - w, end |-> at]
<1>1. w \in Int /\ range # None /\ at \in Int
    BY ConfigAssumption, BackendAssumption DEF Spans
<1>2. range = [start |-> at - w, end |-> at]
    BY <1>1 DEF RangeEndingAt
<1>3. QED BY <1>1, <1>2

(* A probe asks about the window of the roll call.                         *)
LEMMA ProbeAsksLikeAPoll ==
    ASSUME NEW at
    PROVE  ProbeWindow(at) = RosterRange(at)
<1> DEFINE t == Tuning
           beat == t.liveness.beat
           down == beat * t.liveness.downAfter
<1>1. /\ beat \in Int /\ beat >= Second /\ t.liveness.downAfter \in Nat /\ t.lag \in Nat
      /\ beat <= MaxTuningDuration
    BY ConfigAssumption DEF Beat, TuningValid, WithinCeiling
<1>2. down \in Int /\ down >= 0
    <2>1. CASE t.liveness.downAfter = 0
        BY <1>1, <2>1
    <2>2. CASE t.liveness.downAfter # 0
        <3>1. beat \in Nat \ {0} /\ t.liveness.downAfter \in Nat \ {0}
            BY <1>1, <2>2, TelemetryAssumption
        <3>2. QED BY <3>1, ProductIsAtLeast
    <2>3. QED BY <2>1, <2>2
<1>3. DurationMax \in Nat /\ DurationMax >= beat /\ Second \in Nat
    BY <1>1, TuningAssumption, TelemetryAssumption
<1>4. HostWindow(t) = Saturated(Saturated(Saturated(down) + 2 * beat) + t.lag)
    BY DEF HostWindow, DownThreshold
<1> HIDE DEF down, beat, t
<1>5. ASSUME NEW x \in Int
      PROVE  Saturated(x) \in Int /\ (x >= beat => Saturated(x) >= beat)
             /\ (x >= 0 => Saturated(x) >= 0)
    BY <1>1, <1>3 DEF Saturated
<1>6. Saturated(down) + 2 * beat \in Int /\ Saturated(down) + 2 * beat >= beat
    <2>1. Saturated(down) \in Int /\ Saturated(down) >= 0
        BY <1>2, <1>5
    <2>2. QED BY <1>1, <1>3, <2>1
<1> DEFINE x == Saturated(Saturated(down) + 2 * beat)
<1>7. x \in Int /\ x >= beat
    BY <1>5, <1>6
<1>8. Saturated(x + t.lag) >= beat /\ Saturated(x + t.lag) \in Int
    BY <1>1, <1>5, <1>7
<1>9. ~(HostWindow(t) < Second)
    BY <1>1, <1>3, <1>4, <1>8
<1>10. QED BY <1>9 DEF ProbeWindow, RosterRange, t

Queries == PlanQueries(FleetConfig)

(* What a poll asks: each metric of the fleet or of the focused host.      *)
LEMMA QueriesAre ==
    /\ Len(Queries) \in Nat /\ DOMAIN Queries = 1 .. Len(Queries)
    /\ \A i \in DOMAIN Queries :
          /\ Queries[i].metric \in MetricKinds /\ Queries[i].window \in Spans
          /\ \/ Queries[i].selector = SelectAll
             \/ /\ Queries[i].selector = SelectHost(FleetConfig.focus)
                /\ {FleetConfig.focus} # None
    /\ \A i, j \in DOMAIN Queries :
          Queries[i].selector # SelectAll /\ i < j => Queries[i].metric # Queries[j].metric
<1> DEFINE cfg == FleetConfig
           plan == Queries
<1>1. /\ cfg.rules = FleetConfig.rules /\ IsFiniteSet(cfg.rules)
      /\ PlannedMetrics(cfg) \in SUBSET MetricKinds /\ cfg.detail \in SUBSET MetricKinds
      /\ {cfg.focus} # None
    BY ConfigAssumption, BackendAssumption
<1>2. IsFiniteSet(MetricKinds)
    <2> DEFINE k == 13
               D == 1 .. k
               kindAt == [i \in D |-> MetricKindOrder[i]]
    <2>2. MetricKinds = {kindAt[i] : i \in D} /\ DOMAIN kindAt = D
          /\ kindAt = [i \in D |-> kindAt[i]]
        BY DEF MetricKinds, MetricKindOrder
    <2>1. k \in Nat
        OBVIOUS
    <2> HIDE DEF k
    <2>3. IsFiniteSet(D)
        BY <2>1, FS_Interval
    <2> HIDE DEF D, kindAt
    <2>4. QED BY <2>2, <2>3, ImageIsFinite
<1>3. Bounded(cfg)
    BY <1>1, <1>2, FS_Subset DEF Bounded
<1> HIDE DEF cfg, plan
<1>4. PICK n \in Nat :
          /\ DOMAIN plan = 1 .. n /\ Len(plan) = n
          /\ \A i \in 1 .. n :
                /\ plan[i].metric \in MetricKinds
                /\ \/ /\ plan[i].selector = SelectAll
                      /\ plan[i].window = OverviewWindow(cfg.tuning)
                   \/ /\ cfg.focus # None
                      /\ plan[i].selector = SelectHost(cfg.focus)
                      /\ plan[i].window = DetailWindow(cfg.tuning)
          /\ \A i, j \in 1 .. n :
                plan[i].selector # SelectAll /\ i < j => plan[i].metric # plan[j].metric
    <2>1. plan = PlanQueries(cfg)
        BY DEF plan, Queries, cfg
    <2>2. QED BY <1>1, <1>3, <2>1, PlanIs
<1>5. cfg.tuning = Tuning /\ cfg.focus = FleetConfig.focus /\ plan = Queries
    BY DEF cfg, plan, Tuning
<1>6. \A i \in 1 .. n : plan[i].window \in Spans
    BY <1>4, <1>5 DEF Spans
<1>7. QED BY <1>1, <1>4, <1>5, <1>6

(* The plan of a poll is never refused.                                    *)
LEMMA PlanPollIs ==
    ASSUME NEW at \in 0 .. MaxClock
    PROVE  PlanPoll(FleetConfig, at, Earliest)
             = [now |-> at, hostRange |-> RosterRange(at), queries |-> Queries]
<1> DEFINE windows == {HostWindow(Tuning), OverviewWindow(Tuning)}
                      \cup IF FleetConfig.focus = None THEN {} ELSE {DetailWindow(Tuning)}
<1>1. windows \in SUBSET Spans
    BY DEF Spans
<1>2. \A w \in windows : RangeEndingAt(at, w, Earliest) # None
    BY <1>1, RangeIs
<1> HIDE DEF windows
<1>3. PlanPoll(FleetConfig, at, Earliest) =
        IF \E w \in windows : RangeEndingAt(at, w, Earliest) = None THEN None
        ELSE [now |-> at, hostRange |-> RosterRange(at), queries |-> Queries]
    BY DEF PlanPoll, Tuning, RosterRange, Queries, windows
<1>4. QED BY <1>2, <1>3

-------------------------------------------------------------------------------
(***************************************************************************)
(* The inductive invariant.  An answer holds nothing the backend did not    *)
(* hold, and all it held when the call began, while it goes on growing.    *)
(***************************************************************************)
RangeOf(at, spec) == RangeEndingAt(at, spec.window, Earliest)

RosterHolds(hosts, at) ==
    /\ RollCall(hosts, backend.samples, RosterRange(at))
    /\ DOMAIN hosts # {} => Understood
    /\ Understood => Complete(hosts, started, RosterRange(at))

SeriesHold(list, at, spec) ==
    /\ AreSeries(list, backend.samples, spec.metric, spec.selector)
    /\ Understood => HasAllShown(list, started, spec.metric, spec.selector,
                                 RangeOf(at, spec), Tuning.metricStep)

StoreInv ==
    /\ client.naming \in NamingKinds
    /\ backend \in [naming : NamingKinds, samples : SUBSET Samples] /\ IsStore(backend)
    /\ clock \in 0 .. MaxClock
    /\ started \in SUBSET backend.samples

PollInFlight ==
    /\ DOMAIN call = {"op", "at", "plan", "answers"}
    /\ call.op = "Poll" /\ call.at \in 0 .. MaxClock
    /\ call.plan = [now |-> call.at, hostRange |-> RosterRange(call.at), queries |-> Queries]
    /\ DOMAIN call.answers = 0 .. Len(Queries)
    /\ call.answers[0] # None /\ call.answers[0].ok => RosterHolds(call.answers[0].value, call.at)
    /\ \A i \in DOMAIN Queries :
          call.answers[i] # None /\ call.answers[i].ok =>
             SeriesHold(call.answers[i].value, call.at, Queries[i])

ProbeInFlight ==
    /\ DOMAIN call = {"op", "at", "answers"}
    /\ call.op \in {"Check", "List"} /\ call.at \in 0 .. MaxClock
    /\ DOMAIN call.answers = {0}
    /\ call.op = "List" /\ call.answers[0] # None /\ call.answers[0].ok =>
          RosterHolds(call.answers[0].value, call.at)

CallInv == call = None \/ PollInFlight \/ ProbeInFlight

ObsHolds ==
    /\ obs.at \in 0 .. MaxClock
    /\ obs.roster.kind = "Listed" => RosterHolds(obs.roster.hosts, obs.at)
    /\ DOMAIN obs.series = DOMAIN Queries
    /\ \A i \in DOMAIN Queries :
          /\ obs.series[i].spec = Queries[i]
          /\ obs.series[i].result.ok =>
                SeriesHold(obs.series[i].result.series, obs.at, Queries[i])

Heard(range) == {h \in Int : \E s \in backend.samples : Beaten(s, h, range)}

ProbeHolds ==
    /\ probe.at \in 0 .. MaxClock
    /\ \/ /\ probe.failure \in FailureKinds /\ probe.seen = 0 /\ probe.sample = << >>
       \/ /\ probe.failure = None /\ probe.connected
          /\ \E hosts \in SUBSET Heard(RosterRange(probe.at)) :
                /\ hosts # {} => Understood
                /\ Understood => Beating(started, probe.at) \subseteq hosts
                /\ IsFiniteSet(hosts) /\ probe.seen = Cardinality(hosts)
                /\ \A n \in DOMAIN probe.sample : probe.sample[n] \in hosts

ObsInv == obs # None => ObsHolds
ProbeInv == probe # None => ProbeHolds

GatherInv == StoreInv /\ CallInv /\ ObsInv /\ ProbeInv

(* What was held when the call began only grows stale, what the backend      *)
(* holds only grows.                                                       *)
LEMMA AnswersKeep ==
    ASSUME NEW hosts, NEW list, NEW range, NEW kind, NEW selector, NEW step,
           NEW S, NEW T, S \subseteq T
    PROVE  /\ RollCall(hosts, S, range) => RollCall(hosts, T, range)
           /\ Complete(hosts, T, range) => Complete(hosts, S, range)
           /\ AreSeries(list, S, kind, selector) => AreSeries(list, T, kind, selector)
           /\ HasAllShown(list, T, kind, selector, range, step)
                => HasAllShown(list, S, kind, selector, range, step)
<1>1. \A h, x : BeatIsReal(x, h, S, range) => BeatIsReal(x, h, T, range)
    BY DEF BeatIsReal
<1>2. RollCall(hosts, S, range) => RollCall(hosts, T, range)
    BY <1>1 DEF RollCall
<1>3. \A k, st : Shown(S, k, range, st) \subseteq Shown(T, k, range, st)
    BY DEF Shown
<1>4. Complete(hosts, T, range) => Complete(hosts, S, range)
    BY <1>3 DEF Complete
<1>5. AreSeries(list, S, kind, selector) => AreSeries(list, T, kind, selector)
    <2> SUFFICES ASSUME AreSeries(list, S, kind, selector)
                 PROVE  AreSeries(list, T, kind, selector)
        OBVIOUS
    <2>1. PICK m \in Nat :
              /\ DOMAIN list = 1 .. m
              /\ \A i \in 1 .. m : \E s \in S : IsSeriesOf(list[i], s, kind, selector)
              /\ \A i, j \in 1 .. m :
                    list[i].host = list[j].host /\ list[i].attributes = list[j].attributes => i = j
        BY DEF AreSeries
    <2>2. \A i \in 1 .. m : \E s \in T : IsSeriesOf(list[i], s, kind, selector)
        BY <2>1
    <2>3. QED BY <2>1, <2>2 DEF AreSeries
<1>6. HasAllShown(list, T, kind, selector, range, step)
        => HasAllShown(list, S, kind, selector, range, step)
    BY <1>3 DEF HasAllShown
<1>7. QED BY <1>2, <1>4, <1>5, <1>6

(* An answer from what the backend holds while the call is in flight.      *)
LEMMA RosterAnswered ==
    ASSUME StoreInv, NEW at \in 0 .. MaxClock, NEW backwards \in BOOLEAN,
           NEW r, r = RosterRequest(client.naming, RosterRange(at), Beat),
           NEW a, a = ListHosts(client.naming, Answer(backend, r, backwards))
    PROVE  a.ok => RosterHolds(a.value, at)
<1> DEFINE range == RosterRange(at)
<1>1. range.start \in Int /\ range.end \in Int
    BY RangeIs DEF RosterRange, Spans
<1>2. /\ IsStore(backend) /\ client.naming \in NamingKinds /\ started \subseteq backend.samples
    BY DEF StoreInv
<1> HIDE DEF range
<1>3. /\ RollCall(a.value, backend.samples, range)
      /\ DOMAIN a.value # {} => backend.naming = client.naming
      /\ backend.naming = client.naming => Complete(a.value, backend.samples, range)
    BY <1>1, <1>2, RollCallIs DEF range
<1>4. backend.naming = client.naming => Complete(a.value, started, range)
    BY <1>2, <1>3, AnswersKeep
<1>5. QED BY <1>3, <1>4 DEF RosterHolds, Understood, range

LEMMA SeriesAnswered ==
    ASSUME StoreInv, NEW at \in 0 .. MaxClock, NEW backwards \in BOOLEAN,
           NEW i \in DOMAIN Queries, NEW spec, spec = Queries[i],
           NEW r, r = BuildRequest(client.naming, spec.metric, spec.selector,
                                   RangeOf(at, spec), Tuning.metricStep),
           NEW a, a = QuerySeries(client.naming, spec.metric, Answer(backend, r, backwards))
    PROVE  a.ok => SeriesHold(a.value, at, spec)
<1> DEFINE range == RangeOf(at, spec)
           step == Tuning.metricStep
<1>1. /\ spec.metric \in MetricKinds /\ spec.window \in Spans
      /\ spec.selector = SelectAll \/ \E h : spec.selector = SelectHost(h) /\ {h} # None
    BY QueriesAre
<1>2. range.start \in Int /\ range.end \in Int
    BY <1>1, RangeIs DEF RangeOf
<1>3. step \in Int /\ step >= Second
    BY ConfigAssumption DEF TuningValid, Interlocked
<1>4. /\ IsStore(backend) /\ client.naming \in NamingKinds /\ started \subseteq backend.samples
    BY DEF StoreInv
<1> DEFINE n == client.naming
           kind == spec.metric
           selector == spec.selector
<1>5. a = QuerySeries(n, kind,
            Answer(backend, BuildRequest(n, kind, selector, range, step), backwards))
    OBVIOUS
<1> HIDE DEF range, step, n, kind, selector
<1>6. /\ AreSeries(a.value, backend.samples, spec.metric, spec.selector)
      /\ backend.naming = client.naming =>
            HasAllShown(a.value, backend.samples, spec.metric, spec.selector, range, step)
    <2>1. n \in NamingKinds /\ kind \in MetricKinds
        BY <1>1, <1>4 DEF n, kind
    <2>2. selector = SelectAll \/ \E h : selector = SelectHost(h) /\ {h} # None
        BY <1>1 DEF selector
    <2>3. /\ AreSeries(a.value, backend.samples, kind, selector)
          /\ backend.naming = n =>
                HasAllShown(a.value, backend.samples, kind, selector, range, step)
        BY <1>2, <1>3, <1>4, <1>5, <2>1, <2>2, SeriesAre
    <2>4. QED BY <2>3 DEF n, kind, selector
<1>7. backend.naming = client.naming =>
            HasAllShown(a.value, started, spec.metric, spec.selector, range, step)
    BY <1>4, <1>6, AnswersKeep
<1>8. QED BY <1>6, <1>7 DEF SeriesHold, Understood, range, step

(* A reply that is none is decoded as the failure it is.                   *)
LEMMA FaultsFail ==
    ASSUME NEW c, NEW i, NEW reply, ~Post(reply).ok
    PROVE  ~Decoded(c, i, reply).ok
BY DEF Decoded, QuerySeries, ListHosts, CheckConnection

LEMMA TimeoutsFail == ~Post([transport |-> "timeout"]).ok
BY DEF Post, Failure

LEMMA InitGather ==
    Init => GatherInv
<1> SUFFICES ASSUME Init PROVE GatherInv
    OBVIOUS
<1>1. PICK pair \in Namings, samples \in Histories :
          /\ client = [naming |-> pair[1]]
          /\ backend = [naming |-> pair[2], samples |-> samples]
    BY DEF Init
<1>2. /\ pair \in NamingKinds \X NamingKinds
      /\ IsFiniteSet(samples) /\ samples \in SUBSET Samples /\ \A s \in samples : IsSample(s)
    BY BackendAssumption DEF Samples
<1>3. client.naming \in NamingKinds
    BY <1>1, <1>2
<1>4. backend \in [naming : NamingKinds, samples : SUBSET Samples] /\ IsStore(backend)
    BY <1>1, <1>2 DEF IsStore
<1>5. clock \in 0 .. MaxClock /\ started \in SUBSET backend.samples
    BY BackendAssumption DEF Init
<1>6. CallInv /\ ObsInv /\ ProbeInv
    BY DEF Init, CallInv, ObsInv, ProbeInv
<1>7. QED BY <1>3, <1>4, <1>5, <1>6 DEF GatherInv, StoreInv

(* What a call and its answer say does not depend on the clock, and while    *)
(* the backend stays the same, on nothing but itself.                      *)
LEMMA CallKeeps ==
    ASSUME CallInv, UNCHANGED << call, client, backend, started >>
    PROVE  CallInv'
BY DEF CallInv, PollInFlight, ProbeInFlight, RosterHolds, SeriesHold, Understood

LEMMA ObsKeeps ==
    ASSUME ObsInv, ProbeInv, UNCHANGED << obs, probe, client, backend, started >>
    PROVE  ObsInv' /\ ProbeInv'
BY DEF ObsInv, ObsHolds, ProbeInv, ProbeHolds, RosterHolds, SeriesHold, Understood, Heard,
       Beating, BeatsIn

LEMMA StoreKeeps ==
    ASSUME StoreInv, UNCHANGED << client, backend, clock, started >>
    PROVE  StoreInv'
BY DEF StoreInv

(* Exporting adds to what the backend holds.                               *)
LEMMA ExportGather ==
    ASSUME GatherInv, NEW batch \in Batches, Export(batch)
    PROVE  GatherInv'
<1> DEFINE S == backend.samples
           T == backend'.samples
<1>1. /\ backend' = [backend EXCEPT !.samples = @ \cup batch]
      /\ UNCHANGED << client, clock, call, obs, probe, started, calls >>
    BY DEF Export
<1>2. /\ backend \in [naming : NamingKinds, samples : SUBSET Samples] /\ IsStore(backend)
      /\ started \in SUBSET S /\ client.naming \in NamingKinds /\ clock \in 0 .. MaxClock
    BY DEF GatherInv, StoreInv
<1>3. /\ IsFiniteSet(batch) /\ batch \in SUBSET Samples /\ \A s \in batch : IsSample(s)
    <2>1. batch \in Histories \cup Batches
        OBVIOUS
    <2>2. IsFiniteSet(batch)
        BY <2>1, BackendAssumption
    <2>3. \A s \in batch : s \in Samples
        BY <2>1 DEF Samples
    <2>4. \A s \in Samples : IsSample(s)
        BY BackendAssumption
    <2>5. QED BY <2>2, <2>3, <2>4
<1>4. T = S \cup batch /\ backend'.naming = backend.naming
      /\ backend' \in [naming : NamingKinds, samples : SUBSET Samples]
    BY <1>1, <1>2, <1>3
<1>5. IsFiniteSet(T)
    <2>1. IsFiniteSet(S)
        BY <1>2 DEF IsStore
    <2> HIDE DEF S, T
    <2>2. QED BY <1>3, <1>4, <2>1, FS_Union
<1>6. IsStore(backend')
    BY <1>2, <1>3, <1>4, <1>5 DEF IsStore
<1>7. StoreInv'
    BY <1>1, <1>2, <1>4, <1>6 DEF StoreInv
<1>8. S \subseteq T /\ (Understood' <=> Understood)
    BY <1>1, <1>4 DEF Understood
<1>9. ASSUME NEW hosts, NEW at, RosterHolds(hosts, at)
      PROVE  RosterHolds(hosts, at)'
    <2> DEFINE range == RosterRange(at)
    <2>1. RollCall(hosts, S, range)
        BY <1>9 DEF RosterHolds
    <2> HIDE DEF range
    <2>2. RollCall(hosts, T, range)
        BY <1>8, <2>1, AnswersKeep
    <2>3. QED BY <1>1, <1>8, <1>9, <2>2 DEF RosterHolds, range
<1>10. ASSUME NEW list, NEW at, NEW spec, SeriesHold(list, at, spec)
       PROVE  SeriesHold(list, at, spec)'
    <2> DEFINE kind == spec.metric
               selector == spec.selector
    <2>1. AreSeries(list, S, kind, selector)
        BY <1>10 DEF SeriesHold
    <2> HIDE DEF kind, selector
    <2>2. AreSeries(list, T, kind, selector)
        BY <1>8, <2>1, AnswersKeep
    <2>3. QED BY <1>1, <1>8, <1>10, <2>2 DEF SeriesHold, kind, selector
<1>11. \A range : Heard(range) \subseteq Heard(range)'
    BY <1>8 DEF Heard
<1> HIDE DEF S, T
<1>12. CallInv'
    <2>1. CASE call = None
        BY <1>1, <2>1 DEF CallInv
    <2>2. CASE PollInFlight
        BY <1>1, <1>9, <1>10, <2>2 DEF CallInv, PollInFlight
    <2>3. CASE ProbeInFlight
        BY <1>1, <1>9, <2>3 DEF CallInv, ProbeInFlight
    <2>4. QED BY <2>1, <2>2, <2>3 DEF GatherInv, CallInv
<1>13. ObsInv'
    BY <1>1, <1>9, <1>10 DEF GatherInv, ObsInv, ObsHolds
<1>14. ProbeInv'
    <2>1. CASE probe = None
        BY <1>1, <2>1 DEF ProbeInv
    <2>2. CASE probe # None
        <3>1. ProbeHolds
            BY <2>2 DEF GatherInv, ProbeInv
        <3>2. CASE probe.failure \in FailureKinds
            BY <1>1, <3>1, <3>2, BackendAssumption DEF ProbeInv, ProbeHolds
        <3>3. CASE probe.failure = None
            <4>1. PICK hosts \in SUBSET Heard(RosterRange(probe.at)) :
                      /\ hosts # {} => Understood
                      /\ Understood => Beating(started, probe.at) \subseteq hosts
                      /\ IsFiniteSet(hosts) /\ probe.seen = Cardinality(hosts)
                      /\ \A n \in DOMAIN probe.sample : probe.sample[n] \in hosts
                BY <3>1, <3>3, BackendAssumption DEF ProbeHolds
            <4>2. hosts \in SUBSET Heard(RosterRange(probe.at))'
                BY <1>1, <1>11, <4>1
            <4>3. (Understood => Beating(started, probe.at) \subseteq hosts)'
                BY <1>1, <1>8, <4>1
            <4>4. QED BY <1>1, <1>8, <3>1, <3>3, <4>1, <4>2, <4>3, BackendAssumption
                      DEF ProbeInv, ProbeHolds
        <3>4. QED BY <3>1, <3>2, <3>3 DEF ProbeHolds
    <2>3. QED BY <2>1, <2>2
<1>15. QED BY <1>7, <1>12, <1>13, <1>14 DEF GatherInv

LEMMA TickGather ==
    ASSUME GatherInv, Tick
    PROVE  GatherInv'
<1>1. clock' \in 0 .. MaxClock
    BY BackendAssumption DEF Tick, GatherInv, StoreInv
<1>2. UNCHANGED << client, backend, call, obs, probe, started >>
    BY DEF Tick
<1>3. StoreInv'
    BY <1>1, <1>2 DEF GatherInv, StoreInv
<1>4. QED BY <1>2, <1>3, CallKeeps, ObsKeeps DEF GatherInv

(* A call begins: it has no answer yet, and what was observed is folded.   *)
LEMMA BeginGather ==
    ASSUME GatherInv, NEW c, Begin(c), (c = None \/ PollInFlight \/ ProbeInFlight)',
           call' = c
    PROVE  GatherInv'
<1>1. /\ started' = backend.samples /\ obs' = None /\ probe' = None
      /\ UNCHANGED << client, backend, clock >>
    BY DEF Begin
<1>2. StoreInv'
    BY <1>1 DEF GatherInv, StoreInv
<1>3. ObsInv' /\ ProbeInv'
    BY <1>1 DEF ObsInv, ProbeInv
<1>4. CallInv'
    BY DEF CallInv
<1>5. QED BY <1>2, <1>3, <1>4 DEF GatherInv

LEMMA StartPollGather ==
    ASSUME GatherInv, StartPoll
    PROVE  GatherInv'
<1> DEFINE plan == PlanPoll(FleetConfig, clock, Earliest)
           c == [op |-> "Poll", at |-> clock, plan |-> plan,
                 answers |-> [i \in 0 .. Len(plan.queries) |-> None]]
<1>1. clock \in 0 .. MaxClock
    BY DEF GatherInv, StoreInv
<1>2. plan = [now |-> clock, hostRange |-> RosterRange(clock), queries |-> Queries]
    BY <1>1, PlanPollIs
<1>3. Begin(c)
    BY DEF StartPoll
<1> HIDE DEF plan
<1>4. plan.queries = Queries
    BY <1>2
<1>5. call' = c
    BY <1>3 DEF Begin
<1>6. /\ DOMAIN c = {"op", "at", "plan", "answers"} /\ c.op = "Poll" /\ c.at = clock
      /\ c.plan = plan /\ c.answers = [i \in 0 .. Len(Queries) |-> None]
    BY <1>4
<1> HIDE DEF c
<1>7. Len(Queries) \in Nat /\ DOMAIN Queries = 1 .. Len(Queries)
    BY QueriesAre
<1>8. DOMAIN c.answers = 0 .. Len(Queries)
      /\ \A i \in 0 .. Len(Queries) : c.answers[i] = None
    BY <1>6
<1>9. PollInFlight'
    BY <1>1, <1>2, <1>5, <1>6, <1>7, <1>8 DEF PollInFlight
<1>10. QED BY <1>3, <1>5, <1>9, BeginGather

LEMMA StartProbeGather ==
    ASSUME GatherInv, StartProbe
    PROVE  GatherInv'
<1> DEFINE c == [op |-> "Check", at |-> clock, answers |-> [i \in {0} |-> None]]
<1>1. clock \in 0 .. MaxClock
    BY DEF GatherInv, StoreInv
<1>2. Begin(c) /\ call' = c
    BY DEF StartProbe, Begin
<1>3. DOMAIN c = {"op", "at", "answers"} /\ c.op = "Check" /\ c.at = clock
      /\ DOMAIN c.answers = {0}
    OBVIOUS
<1> HIDE DEF c
<1>4. ProbeInFlight'
    BY <1>1, <1>2, <1>3 DEF ProbeInFlight
<1>5. QED BY <1>2, <1>4, BeginGather

(* A reply to a request of a poll, and to one of a probe, is taken.        *)
LEMMA TakeKeeps ==
    ASSUME GatherInv, NEW i, NEW reply, Take(i, reply)
    PROVE  /\ StoreInv' /\ ObsInv' /\ ProbeInv'
           /\ \A hosts, at : RosterHolds(hosts, at) => RosterHolds(hosts, at)'
           /\ \A list, at, spec : SeriesHold(list, at, spec) => SeriesHold(list, at, spec)'
<1>1. UNCHANGED << client, backend, clock, obs, probe, started, calls >>
    BY DEF Take
<1>2. StoreInv' /\ ObsInv' /\ ProbeInv'
    BY <1>1, StoreKeeps, ObsKeeps DEF GatherInv
<1>3. \A hosts, at : RosterHolds(hosts, at) => RosterHolds(hosts, at)'
    BY <1>1 DEF RosterHolds, Understood
<1>4. \A list, at, spec : SeriesHold(list, at, spec) => SeriesHold(list, at, spec)'
    BY <1>1 DEF SeriesHold, Understood
<1>5. QED BY <1>2, <1>3, <1>4

LEMMA TakeGather ==
    ASSUME GatherInv, NEW i, NEW reply, Outstanding(i), Take(i, reply),
           NEW v, v = Decoded(call, i, reply),
           v.ok /\ PollInFlight =>
              /\ i = 0 => RosterHolds(v.value, call.at)
              /\ i \in DOMAIN Queries => SeriesHold(v.value, call.at, Queries[i]),
           v.ok /\ ProbeInFlight /\ call.op = "List" => RosterHolds(v.value, call.at)
    PROVE  GatherInv'
<1>1. call' = [call EXCEPT !.answers[i] = v] /\ i \in DOMAIN call.answers /\ call # None
    BY DEF Take, Outstanding
<1>2. /\ StoreInv' /\ ObsInv' /\ ProbeInv'
      /\ \A hosts, at : RosterHolds(hosts, at) => RosterHolds(hosts, at)'
      /\ \A list, at, spec : SeriesHold(list, at, spec) => SeriesHold(list, at, spec)'
    BY TakeKeeps
<1>3. Len(Queries) \in Nat /\ DOMAIN Queries = 1 .. Len(Queries)
    BY QueriesAre
<1>4. CASE PollInFlight
    <2>1. DOMAIN call = {"op", "at", "plan", "answers"} /\ DOMAIN call.answers = 0 .. Len(Queries)
        BY <1>4 DEF PollInFlight
    <2>2. /\ DOMAIN call' = {"op", "at", "plan", "answers"}
          /\ call'.op = call.op /\ call'.at = call.at /\ call'.plan = call.plan
          /\ call'.answers = [call.answers EXCEPT ![i] = v]
        BY <1>1, <2>1
    <2>3. /\ DOMAIN call'.answers = 0 .. Len(Queries) /\ call'.answers[i] = v
          /\ \A j \in 0 .. Len(Queries) : j # i => call'.answers[j] = call.answers[j]
        BY <1>1, <2>1, <2>2
    <2>4. call'.answers[0] # None /\ call'.answers[0].ok
             => RosterHolds(call'.answers[0].value, call.at)
        <3>1. CASE i = 0
            BY <1>4, <2>3, <3>1
        <3>2. CASE i # 0
            <4>1. call'.answers[0] = call.answers[0]
                BY <1>3, <2>3, <3>2
            <4>2. QED BY <1>4, <4>1 DEF PollInFlight
        <3>3. QED BY <3>1, <3>2
    <2>5. ASSUME NEW j \in DOMAIN Queries, call'.answers[j] # None, call'.answers[j].ok
          PROVE  SeriesHold(call'.answers[j].value, call.at, Queries[j])
        <3>1. CASE i = j
            BY <1>4, <2>3, <2>5, <3>1
        <3>2. CASE i # j
            <4>1. call'.answers[j] = call.answers[j]
                BY <1>3, <2>3, <3>2
            <4>2. QED BY <1>4, <2>5, <4>1 DEF PollInFlight
        <3>3. QED BY <3>1, <3>2
    <2>6. PollInFlight'
        BY <1>2, <1>4, <2>2, <2>3, <2>4, <2>5 DEF PollInFlight
    <2>7. QED BY <1>2, <2>6 DEF GatherInv, CallInv
<1>5. CASE ProbeInFlight
    <2>1. DOMAIN call = {"op", "at", "answers"} /\ DOMAIN call.answers = {0}
        BY <1>5 DEF ProbeInFlight
    <2>2. /\ DOMAIN call' = {"op", "at", "answers"}
          /\ call'.op = call.op /\ call'.at = call.at
          /\ call'.answers = [call.answers EXCEPT ![i] = v]
        BY <1>1, <2>1
    <2>3. DOMAIN call'.answers = {0} /\ call'.answers[0] = v
        BY <1>1, <2>1, <2>2
    <2>4. call.op = "List" /\ v.ok => RosterHolds(v.value, call.at)
        BY <1>5
    <2>5. ProbeInFlight'
        BY <1>2, <1>5, <2>2, <2>3, <2>4 DEF ProbeInFlight
    <2>6. QED BY <1>2, <2>5 DEF GatherInv, CallInv
<1>6. QED BY <1>1, <1>4, <1>5 DEF GatherInv, CallInv

LEMMA ReplyGather ==
    ASSUME GatherInv, NEW i, Reply(i)
    PROVE  GatherInv'
<1>1. StoreInv
    BY DEF GatherInv
<1>2. ASSUME NEW backwards \in BOOLEAN,
             Take(i, Answer(backend, RequestOf(call, i), backwards))
      PROVE  GatherInv'
    <2> DEFINE reply == Answer(backend, RequestOf(call, i), backwards)
               v == Decoded(call, i, reply)
    <2>1. ASSUME v.ok, PollInFlight, i = 0
          PROVE  RosterHolds(v.value, call.at)
        <3>1. call.op = "Poll" /\ call.at \in 0 .. MaxClock
              /\ call.plan.hostRange = RosterRange(call.at)
            BY <2>1 DEF PollInFlight
        <3>2. RequestOf(call, i) = RosterRequest(client.naming, RosterRange(call.at), Beat)
            BY <2>1, <3>1 DEF RequestOf
        <3>3. v = ListHosts(client.naming, reply)
            BY <2>1, <3>1 DEF Decoded
        <3> HIDE DEF v
        <3>4. QED BY <1>1, <2>1, <3>1, <3>2, <3>3, RosterAnswered
    <2>2. ASSUME v.ok, PollInFlight, i \in DOMAIN Queries
          PROVE  SeriesHold(v.value, call.at, Queries[i])
        <3> DEFINE spec == Queries[i]
        <3>1. /\ call.op = "Poll" /\ call.at \in 0 .. MaxClock
              /\ call.plan.now = call.at /\ call.plan.queries = Queries
            BY <2>2 DEF PollInFlight
        <3>2. i > 0 /\ i # 0
            BY <2>2, QueriesAre
        <3>3. RequestOf(call, i) = BuildRequest(client.naming, spec.metric, spec.selector,
                                      RangeOf(call.at, spec), Tuning.metricStep)
            BY <3>1, <3>2 DEF RequestOf, RangeOf
        <3>4. v = QuerySeries(client.naming, spec.metric, reply)
            BY <3>1, <3>2 DEF Decoded
        <3>5. spec = Queries[i]
            OBVIOUS
        <3> HIDE DEF v, spec
        <3>6. SeriesHold(v.value, call.at, spec)
            BY <1>1, <2>2, <3>1, <3>3, <3>4, <3>5, SeriesAnswered
        <3>7. QED BY <3>5, <3>6
    <2>3. ASSUME v.ok, ProbeInFlight, call.op = "List"
          PROVE  RosterHolds(v.value, call.at)
        <3>1. call.at \in 0 .. MaxClock
            BY <2>3 DEF ProbeInFlight
        <3>2. RequestOf(call, i) = RosterRequest(client.naming, RosterRange(call.at), Beat)
            BY <2>3, ProbeAsksLikeAPoll DEF RequestOf
        <3>3. v = ListHosts(client.naming, reply)
            BY <2>3 DEF Decoded
        <3> HIDE DEF v
        <3>4. QED BY <1>1, <2>3, <3>1, <3>2, <3>3, RosterAnswered
    <2>4. v = Decoded(call, i, reply)
        OBVIOUS
    <2>5. Take(i, reply) /\ Outstanding(i)
        BY <1>2 DEF Reply
    <2> HIDE DEF v, reply
    <2>6. QED BY <2>1, <2>2, <2>3, <2>4, <2>5, TakeGather
<1>3. ASSUME NEW fault \in Faults, Take(i, fault)
      PROVE  GatherInv'
    <2>1. ~Decoded(call, i, fault).ok
        BY BackendAssumption, FaultsFail
    <2>2. Outstanding(i)
        BY DEF Reply
    <2> DEFINE v == Decoded(call, i, fault)
    <2>3. v = Decoded(call, i, fault) /\ ~v.ok
        BY <2>1
    <2> HIDE DEF v
    <2>4. QED BY <1>3, <2>2, <2>3, TakeGather
<1>4. QED BY <1>2, <1>3 DEF Reply

LEMMA TimeoutGather ==
    ASSUME GatherInv, NEW i, Timeout(i)
    PROVE  GatherInv'
<1> DEFINE reply == [transport |-> "timeout"]
           v == Decoded(call, i, reply)
<1>1. v = Decoded(call, i, reply) /\ ~v.ok
    BY TimeoutsFail, FaultsFail
<1>2. Outstanding(i) /\ Take(i, reply)
    BY DEF Timeout
<1> HIDE DEF v, reply
<1>3. QED BY <1>1, <1>2, TakeGather

LEMMA FinishPollGather ==
    ASSUME GatherInv, FinishPoll
    PROVE  GatherInv'
<1>1. /\ call # None /\ call.op = "Poll" /\ call' = None
      /\ \A i \in DOMAIN call.answers : call.answers[i] # None
      /\ obs' = Gathered(call.plan, call.answers)
      /\ UNCHANGED << client, backend, clock, probe, started, calls >>
    BY DEF FinishPoll
<1>2. PollInFlight
    BY <1>1 DEF GatherInv, CallInv, ProbeInFlight
<1>3. StoreInv'
    BY <1>1, StoreKeeps DEF GatherInv
<1>4. CallInv'
    BY <1>1 DEF CallInv
<1>5. ProbeInv'
    BY <1>1 DEF GatherInv, ProbeInv, ProbeHolds, Understood, Heard, Beating, BeatsIn
<1>7. /\ call.at \in 0 .. MaxClock /\ call.plan.now = call.at /\ call.plan.queries = Queries
      /\ DOMAIN call.answers = 0 .. Len(Queries)
      /\ call.answers[0] # None /\ call.answers[0].ok
            => RosterHolds(call.answers[0].value, call.at)
      /\ \A i \in DOMAIN Queries :
            call.answers[i] # None /\ call.answers[i].ok =>
               SeriesHold(call.answers[i].value, call.at, Queries[i])
    BY <1>2 DEF PollInFlight
<1>8. Len(Queries) \in Nat /\ DOMAIN Queries = 1 .. Len(Queries)
    BY QueriesAre
<1> DEFINE answers == call.answers
<1>9. /\ obs'.at = call.at /\ obs'.roster = RosterOutcome(answers[0])
      /\ obs'.series = [i \in DOMAIN Queries |->
                          [spec |-> Queries[i], result |-> SeriesResult(answers[i])]]
    BY <1>1, <1>7 DEF Gathered
<1>10. (obs.roster.kind = "Listed" => RosterHolds(obs.roster.hosts, obs.at))'
    <2>1. answers[0] # None
        BY <1>1, <1>7, <1>8
    <2>2. CASE answers[0].ok
        <3>1. obs'.roster = Listed(answers[0].value)
            BY <1>9, <2>2 DEF RosterOutcome
        <3>2. obs'.roster.hosts = answers[0].value
            BY <3>1 DEF Listed
        <3>3. QED BY <1>1, <1>7, <1>9, <2>1, <2>2, <3>2 DEF RosterHolds, Understood
    <2>3. CASE ~answers[0].ok
        BY <1>9, <2>3 DEF RosterOutcome, RosterFailed
    <2>4. QED BY <2>2, <2>3
<1>11. ASSUME NEW i \in DOMAIN Queries
       PROVE  (/\ obs.series[i].spec = Queries[i]
               /\ obs.series[i].result.ok =>
                     SeriesHold(obs.series[i].result.series, obs.at, Queries[i]))'
    <2>1. answers[i] # None
        BY <1>1, <1>7, <1>8
    <2>2. obs'.series[i].spec = Queries[i] /\ obs'.series[i].result = SeriesResult(answers[i])
        BY <1>9
    <2>3. CASE answers[i].ok
        <3>1. obs'.series[i].result.series = answers[i].value
            BY <2>2, <2>3 DEF SeriesResult, Returned
        <3>2. QED BY <1>1, <1>7, <1>9, <2>1, <2>2, <2>3, <3>1 DEF SeriesHold, Understood
    <2>4. CASE ~answers[i].ok
        BY <2>2, <2>4 DEF SeriesResult, Failed
    <2>5. QED BY <2>3, <2>4
<1>12. DOMAIN obs'.series = DOMAIN Queries
    BY <1>9
<1>13. ObsInv'
    BY <1>7, <1>9, <1>10, <1>11, <1>12 DEF ObsInv, ObsHolds
<1>14. QED BY <1>3, <1>4, <1>5, <1>13 DEF GatherInv

LEMMA ProbeRosterGather ==
    ASSUME GatherInv, ProbeRoster
    PROVE  GatherInv'
<1> DEFINE c == [op |-> "List", at |-> call.at, answers |-> [i \in {0} |-> None]]
<1>1. /\ call # None /\ call.op = "Check" /\ call' = c
      /\ UNCHANGED << client, backend, clock, obs, probe, started, calls >>
    BY DEF ProbeRoster
<1>2. ProbeInFlight
    BY <1>1 DEF GatherInv, CallInv, PollInFlight
<1>3. /\ DOMAIN c = {"op", "at", "answers"} /\ c.op = "List" /\ c.at = call.at
      /\ DOMAIN c.answers = {0} /\ c.answers[0] = None
    OBVIOUS
<1> HIDE DEF c
<1>4. ProbeInFlight'
    BY <1>1, <1>2, <1>3 DEF ProbeInFlight
<1>5. QED BY <1>1, <1>4, StoreKeeps, ObsKeeps DEF GatherInv, CallInv

LEMMA FinishProbeGather ==
    ASSUME GatherInv, FinishProbe
    PROVE  GatherInv'
<1>1. /\ call # None /\ call.op \in {"Check", "List"} /\ call.answers[0] # None
      /\ call.op = "Check" => ~call.answers[0].ok
      /\ probe' = IF call.op = "Check" THEN Probed(call.at, call.answers[0], None)
                  ELSE Probed(call.at, Success(TRUE), call.answers[0])
      /\ call' = None /\ UNCHANGED << client, backend, clock, obs, started, calls >>
    BY DEF FinishProbe
<1>2. ProbeInFlight
    BY <1>1 DEF GatherInv, CallInv, PollInFlight
<1>3. StoreInv' /\ CallInv'
    BY <1>1, StoreKeeps DEF GatherInv, CallInv
<1>4. ObsInv'
    BY <1>1 DEF GatherInv, ObsInv, ObsHolds, RosterHolds, SeriesHold, Understood
<1> DEFINE a == call.answers[0]
<1>5. call.at \in 0 .. MaxClock
      /\ (call.op = "List" /\ a.ok => RosterHolds(a.value, call.at))
    BY <1>1, <1>2 DEF ProbeInFlight
<1>6. \A x : FailureKind(x) \in FailureKinds
    BY DEF FailureKind, FailureKinds
<1>7. CASE ~a.ok
    <2> DEFINE failure == FailureKind(a.failure)
    <2>1. /\ probe'.at = call.at /\ probe'.failure = failure
          /\ probe'.seen = 0 /\ probe'.sample = << >>
        <3>1. CASE call.op = "Check"
            BY <1>1, <1>7, <3>1 DEF Probed
        <3>2. CASE call.op # "Check"
            BY <1>1, <1>7, <3>2 DEF Probed, Success
        <3>3. QED BY <3>1, <3>2
    <2> HIDE DEF failure
    <2>2. ProbeHolds'
        BY <1>5, <1>6, <2>1 DEF ProbeHolds, failure
    <2>3. QED BY <1>3, <1>4, <2>2 DEF GatherInv, ProbeInv
<1>8. CASE a.ok
    <2> DEFINE told == a.value
    <2>0. PICK hosts, at : hosts = DOMAIN told /\ at = call.at
        OBVIOUS
    <2> DEFINE ids == Ascending(hosts)
               range == RosterRange(at)
               shown == IF Len(ids) <= SampleHostLimit THEN ids
                        ELSE SubSeq(ids, 1, SampleHostLimit)
    <2>1. call.op = "List" /\ RosterHolds(told, at)
        BY <1>1, <1>5, <1>8, <2>0
    <2>2. probe' = [at |-> at, connected |-> TRUE, failure |-> None, seen |-> Len(ids),
                    sample |-> shown]
        BY <1>1, <1>8, <2>0, <2>1 DEF Probed, Success
    <2>3. /\ hosts \in SUBSET Int /\ IsFiniteSet(hosts)
          /\ \A h \in hosts : \E s \in backend.samples : Beaten(s, h, range)
        BY <2>0, <2>1 DEF RosterHolds, RollCall
    <2>4. hosts \in SUBSET Heard(range)
        BY <2>3 DEF Heard
    <2>5. hosts # {} => Understood
        BY <2>0, <2>1 DEF RosterHolds
    <2>6. Understood => Beating(started, at) \subseteq hosts
        BY <2>0, <2>1 DEF RosterHolds, Complete, Beating, BeatsIn
    <2>7. Cardinality(hosts) \in Nat /\ ids \in [1 .. Cardinality(hosts) -> hosts]
        BY <2>3, AscendingOf
    <2> HIDE DEF ids
    <2>8. ids \in Seq(hosts) /\ Len(ids) = Cardinality(hosts)
        <3>1. ids \in Seq(hosts)
            BY <2>7, ListIsASeq
        <3>2. QED BY <2>7, <3>1
    <2>9. \A n \in DOMAIN shown : shown[n] \in hosts
        <3>1. CASE Len(ids) <= SampleHostLimit
            BY <2>7, <3>1
        <3>2. CASE ~(Len(ids) <= SampleHostLimit)
            <4>1. SubSeq(ids, 1, 5) \in Seq(hosts)
                BY <2>8, <3>2 DEF SampleHostLimit
            <4>2. shown \in Seq(hosts)
                BY <3>2, <4>1 DEF SampleHostLimit
            <4> HIDE DEF shown
            <4>3. QED BY <4>2
        <3>3. QED BY <3>1, <3>2
    <2> HIDE DEF shown, told, a
    <2>10. /\ probe'.at = at /\ probe'.connected /\ probe'.failure = None
           /\ probe'.seen = Cardinality(hosts) /\ probe'.sample = shown
        BY <2>2, <2>8
    <2>11. /\ at \in 0 .. MaxClock
           /\ (Heard(range))' = Heard(range) /\ (Understood <=> Understood')
           /\ (Beating(started, at))' = Beating(started, at)
        BY <1>1, <1>5, <2>0 DEF Heard, Understood, Beating, BeatsIn
    <2>12. /\ (hosts \in SUBSET Heard(RosterRange(probe.at)))'
           /\ (Understood => Beating(started, probe.at) \subseteq hosts)'
           /\ (hosts # {} => Understood)'
        BY <1>1, <2>4, <2>5, <2>6, <2>10, <2>11
    <2>13. ProbeHolds'
        BY <2>3, <2>9, <2>10, <2>11, <2>12 DEF ProbeHolds
    <2>14. QED BY <1>3, <1>4, <2>13 DEF GatherInv, ProbeInv
<1>9. QED BY <1>7, <1>8

LEMMA StepGather ==
    ASSUME GatherInv, [Next]_vars
    PROVE  GatherInv'
<1>1. CASE StartPoll
    BY <1>1, StartPollGather
<1>2. CASE StartProbe
    BY <1>2, StartProbeGather
<1>3. CASE FinishPoll
    BY <1>3, FinishPollGather
<1>4. CASE ProbeRoster
    BY <1>4, ProbeRosterGather
<1>5. CASE FinishProbe
    BY <1>5, FinishProbeGather
<1>6. CASE Tick
    BY <1>6, TickGather
<1>7. ASSUME NEW i \in Requests, Reply(i) \/ Timeout(i) PROVE GatherInv'
    BY <1>7, ReplyGather, TimeoutGather
<1>8. ASSUME NEW batch \in Batches, Export(batch) PROVE GatherInv'
    BY <1>8, ExportGather
<1>9. CASE UNCHANGED vars
    <2>1. UNCHANGED << client, backend, clock, call, obs, probe, started >>
        BY <1>9 DEF vars
    <2>2. QED BY <2>1, StoreKeeps, CallKeeps, ObsKeeps DEF GatherInv
<1>10. QED BY <1>1, <1>2, <1>3, <1>4, <1>5, <1>6, <1>7, <1>8, <1>9 DEF Next

(* Every answer a call, an observation or a probe holds is of samples that   *)
(* were exported, and of all that were when the call began.                *)
THEOREM AnswersAreOfTheBackend == Spec => []GatherInv
<1>1. Init => GatherInv
    BY InitGather
<1>2. GatherInv /\ [Next]_vars => GatherInv'
    BY StepGather
<1>3. QED BY <1>1, <1>2, PTL DEF Spec

-------------------------------------------------------------------------------
(***************************************************************************)
(* What a reader of a poll or a probe may conclude.                        *)
(***************************************************************************)
LEMMA RosterIsRight ==
    ASSUME GatherInv
    PROVE  RosterIsComplete /\ HeartbeatsAreReal
<1> SUFFICES ASSUME obs # None, obs.roster.kind = "Listed"
             PROVE  /\ Understood => \A s \in BeatsIn(started, obs.at) :
                           /\ s.labels[HostName] \in DOMAIN obs.roster.hosts
                           /\ obs.roster.hosts[s.labels[HostName]].beat >= BucketOf(s.at, Beat)
                    /\ HeartbeatsAreReal
    BY DEF RosterIsComplete, HeartbeatsAreReal
<1> DEFINE range == RosterRange(obs.at)
<1>1. RosterHolds(obs.roster.hosts, obs.at)
    BY DEF GatherInv, ObsInv, ObsHolds
<1>2. ASSUME Understood, NEW s \in BeatsIn(started, obs.at)
      PROVE  /\ s.labels[HostName] \in DOMAIN obs.roster.hosts
             /\ obs.roster.hosts[s.labels[HostName]].beat >= BucketOf(s.at, Beat)
    BY <1>1, <1>2 DEF RosterHolds, Complete, BeatsIn
<1>3. ASSUME NEW h \in DOMAIN obs.roster.hosts, obs.roster.hosts[h].beat # None
      PROVE  /\ InRange(range, obs.roster.hosts[h].beat)
             /\ \E s \in backend.samples :
                   /\ s.kind = "AgentHeartbeat" /\ HostName \in DOMAIN s.labels
                   /\ s.labels[HostName] = h
                   /\ obs.roster.hosts[h].beat <= s.at /\ s.at < obs.roster.hosts[h].beat + Beat
                   /\ obs.roster.hosts[h].version = s.labels[ServiceVersion]
    <2> DEFINE host == obs.roster.hosts[h]
    <2>1. BeatIsReal(host, h, backend.samples, range)
        BY <1>1, <1>3 DEF RosterHolds, RollCall
    <2>2. obs.at \in 0 .. MaxClock
        BY DEF GatherInv, ObsInv, ObsHolds
    <2>3. range.start \in Int /\ range.end \in Int
        BY <2>2, RangeIs DEF RosterRange, Spans
    <2>4. Beat \in Int /\ Beat > 0
        BY ConfigAssumption, TelemetryAssumption
    <2> HIDE DEF host, range
    <2>5. InRange(range, host.beat)
        BY <2>1, <2>3, <2>4 DEF BeatIsReal, InRange
    <2>6. \E s \in backend.samples :
             /\ s.kind = "AgentHeartbeat" /\ HostName \in DOMAIN s.labels
             /\ s.labels[HostName] = h
             /\ host.beat <= s.at /\ s.at < host.beat + Beat
             /\ host.version = s.labels[ServiceVersion]
        BY <2>1 DEF BeatIsReal, Beaten
    <2>7. QED BY <2>5, <2>6 DEF host, range
<1>4. HeartbeatsAreReal
    BY <1>3 DEF HeartbeatsAreReal
<1>5. QED BY <1>2, <1>4

LEMMA ProbeIsRight ==
    ASSUME GatherInv
    PROVE  ProbeMeansThePoll
<1> SUFFICES ASSUME probe # None
             PROVE  \E told \in {ProbeRecord(probe)}, range \in {RosterRange(probe.at)} :
                /\ told.message = "NoHosts" /\ Understood => Beating(started, probe.at) = {}
                /\ told.windowStart = Millis(range.start) /\ told.windowEnd = Millis(range.end)
                /\ told.usable <=> told.message = "HostsSeen"
                /\ told.usable => Understood
                /\ \A n \in DOMAIN told.sample :
                      \E s \in backend.samples :
                          /\ s.kind = "AgentHeartbeat" /\ InRange(range, s.at)
                          /\ HostName \in DOMAIN s.labels
                          /\ s.labels[HostName] = told.sample[n]
    BY DEF ProbeMeansThePoll
<1> DEFINE told == ProbeRecord(probe)
           range == RosterRange(probe.at)
<1>1. ProbeHolds
    BY DEF GatherInv, ProbeInv
<1>2. /\ told.message = ProbeMessage(probe) /\ told.usable = IsUsable(probe)
      /\ told.sample = probe.sample
      /\ told.windowStart = Millis(range.start) /\ told.windowEnd = Millis(range.end)
    BY ProbeAsksLikeAPoll DEF ProbeRecord
<1> HIDE DEF told
<1>3. CASE probe.failure \in FailureKinds /\ probe.seen = 0 /\ probe.sample = << >>
    <2>1. probe.failure # None
        BY <1>3, BackendAssumption
    <2>2. told.message \in {"Refused", "ListingFailed"}
        <3>1. CASE probe.connected
            BY <1>2, <2>1, <3>1 DEF ProbeMessage
        <3>2. CASE ~probe.connected
            BY <1>2, <2>1, <3>2 DEF ProbeMessage
        <3>3. QED BY <3>1, <3>2
    <2>3. ~told.usable
        <3>1. ~(probe.seen > 0)
            BY <1>3
        <3>2. QED BY <1>2, <3>1 DEF IsUsable
    <2>4. DOMAIN told.sample = {}
        BY <1>2, <1>3
    <2>5. told.message # "NoHosts" /\ told.message # "HostsSeen"
        BY <2>2
    <2>6. QED BY <1>2, <2>3, <2>4, <2>5 DEF told
<1>4. CASE probe.failure = None /\ probe.connected
           /\ \E hosts \in SUBSET Heard(range) :
                /\ hosts # {} => Understood
                /\ Understood => Beating(started, probe.at) \subseteq hosts
                /\ IsFiniteSet(hosts) /\ probe.seen = Cardinality(hosts)
                /\ \A n \in DOMAIN probe.sample : probe.sample[n] \in hosts
    <2>1. PICK hosts \in SUBSET Heard(range) :
                /\ hosts # {} => Understood
                /\ Understood => Beating(started, probe.at) \subseteq hosts
                /\ IsFiniteSet(hosts) /\ probe.seen = Cardinality(hosts)
                /\ \A n \in DOMAIN probe.sample : probe.sample[n] \in hosts
        BY <1>4
    <2>2. probe.seen \in Nat /\ (probe.seen = 0 <=> hosts = {})
        BY <2>1, FS_CardinalityType, FS_EmptySet
    <2>3. told.usable <=> probe.seen > 0
        BY <1>2, <1>4 DEF IsUsable
    <2>4. told.message = IF probe.seen = 0 THEN "NoHosts" ELSE "HostsSeen"
        BY <1>2, <1>4 DEF ProbeMessage
    <2>5. told.usable <=> told.message = "HostsSeen"
        BY <2>2, <2>3, <2>4
    <2>6. told.usable => Understood
        BY <2>1, <2>2, <2>3
    <2>7. told.message = "NoHosts" /\ Understood => Beating(started, probe.at) = {}
        BY <2>1, <2>2, <2>4
    <2>8. \A n \in DOMAIN told.sample :
             \E s \in backend.samples :
                 /\ s.kind = "AgentHeartbeat" /\ InRange(range, s.at)
                 /\ HostName \in DOMAIN s.labels /\ s.labels[HostName] = told.sample[n]
        BY <1>2, <2>1 DEF Heard, Beaten
    <2> HIDE DEF range
    <2>9. QED BY <1>2, <2>5, <2>6, <2>7, <2>8 DEF told, range
<1>5. QED BY <1>1, <1>3, <1>4 DEF ProbeHolds

(* A roll call is the fleet, everyone who beat and nobody who did not, and a *)
(* connection test means what a poll would say (fetch_roster, probe).      *)
THEOREM RostersAreTrue == Spec => []RosterIsTrue
<1>1. GatherInv => RosterIsTrue
    BY RosterIsRight, ProbeIsRight DEF RosterIsTrue
<1>2. QED BY <1>1, AnswersAreOfTheBackend, PTL

(* What an agent exports apart arrives apart, under the names the rest of    *)
(* the client looks up (group_by, to_dotted).                              *)
THEOREM SeriesArriveApart == Spec => []SeriesStayApart
<1>1. ASSUME GatherInv PROVE SeriesStayApart
    <2> SUFFICES ASSUME obs # None, Understood, NEW i \in DOMAIN obs.series, Answered(i),
                        NEW spec, spec = obs.series[i].spec,
                        NEW range, range = RangeEndingAt(obs.at, spec.window, Earliest),
                        NEW s \in Shown(started, spec.metric, range, Tuning.metricStep),
                        NEW h, h = s.labels[HostName], Matches(spec.selector, h)
                 PROVE  /\ AttributesOf(Shown(started, spec.metric, range, Tuning.metricStep),
                                        h, spec.metric)
                             \subseteq {x.attributes : x \in {y \in ToSet(obs.series[i].result.series) :
                                                                y.host = h}}
                        /\ {x.attributes : x \in {y \in ToSet(obs.series[i].result.series) :
                                                    y.host = h}}
                             \subseteq AttributesOf(backend.samples, h, spec.metric)
        BY DEF SeriesStayApart
    <2> DEFINE list == obs.series[i].result.series
               kind == spec.metric
               shown == Shown(started, kind, range, Tuning.metricStep)
               came == {x.attributes : x \in {y \in ToSet(list) : y.host = h}}
    <2>1. /\ i \in DOMAIN Queries /\ spec = Queries[i]
          /\ SeriesHold(list, obs.at, spec)
        BY <1>1 DEF GatherInv, ObsInv, ObsHolds, Answered
    <2>2. /\ AreSeries(list, backend.samples, kind, spec.selector)
          /\ HasAllShown(list, started, kind, spec.selector, range, Tuning.metricStep)
        BY <2>1 DEF SeriesHold, RangeOf
    <2>3. \A x : x \in ToSet(list) <=> \E j \in DOMAIN list : x = list[j]
        BY DEF ToSet
    <2>4. \A t, k : Attached(t, k) = [a \in ToSet(ExtraDimensions(k)) |-> t.labels[a]]
        BY DEF Attached, DimensionsOf
    <2>5. ASSUME NEW x \in AttributesOf(shown, h, kind) PROVE x \in came
        <3>1. PICK t \in shown : t.labels[HostName] = h /\ x = Attached(t, kind)
            BY <2>4 DEF AttributesOf
        <3>2. PICK j \in DOMAIN list : list[j].host = h /\ list[j].attributes = x
            BY <2>2, <3>1 DEF HasAllShown
        <3>3. QED BY <2>3, <3>2
    <2>6. ASSUME NEW x \in came PROVE x \in AttributesOf(backend.samples, h, kind)
        <3>1. PICK j \in DOMAIN list : list[j].host = h /\ list[j].attributes = x
            BY <2>3
        <3>2. PICK t \in backend.samples : IsSeriesOf(list[j], t, kind, spec.selector)
            BY <2>2 DEF AreSeries
        <3>3. /\ HostName \in DOMAIN t.labels /\ t.labels[HostName] = h /\ t.kind = kind
              /\ x = Attached(t, kind)
            BY <3>1, <3>2 DEF IsSeriesOf
        <3>4. QED BY <2>4, <3>3 DEF AttributesOf
    <2>7. QED BY <2>5, <2>6
<1>2. GatherInv => SeriesStayApart
    BY <1>1
<1>3. QED BY <1>2, AnswersAreOfTheBackend, PTL

-------------------------------------------------------------------------------
(***************************************************************************)
(* What charts are drawn from and alerts are judged on.                    *)
(***************************************************************************)
LEMMA ObsListsAnswers ==
    ASSUME GatherInv, obs # None
    PROVE  ListsAnswers(obs)
<1>1. Len(Queries) \in Nat /\ DOMAIN Queries = 1 .. Len(Queries)
    BY QueriesAre
<1>2. /\ DOMAIN obs.series = DOMAIN Queries
      /\ \A i \in DOMAIN Queries :
            obs.series[i].result.ok =>
               AreSeries(obs.series[i].result.series, backend.samples,
                         obs.series[i].spec.metric, obs.series[i].spec.selector)
    BY DEF GatherInv, ObsInv, ObsHolds, SeriesHold
<1>3. QED BY <1>1, <1>2 DEF ListsAnswers, AreSeries

(* The series a poll holds of a pair are answers to a query that covers it. *)
LEMMA MatchingHolds ==
    ASSUME GatherInv, obs # None, NEW h, NEW metric, NEW p \in Matching(obs, h, metric)
    PROVE  /\ p[1] \in DOMAIN Queries /\ Queries[p[1]].metric = metric
           /\ obs.series[p[1]].result.ok
           /\ p[2] \in DOMAIN obs.series[p[1]].result.series
           /\ obs.series[p[1]].result.series[p[2]].host = h
           /\ p = << p[1], p[2] >>
<1> DEFINE rows(i) == {i} \X DOMAIN obs.series[i].result.series
<1>1. PICK i \in AnswersAbout(obs, h, metric) : p \in rows(i)
    BY DEF Matching
<1>2. p[1] = i /\ p[2] \in DOMAIN obs.series[i].result.series /\ p = << p[1], p[2] >>
    BY <1>1
<1>3. IsOf(obs.series[p[1]].result.series[p[2]], h, metric)
    BY DEF Matching
<1>4. DOMAIN obs.series = DOMAIN Queries /\ \A j \in DOMAIN Queries : obs.series[j].spec = Queries[j]
    BY DEF GatherInv, ObsInv, ObsHolds
<1>5. i \in DOMAIN Queries /\ Queries[i].metric = metric /\ obs.series[i].result.ok
    BY <1>4 DEF AnswersAbout, Covers
<1>6. QED BY <1>2, <1>3, <1>5 DEF IsOf

(* A series answered to a request about one host is that host's.             *)
LEMMA IsSeriesOfHost ==
    ASSUME NEW y, NEW s, NEW kind, NEW selector, IsSeriesOf(y, s, kind, selector),
           NEW h, selector = SelectHost(h)
    PROVE  y.host = h /\ y.kind = kind
BY DEF IsSeriesOf, Matches, SelectHost

(* Of the two requests of a metric the detailed one is what stays: no later  *)
(* request of the plan asks for its metric.                                *)
LEMMA DetailStays ==
    ASSUME GatherInv, obs # None, NEW i \in DOMAIN obs.series,
           obs.series[i].spec.selector # SelectAll, Answered(i),
           NEW s \in ToSet(obs.series[i].result.series),
           NEW focus, focus = FleetConfig.focus,
           NEW metric, metric = obs.series[i].spec.metric
    PROVE  s \in ToSet(SeriesFor(obs, focus, metric))
<1> DEFINE list == obs.series[i].result.series
           all == SeriesFor(obs, focus, metric)
           at(q) == obs.series[q[1]].result.series[q[2]]
<1>1. /\ DOMAIN obs.series = DOMAIN Queries /\ obs.series[i].spec = Queries[i]
      /\ obs.series[i].result.ok
      /\ AreSeries(list, backend.samples, metric, Queries[i].selector)
    BY DEF GatherInv, ObsInv, ObsHolds, SeriesHold, Answered
<1>2. /\ Len(Queries) \in Nat /\ DOMAIN Queries = 1 .. Len(Queries)
      /\ Queries[i].selector = SelectHost(focus) /\ metric = Queries[i].metric
      /\ \A j \in DOMAIN Queries : i < j => Queries[j].metric # metric
    BY <1>1, QueriesAre
<1>3. PICK j \in DOMAIN list : list[j] = s
    BY DEF ToSet
<1>4. PICK m \in Nat :
          /\ DOMAIN list = 1 .. m
          /\ \A a \in 1 .. m : \E x \in backend.samples :
                IsSeriesOf(list[a], x, metric, Queries[i].selector)
          /\ \A a, b \in 1 .. m :
                list[a].host = list[b].host /\ list[a].attributes = list[b].attributes => a = b
    BY <1>1 DEF AreSeries
<1>5. list[j].host = focus /\ list[j].kind = metric
    <2>1. PICK x \in backend.samples : IsSeriesOf(list[j], x, metric, Queries[i].selector)
        BY <1>3, <1>4
    <2>2. Queries[i].selector = SelectHost(focus)
        BY <1>2
    <2>3. QED BY <2>1, <2>2, IsSeriesOfHost
<1> DEFINE p == << i, j >>
<1>6. p \in Matching(obs, focus, metric) /\ p[1] = i /\ p[2] = j
    <2>1. Matches(obs.series[i].spec.selector, focus)
        BY <1>1, <1>2 DEF Matches, SelectHost
    <2>2. i \in AnswersAbout(obs, focus, metric)
        BY <1>1, <2>1 DEF AnswersAbout, Covers
    <2>3. p \in {i} \X DOMAIN obs.series[i].result.series
        BY <1>3
    <2>4. IsOf(obs.series[p[1]].result.series[p[2]], focus, metric)
        BY <1>5 DEF IsOf
    <2>5. QED BY <2>2, <2>3, <2>4 DEF Matching
<1>7. ASSUME NEW q \in Matching(obs, focus, metric), at(q).attributes = at(p).attributes
      PROVE  ~CameBefore(p, q)
    <2>1. /\ q[1] \in DOMAIN Queries /\ Queries[q[1]].metric = metric
          /\ q[2] \in DOMAIN obs.series[q[1]].result.series /\ at(q).host = focus
        BY MatchingHolds
    <2>2. ~(i < q[1])
        BY <1>2, <2>1
    <2>3. CASE q[1] = i
        <3>1. q[2] \in 1 .. m /\ j \in 1 .. m /\ list[q[2]].host = list[j].host
              /\ list[q[2]].attributes = list[j].attributes
            BY <1>3, <1>4, <1>5, <1>6, <1>7, <2>1, <2>3
        <3>2. q[2] = j
            BY <1>4, <3>1
        <3>3. QED BY <1>6, <2>2, <2>3, <3>1, <3>2 DEF CameBefore
    <2>4. CASE q[1] # i
        BY <1>6, <2>2, <2>4 DEF CameBefore
    <2>5. QED BY <2>3, <2>4
<1>8. ListsAnswers(obs)
    BY ObsListsAnswers
<1>9. at(p) = s
    BY <1>3, <1>6
<1> HIDE DEF p
<1>10. PICK n \in DOMAIN all : all[n] = at(p)
    BY <1>6, <1>7, <1>8, SeriesForHasLast
<1>11. s \in ToSet(all)
    BY <1>9, <1>10 DEF ToSet
<1>12. QED BY <1>11

LEMMA RatesAreRight ==
    ASSUME GatherInv, obs # None, NEW i \in DOMAIN obs.series, Answered(i),
           NEW s \in ToSet(obs.series[i].result.series), IsRate(s.kind),
           NEW p \in ToSet(Normalize(s).points)
    PROVE  0 <= p.value /\ \E v \in {q.value : q \in ToSet(s.points)} : p.value <= v * Second
<1>1. PICK j \in DOMAIN obs.series[i].result.series : s = obs.series[i].result.series[j]
    BY DEF ToSet
<1>2. AreSeries(obs.series[i].result.series, backend.samples, obs.series[i].spec.metric,
                obs.series[i].spec.selector)
    BY DEF GatherInv, ObsInv, ObsHolds, SeriesHold, Answered
<1>3. "points" \in DOMAIN s /\ IsTrace(s.points, s.kind)
    BY <1>1, <1>2 DEF AreSeries, IsSeriesOf
<1>4. s.kind \in Counters
    BY DEF IsRate, Normalization, Counters
<1>5. PICK k \in Nat :
          /\ DOMAIN s.points = 1 .. k
          /\ \A a \in 1 .. k : s.points[a].at \in Int /\ s.points[a].value \in Nat
    BY <1>3, <1>4 DEF IsTrace
<1>6. PICK perSecond \in BOOLEAN : Normalize(s).points = Differenced(s.points, perSecond)
    <2>1. CASE Normalization(s.kind) = "RatePerSecond"
        <3>1. Normalize(s) = [s EXCEPT !.points = Differenced(s.points, TRUE)]
            BY <2>1 DEF Normalize
        <3>2. QED BY <1>3, <3>1
    <2>2. CASE Normalization(s.kind) = "Delta"
        <3>1. Normalize(s) = [s EXCEPT !.points = Differenced(s.points, FALSE)]
            BY <2>2 DEF Normalize
        <3>2. QED BY <1>3, <3>1
    <2>3. QED BY <2>1, <2>2 DEF IsRate, Normalization
<1> DEFINE points == s.points
           d == Differenced(points, perSecond)
<1>7. PICK n \in DOMAIN d : p = d[n]
    BY <1>6 DEF ToSet
<1>8. DOMAIN points = 1 .. k /\ \A a \in 1 .. k : points[a].at \in Int /\ points[a].value \in Nat
    BY <1>5
<1> HIDE DEF points, d
<1>9. 0 <= d[n].value /\ \E a \in 1 .. k : d[n].value <= points[a].value * Second
    BY <1>7, <1>8, DifferencedIs DEF d
<1>10. \A a \in 1 .. k : points[a] \in ToSet(points)
    BY <1>8 DEF ToSet
<1>11. QED BY <1>7, <1>9, <1>10 DEF points

(* Of finitely many finite sets the union is finite.                       *)
LEMMA UnionIsFinite ==
    ASSUME NEW S, IsFiniteSet(S), NEW f, DOMAIN f = S, f = [x \in S |-> f[x]],
           \A x \in S : IsFiniteSet(f[x])
    PROVE  IsFiniteSet(UNION {f[x] : x \in S})
<1> DEFINE T == {f[x] : x \in S}
<1>1. IsFiniteSet(T)
    BY ImageIsFinite
<1>2. \A U \in T : IsFiniteSet(U)
    OBVIOUS
<1> HIDE DEF T
<1>3. IsFiniteSet(UNION T)
    BY <1>1, <1>2, FS_UNION
<1>4. QED BY <1>3 DEF T

(* Series with their points in order.                                      *)
AreTraced(all) ==
    /\ \E n \in Nat : DOMAIN all = 1 .. n
    /\ \A c \in DOMAIN all : IsTrace(all[c].points, all[c].kind)

LEMMA TracesAreFinite ==
    ASSUME NEW all, AreTraced(all), NEW at
    PROVE  /\ IsFiniteSet(ToSet(all))
           /\ LET instants == UNION {{s.points[i].at : i \in DOMAIN s.points} : s \in ToSet(all)}
              IN IsFiniteSet(instants) /\ instants \in SUBSET Int
           /\ IsFiniteSet(ValuesAt(all, at)) /\ ValuesAt(all, at) \in SUBSET Int
<1> DEFINE S == ToSet(all)
           atsOf(s) == {s.points[i].at : i \in DOMAIN s.points}
           here(s) == {j \in DOMAIN s.points : s.points[j].at = at}
           worthOf(s) == {s.points[i].value : i \in here(s)}
           ats == [s \in S |-> atsOf(s)]
           worths == [s \in S |-> worthOf(s)]
<1>1. IsFiniteSet(S)
    <2>1. PICK n \in Nat : DOMAIN all = 1 .. n
        BY DEF AreTraced
    <2> DEFINE D == 1 .. n
               f == [c \in D |-> all[c]]
    <2>2. IsFiniteSet(D)
        BY IntervalIsFinite
    <2>3. S = {f[c] : c \in D} /\ DOMAIN f = D /\ f = [c \in D |-> f[c]]
        BY <2>1 DEF ToSet
    <2> HIDE DEF D, f
    <2>4. IsFiniteSet({f[c] : c \in D})
        BY <2>2, <2>3, ImageIsFinite
    <2>5. QED BY <2>3, <2>4
<1>2. \A s \in S : \E k \in Nat :
         /\ DOMAIN s.points = 1 .. k
         /\ \A i \in 1 .. k : s.points[i].at \in Int /\ s.points[i].value \in Int
    BY DEF AreTraced, IsTrace, ToSet
<1> HIDE DEF S
<1>3. ASSUME NEW s \in S PROVE IsFiniteSet(atsOf(s)) /\ IsFiniteSet(worthOf(s))
    <2>1. PICK k \in Nat : DOMAIN s.points = 1 .. k
        BY <1>2
    <2> DEFINE D == 1 .. k
               H == here(s)
               f == [i \in D |-> s.points[i].at]
               g == [i \in H |-> s.points[i].value]
    <2>2. IsFiniteSet(D)
        BY IntervalIsFinite
    <2>3. H \in SUBSET D
        BY <2>1
    <2>4. atsOf(s) = {f[i] : i \in D} /\ DOMAIN f = D /\ f = [i \in D |-> f[i]]
        BY <2>1
    <2>5. worthOf(s) = {g[i] : i \in H} /\ DOMAIN g = H /\ g = [i \in H |-> g[i]]
        OBVIOUS
    <2> HIDE DEF D, H, f, g
    <2>6. IsFiniteSet(H)
        BY <2>2, <2>3, FS_Subset
    <2>7. IsFiniteSet({f[i] : i \in D})
        BY <2>2, <2>4, ImageIsFinite
    <2>8. IsFiniteSet({g[i] : i \in H})
        BY <2>5, <2>6, ImageIsFinite
    <2>9. QED BY <2>4, <2>5, <2>7, <2>8
<1> DEFINE instants == UNION {atsOf(s) : s \in S}
           values == UNION {worthOf(s) : s \in S}
<1>4. instants \in SUBSET Int /\ values \in SUBSET Int
    BY <1>2
<1> HIDE DEF atsOf, worthOf
<1>5. /\ instants = UNION {ats[s] : s \in S} /\ DOMAIN ats = S /\ ats = [s \in S |-> ats[s]]
      /\ \A s \in S : IsFiniteSet(ats[s])
    BY <1>3
<1>6. /\ values = UNION {worths[s] : s \in S} /\ DOMAIN worths = S
      /\ worths = [s \in S |-> worths[s]]
      /\ \A s \in S : IsFiniteSet(worths[s])
    BY <1>3
<1>7. values = ValuesAt(all, at)
    BY DEF ValuesAt, S, worthOf
<1>8. instants = UNION {{s.points[i].at : i \in DOMAIN s.points} : s \in ToSet(all)}
    BY DEF S, atsOf
<1> HIDE DEF instants, values, ats, worths
<1>9. IsFiniteSet(UNION {ats[s] : s \in S})
    BY <1>1, <1>5, UnionIsFinite
<1>10. IsFiniteSet(UNION {worths[s] : s \in S})
    BY <1>1, <1>6, UnionIsFinite
<1>11. IsFiniteSet(instants) /\ IsFiniteSet(values)
    BY <1>5, <1>6, <1>9, <1>10
<1>12. QED BY <1>1, <1>4, <1>7, <1>8, <1>11 DEF S

(* What a reduction ends with is the best value at an instant some series has. *)
LEMMA ReducedIs ==
    ASSUME NEW all, AreTraced(all), all # << >>, NEW reduction,
           NEW reduced, reduced = Reduce(all, reduction), reduced # << >>,
           NEW newest, newest = reduced[Len(reduced)]
    PROVE  /\ newest.value \in ValuesAt(all, newest.at)
           /\ \A w \in ValuesAt(all, newest.at) : ~Beats(reduction, w, newest.value)
<1> DEFINE instants == UNION {{s.points[i].at : i \in DOMAIN s.points} : s \in ToSet(all)}
           order == Ascending(instants)
           N == 1 .. Cardinality(instants)
           atOf(m) == [at |-> order[m], value |-> Best(reduction, ValuesAt(all, order[m]))]
<1>1. IsFiniteSet(instants) /\ instants \in SUBSET Int
    BY TracesAreFinite
<1>2. reduced = [m \in DOMAIN order |-> atOf(m)]
    BY DEF Reduce
<1>3. ASSUME NEW x \in instants PROVE ValuesAt(all, x) # {}
    <2>0. PICK s \in ToSet(all) : \E i \in DOMAIN s.points : s.points[i].at = x
        OBVIOUS
    <2>1. PICK i \in DOMAIN s.points : s.points[i].at = x
        BY <2>0
    <2> DEFINE worthOf(t) == {t.points[j].value : j \in {m \in DOMAIN t.points : t.points[m].at = x}}
    <2>2. s.points[i].value \in worthOf(s)
        BY <2>1
    <2>3. ValuesAt(all, x) = UNION {worthOf(t) : t \in ToSet(all)}
        BY DEF ValuesAt
    <2> HIDE DEF worthOf
    <2>4. QED BY <2>2, <2>3
<1> HIDE DEF instants
<1>4. Cardinality(instants) \in Nat /\ order \in [N -> instants]
    BY <1>1, AscendingOf
<1> DEFINE c == Cardinality(instants)
           V == {reduced[m] : m \in 1 .. c}
<1>5. DOMAIN reduced = 1 .. c /\ reduced \in [1 .. c -> V] /\ c \in Nat
    BY <1>2, <1>4
<1> HIDE DEF V, c
<1>6. reduced \in Seq(V)
    BY <1>5, ListIsASeq
<1>7. Len(reduced) \in Nat \ {0} /\ DOMAIN reduced = 1 .. Len(reduced)
    BY <1>6, EmptySeq, LenProperties
<1> DEFINE l == Len(reduced)
<1>8. l \in DOMAIN order
    <2>1. l \in DOMAIN reduced
        BY <1>7
    <2> HIDE DEF l, order
    <2>2. QED BY <1>2, <2>1
<1>9. order[l] \in instants
    BY <1>4, <1>8
<1>10. newest = atOf(l)
    BY <1>2, <1>8
<1> HIDE DEF l, order
<1>11. PICK x \in instants : x = order[l]
    BY <1>9
<1>12. newest.at = x /\ newest.value = Best(reduction, ValuesAt(all, x))
    BY <1>10, <1>11
<1> DEFINE values == ValuesAt(all, x)
<1>13. IsFiniteSet(values) /\ values \in SUBSET Int /\ values # {}
    BY <1>3, TracesAreFinite
<1> HIDE DEF values
<1>14. PICK best : best = Best(reduction, values)
    OBVIOUS
<1>15. best \in values /\ \A w \in values : ~Beats(reduction, w, best)
    BY <1>13, <1>14, BestOf
<1>16. QED BY <1>12, <1>14, <1>15 DEF values

(* Over the threshold exactly when some series is.                         *)
LEMMA ReductionJudges ==
    ASSUME NEW comparator \in {">", "<="}, NEW values \in SUBSET Int, NEW best \in values,
           \A w \in values : ~Beats(ReductionFor(comparator), w, best),
           NEW threshold \in Int
    PROVE  Evaluate(comparator, best, threshold)
             <=> \E w \in values : Evaluate(comparator, w, threshold)
<1>1. CASE comparator = ">"
    <2>1. ReductionFor(comparator) = "Max"
        BY <1>1 DEF ReductionFor
    <2>2. \A w \in values : ~(w > best)
        BY <2>1 DEF Beats
    <2>3. \A w : Evaluate(comparator, w, threshold) <=> w > threshold
        BY <1>1 DEF Evaluate
    <2>4. QED BY <2>2, <2>3
<1>2. CASE comparator = "<="
    <2>1. ReductionFor(comparator) = "Min"
        BY <1>2 DEF ReductionFor
    <2>2. \A w \in values : ~(w < best)
        BY <2>1 DEF Beats
    <2>3. \A w : Evaluate(comparator, w, threshold) <=> w <= threshold
        BY <1>2 DEF Evaluate
    <2>4. QED BY <2>2, <2>3
<1>3. QED BY <1>1, <1>2

(* dominant_at looks at the series, not at their order.                    *)
FirstAt(s, at) ==
    LET here == {i \in DOMAIN s.points : s.points[i].at = at}
    IN s.points[CHOOSE i \in here : \A j \in here : i <= j].value

HoldingAt(S, at) == {s \in S : \E i \in DOMAIN s.points : s.points[i].at = at}

WinsAt(s, r, at, reduction, below) ==
    \/ Beats(reduction, FirstAt(s, at), FirstAt(r, at))
    \/ FirstAt(s, at) = FirstAt(r, at) /\ << r.attributes, s.attributes >> \notin below

DominantOf(S, at, reduction, below) ==
    IF HoldingAt(S, at) = {} THEN None
    ELSE CHOOSE s \in HoldingAt(S, at) :
            \A r \in HoldingAt(S, at) : WinsAt(s, r, at, reduction, below)

LEMMA DominantIsOfTheSet ==
    ASSUME NEW all, NEW at, NEW reduction, NEW below
    PROVE  DominantAt(all, at, reduction, below) = DominantOf(ToSet(all), at, reduction, below)
BY DEF DominantAt, DominantOf, HoldingAt, WinsAt, FirstAt

LEMMA SameDominant ==
    ASSUME NEW all, NEW other, ToSet(all) = ToSet(other), NEW at, NEW reduction, NEW below
    PROVE  DominantAt(all, at, reduction, below) = DominantAt(other, at, reduction, below)
<1>1. DominantAt(all, at, reduction, below) = DominantOf(ToSet(all), at, reduction, below)
    BY DominantIsOfTheSet
<1>2. DominantAt(other, at, reduction, below) = DominantOf(ToSet(other), at, reduction, below)
    BY DominantIsOfTheSet
<1>3. QED BY <1>1, <1>2

(* A list backwards has the same members.                                  *)
LEMMA BackwardsIsTheSame ==
    ASSUME NEW V, NEW s \in Seq(V)
    PROVE  ToSet(Reverse(s)) = ToSet(s)
<1> DEFINE n == Len(s)
           back == Reverse(s)
<1>1. n \in Nat /\ DOMAIN s = 1 .. n
    BY LenProperties
<1>2. back = [i \in 1 .. n |-> s[(n - i) + 1]]
    BY DEF Reverse
<1> HIDE DEF n, back
<1>3. ASSUME NEW i \in DOMAIN back PROVE \E j \in DOMAIN s : s[j] = back[i]
    <2>1. (n - i) + 1 \in 1 .. n /\ back[i] = s[(n - i) + 1]
        BY <1>1, <1>2
    <2>2. QED BY <1>1, <2>1
<1>4. ASSUME NEW j \in DOMAIN s PROVE \E i \in DOMAIN back : back[i] = s[j]
    <2> DEFINE i == (n - j) + 1
    <2>1. i \in 1 .. n /\ (n - i) + 1 = j
        BY <1>1
    <2> HIDE DEF i
    <2>2. i \in DOMAIN back /\ back[i] = s[j]
        BY <1>2, <2>1
    <2>3. QED BY <2>2
<1>5. \A x : x \in ToSet(s) <=> \E j \in DOMAIN s : s[j] = x
    BY DEF ToSet
<1>6. \A x : x \in ToSet(back) <=> \E i \in DOMAIN back : back[i] = x
    BY DEF ToSet
<1>7. ToSet(back) = ToSet(s)
    BY <1>3, <1>4, <1>5, <1>6
<1>8. QED BY <1>7 DEF back

LEMMA ListIsOfAll ==
    ASSUME NEW A, IsFiniteSet(A), NEW list, list = SetToSeq(A)
    PROVE  /\ Cardinality(A) \in Nat /\ list \in [1 .. Cardinality(A) -> A]
           /\ IsInjective(list)
           /\ \A y \in A : \E a \in 1 .. Cardinality(A) : list[a] = y
BY ListOf, ListHasAll

(* Attribute sets in an order, and the pairs of it.                        *)
RanksOf(all) == SetToSeq({s.attributes : s \in ToSet(all)})

PairsOf(ranks) ==
    {<< ranks[p[1]], ranks[p[2]] >> :
       p \in {q \in (DOMAIN ranks) \X (DOMAIN ranks) : q[1] < q[2]}}

(* The series an alert names holds the reduced value.                      *)
LEMMA DominantIs ==
    ASSUME NEW all, AreTraced(all), NEW at, NEW reduction,
           NEW best \in ValuesAt(all, at),
           \A w \in ValuesAt(all, at) : ~Beats(reduction, w, best),
           NEW ranks, ranks = RanksOf(all), NEW below, below = PairsOf(ranks),
           NEW named, named = DominantAt(all, at, reduction, below)
    PROVE  \E p \in ToSet(named.points) : p.at = at /\ p.value = best
<1> DEFINE S == ToSet(all)
           A == {s.attributes : s \in S}
           H == HoldingAt(S, at)
           first(s) == FirstAt(s, at)
           wins(s, r) == WinsAt(s, r, at, reduction, below)
           m == Cardinality(A)
<1>1. IsFiniteSet(S) /\ ValuesAt(all, at) \in SUBSET Int
    BY TracesAreFinite
<1>2. ASSUME NEW s \in S, NEW i \in DOMAIN s.points, s.points[i].at = at
      PROVE  s \in H /\ first(s) = s.points[i].value /\ first(s) \in ValuesAt(all, at)
    <2>1. PICK k \in Nat :
              /\ DOMAIN s.points = 1 .. k
              /\ \A a, b \in 1 .. k : b < a => s.points[b].at < s.points[a].at
              /\ \A a \in 1 .. k : s.points[a].at \in Int
        BY DEF AreTraced, IsTrace, ToSet
    <2> DEFINE here == {j \in DOMAIN s.points : s.points[j].at = at}
    <2>2. here = {i}
        <3> SUFFICES ASSUME NEW j \in here PROVE j = i
            BY <1>2
        <3>1. i \in 1 .. k /\ j \in 1 .. k /\ s.points[i].at = s.points[j].at
              /\ s.points[i].at \in Int
            BY <1>2, <2>1
        <3>2. ~(i < j) /\ ~(j < i)
            BY <2>1, <3>1
        <3>3. QED BY <3>1, <3>2
    <2>3. i \in Int
        BY <2>1
    <2>4. first(s) = s.points[CHOOSE a \in here : \A b \in here : a <= b].value
        BY DEF FirstAt
    <2> HIDE DEF here
    <2>5. (CHOOSE a \in here : \A b \in here : a <= b) = i
        BY <2>2, <2>3
    <2>6. first(s) = s.points[i].value
        BY <2>4, <2>5
    <2> DEFINE worthOf(t) == {t.points[a].value : a \in {b \in DOMAIN t.points : t.points[b].at = at}}
    <2>7. s.points[i].value \in worthOf(s)
        BY <1>2
    <2>8. ValuesAt(all, at) = UNION {worthOf(t) : t \in S}
        BY DEF ValuesAt
    <2>9. s \in H
        BY <1>2 DEF HoldingAt
    <2> HIDE DEF worthOf
    <2>10. s.points[i].value \in ValuesAt(all, at)
        BY <2>7, <2>8
    <2>11. QED BY <2>6, <2>9, <2>10
<1>3. \A s \in H : \E i \in DOMAIN s.points :
         /\ s.points[i].at = at /\ first(s) = s.points[i].value
         /\ s \in S /\ first(s) \in ValuesAt(all, at)
    BY <1>2 DEF HoldingAt
<1>4. PICK x \in H : first(x) = best
    <2> DEFINE worthOf(t) == {t.points[a].value : a \in {b \in DOMAIN t.points : t.points[b].at = at}}
    <2>1. ValuesAt(all, at) = UNION {worthOf(t) : t \in S}
        BY DEF ValuesAt
    <2> HIDE DEF worthOf
    <2>2. PICK s \in S : best \in worthOf(s)
        BY <2>1
    <2>3. PICK i \in DOMAIN s.points : s.points[i].at = at /\ s.points[i].value = best
        BY <2>2 DEF worthOf
    <2>4. QED BY <1>2, <2>3
<1>5. H \in SUBSET S
    BY DEF HoldingAt
<1>6. /\ m \in Nat /\ ranks \in [1 .. m -> A] /\ IsInjective(ranks)
      /\ \A y \in A : \E a \in 1 .. m : ranks[a] = y
    <2>1. IsFiniteSet(A)
        <3> DEFINE f == [s \in S |-> s.attributes]
        <3>1. A = {f[s] : s \in S} /\ DOMAIN f = S /\ f = [s \in S |-> f[s]]
            OBVIOUS
        <3> HIDE DEF S, f, A
        <3>2. QED BY <1>1, <3>1, ImageIsFinite
    <2>2. ranks = SetToSeq(A)
        BY DEF RanksOf
    <2> HIDE DEF A
    <2>3. QED BY <2>1, <2>2, ListIsOfAll
<1>7. DOMAIN ranks = 1 .. m
    BY <1>6
<1>8. PICK s \in H : first(s) = best /\ \A r \in H : wins(s, r)
    <2> DEFINE tied == {r \in H : first(r) = best}
               places == {a \in 1 .. m : \E r \in tied : ranks[a] = r.attributes}
    <2>1. x \in tied /\ \A r \in tied : r.attributes \in A
        BY <1>4, <1>5
    <2>2. places \in SUBSET Nat /\ places # {}
        <3>1. PICK a \in 1 .. m : ranks[a] = x.attributes
            BY <1>6, <2>1
        <3>2. a \in places /\ places \in SUBSET (1 .. m)
            BY <2>1, <3>1
        <3>3. m \in Nat
            BY <1>6
        <3> HIDE DEF places, m
        <3>4. QED BY <3>2, <3>3
    <2>3. PICK a \in places : \A b \in places : a <= b
        BY <2>2, LeastOf
    <2>4. PICK s \in tied : ranks[a] = s.attributes
        BY <2>3
    <2>5. ASSUME NEW r \in H PROVE wins(s, r)
        <3>1. first(s) = best /\ best \in Int
            BY <1>1, <2>4
        <3>2. first(r) \in ValuesAt(all, at) /\ first(r) \in Int
            BY <1>1, <1>3
        <3>3. ~Beats(reduction, first(r), best)
            BY <3>2
        <3>4. CASE first(r) = best
            <4>1. << r.attributes, s.attributes >> \notin below
                <5> SUFFICES ASSUME << r.attributes, s.attributes >> \in below PROVE FALSE
                    OBVIOUS
                <5>1. PICK c, d \in 1 .. m : /\ c < d /\ ranks[c] = r.attributes
                                             /\ ranks[d] = s.attributes
                    <6>1. PICK p \in (DOMAIN ranks) \X (DOMAIN ranks) :
                              /\ p[1] < p[2]
                              /\ << r.attributes, s.attributes >> = << ranks[p[1]], ranks[p[2]] >>
                        BY DEF PairsOf
                    <6>2. p[1] \in 1 .. m /\ p[2] \in 1 .. m
                        BY <1>7, <6>1
                    <6> HIDE DEF m
                    <6>3. QED BY <6>1, <6>2
                <5>2. d = a
                    BY <1>6, <2>3, <2>4, <5>1 DEF IsInjective
                <5>3. c \in places
                    BY <3>4, <5>1
                <5>4. c \in Nat /\ a \in Nat /\ a <= c /\ c < a
                    BY <2>2, <2>3, <5>1, <5>2, <5>3
                <5>5. QED BY <5>4
            <4>2. QED BY <3>1, <3>4, <4>1 DEF WinsAt
        <3>5. CASE first(r) # best
            <4> DEFINE v == first(r)
            <4>1. v \in Int /\ best \in Int /\ v # best /\ ~Beats(reduction, v, best)
                BY <3>1, <3>2, <3>3, <3>5
            <4> HIDE DEF v
            <4>2. Beats(reduction, best, v)
                BY <4>1 DEF Beats
            <4>3. QED BY <3>1, <4>2 DEF WinsAt, v
        <3>6. QED BY <3>4, <3>5
    <2>6. QED BY <2>4, <2>5
<1>9. named = CHOOSE t \in H : \A r \in H : wins(t, r)
    <2>1. named = DominantOf(S, at, reduction, below)
        BY DominantIsOfTheSet
    <2>2. QED BY <1>8, <2>1 DEF DominantOf
<1> HIDE DEF H, S
<1>10. named \in H /\ wins(named, s)
    BY <1>8, <1>9
<1>11. first(named) \in ValuesAt(all, at) /\ ~Beats(reduction, first(named), best)
    BY <1>3, <1>10
<1>12. first(named) = best
    BY <1>8, <1>10, <1>11 DEF WinsAt
<1>13. PICK i \in DOMAIN named.points : named.points[i].at = at /\ named.points[i].value = best
    BY <1>3, <1>10, <1>12
<1>14. QED BY <1>13 DEF ToSet

LEMMA SeriesAreTraced ==
    ASSUME GatherInv, obs # None, NEW h, NEW metric, NEW all, all = SeriesFor(obs, h, metric)
    PROVE  AreTraced(all) /\ \E V : all \in Seq(V)
<1>1. ListsAnswers(obs)
    BY ObsListsAnswers
<1>2. PICK n \in Nat :
          /\ DOMAIN all = 1 .. n /\ all = [c \in 1 .. n |-> all[c]]
          /\ \A c \in 1 .. n : \E p \in Matching(obs, h, metric) :
                all[c] = obs.series[p[1]].result.series[p[2]]
    BY <1>1, SeriesForOf
<1>3. ASSUME NEW c \in 1 .. n PROVE IsTrace(all[c].points, all[c].kind)
    <2>1. PICK p \in Matching(obs, h, metric) : all[c] = obs.series[p[1]].result.series[p[2]]
        BY <1>2
    <2>2. /\ p[1] \in DOMAIN Queries /\ obs.series[p[1]].result.ok
          /\ p[2] \in DOMAIN obs.series[p[1]].result.series
        BY MatchingHolds
    <2>3. AreSeries(obs.series[p[1]].result.series, backend.samples,
                    Queries[p[1]].metric, Queries[p[1]].selector)
        BY <2>2 DEF GatherInv, ObsInv, ObsHolds, SeriesHold
    <2>4. PICK list, kind, selector :
              /\ list = obs.series[p[1]].result.series /\ kind = Queries[p[1]].metric
              /\ selector = Queries[p[1]].selector
        OBVIOUS
    <2>5. AreSeries(list, backend.samples, kind, selector) /\ p[2] \in DOMAIN list
          /\ all[c] = list[p[2]]
        BY <2>1, <2>2, <2>3, <2>4
    <2>6. \A j \in DOMAIN list : IsTrace(list[j].points, list[j].kind)
        BY <2>5 DEF AreSeries, IsSeriesOf
    <2>7. QED BY <2>5, <2>6
<1>4. AreTraced(all)
    <2>1. \A c \in DOMAIN all : IsTrace(all[c].points, all[c].kind)
        BY <1>2, <1>3
    <2>2. \E m \in Nat : DOMAIN all = 1 .. m
        BY <1>2
    <2>3. QED BY <2>1, <2>2 DEF AreTraced
<1>5. all = [c \in 1 .. n |-> all[c]]
    BY <1>2
<1> DEFINE V == {all[c] : c \in 1 .. n}
<1>6. all \in [1 .. n -> V]
    BY <1>2, <1>5
<1> HIDE DEF V
<1>7. all \in Seq(V)
    BY <1>6, ListIsASeq
<1>8. QED BY <1>4, <1>7

LEMMA ThresholdsAreNumbers ==
    ASSUME GatherInv, obs # None, NEW t \in Thresholds
    PROVE  t \in Int
<1>1. PICK i \in DOMAIN obs.series :
          /\ Answered(i)
          /\ \E x \in ToSet(obs.series[i].result.series) : \E p \in ToSet(x.points) : t = p.value
    BY DEF Thresholds
<1> DEFINE list == obs.series[i].result.series
<1>2. PICK x \in ToSet(list) : \E p \in ToSet(x.points) : t = p.value
    BY <1>1
<1>3. PICK j \in DOMAIN list : x = list[j]
    BY DEF ToSet
<1>4. AreSeries(list, backend.samples, obs.series[i].spec.metric, obs.series[i].spec.selector)
    BY <1>1 DEF GatherInv, ObsInv, ObsHolds, SeriesHold, Answered
<1>5. IsTrace(x.points, x.kind)
    BY <1>3, <1>4 DEF AreSeries, IsSeriesOf
<1>6. QED BY <1>2, <1>5 DEF IsTrace, ToSet

Judges(comparator, all) ==
    LET ranks == RanksOf(all)
        below == PairsOf(ranks)
        reduction == ReductionFor(comparator)
        reduced == IF all = << >> THEN << >> ELSE Reduce(all, reduction)
        newest == reduced[Len(reduced)]
        named == DominantAt(all, newest.at, reduction, below)
    IN reduced # << >> =>
         /\ \A threshold \in Thresholds :
              Evaluate(comparator, newest.value, threshold) <=>
                \E s \in ToSet(all) : \E p \in ToSet(s.points) :
                   p.at = newest.at /\ Evaluate(comparator, p.value, threshold)
         /\ \E p \in ToSet(named.points) :
               p.at = newest.at /\ p.value = newest.value
         /\ named = DominantAt(Reverse(all), newest.at, reduction, below)

(* At the newest instant any series has, the reduced value judges them all,  *)
(* and the series an alert names holds it.                                 *)
LEMMA ReductionIsRight ==
    ASSUME GatherInv, obs # None, NEW metric, NEW focus, NEW comparator \in {">", "<="},
           NEW all, all = SeriesFor(obs, focus, metric),
           NEW ranks, ranks = RanksOf(all), NEW below, below = PairsOf(ranks),
           NEW reduction, reduction = ReductionFor(comparator),
           NEW reduced, reduced = IF all = << >> THEN << >> ELSE Reduce(all, reduction),
           NEW newest, newest = reduced[Len(reduced)],
           NEW named, named = DominantAt(all, newest.at, reduction, below),
           reduced # << >>
    PROVE  /\ \A threshold \in Thresholds :
                Evaluate(comparator, newest.value, threshold) <=>
                  \E s \in ToSet(all) : \E p \in ToSet(s.points) :
                     p.at = newest.at /\ Evaluate(comparator, p.value, threshold)
           /\ \E p \in ToSet(named.points) :
                 p.at = newest.at /\ p.value = newest.value
           /\ named = DominantAt(Reverse(all), newest.at, reduction, below)
<1>1. AreTraced(all)
    BY SeriesAreTraced
<1>2. all # << >> /\ reduced = Reduce(all, reduction)
    OBVIOUS
<1> DEFINE at == newest.at
           best == newest.value
           values == ValuesAt(all, at)
<1>3. best \in values /\ \A w \in values : ~Beats(reduction, w, best)
    BY <1>1, <1>2, ReducedIs
<1>4. values \in SUBSET Int
    BY <1>1, TracesAreFinite
<1> HIDE DEF at, best
<1>5. \A w : w \in values <=>
         \E s \in ToSet(all) : \E p \in ToSet(s.points) : p.at = at /\ p.value = w
    <2> DEFINE worthOf(s) == {s.points[i].value : i \in {j \in DOMAIN s.points : s.points[j].at = at}}
    <2>1. values = UNION {worthOf(s) : s \in ToSet(all)}
        BY DEF ValuesAt
    <2>2. \A s, w : w \in worthOf(s) <=> \E p \in ToSet(s.points) : p.at = at /\ p.value = w
        BY DEF ToSet
    <2> HIDE DEF worthOf, values
    <2>3. QED BY <2>1, <2>2
<1> HIDE DEF values
<1>6. ASSUME NEW threshold \in Thresholds
      PROVE  Evaluate(comparator, best, threshold) <=>
               \E s \in ToSet(all) : \E p \in ToSet(s.points) :
                  p.at = at /\ Evaluate(comparator, p.value, threshold)
    <2>1. threshold \in Int
        BY ThresholdsAreNumbers
    <2>2. Evaluate(comparator, best, threshold)
            <=> \E w \in values : Evaluate(comparator, w, threshold)
        BY <1>3, <1>4, <2>1, ReductionJudges
    <2>3. QED BY <1>5, <2>2
<1>7. \E p \in ToSet(named.points) : p.at = at /\ p.value = best
    <2>1. named = DominantAt(all, at, reduction, below)
        BY DEF at
    <2>2. best \in ValuesAt(all, at) /\ \A w \in ValuesAt(all, at) : ~Beats(reduction, w, best)
        BY <1>3 DEF values
    <2>3. PICK x, v : x = at /\ v = best
        OBVIOUS
    <2>4. v \in ValuesAt(all, x) /\ \A w \in ValuesAt(all, x) : ~Beats(reduction, w, v)
        BY <2>2, <2>3
    <2>5. named = DominantAt(all, x, reduction, below)
        BY <2>1, <2>3
    <2>6. \E p \in ToSet(named.points) : p.at = x /\ p.value = v
        BY <1>1, <2>4, <2>5, DominantIs
    <2>7. QED BY <2>3, <2>6
<1>8. named = DominantAt(Reverse(all), at, reduction, below)
    <2>1. PICK V : all \in Seq(V)
        BY SeriesAreTraced
    <2>2. ToSet(Reverse(all)) = ToSet(all)
        BY <2>1, BackwardsIsTheSame
    <2>3. PICK back : back = Reverse(all)
        OBVIOUS
    <2>4. DominantAt(all, at, reduction, below) = DominantAt(back, at, reduction, below)
        BY <2>2, <2>3, SameDominant
    <2>5. QED BY <2>3, <2>4 DEF at
<1>9. QED BY <1>6, <1>7, <1>8 DEF at, best

LEMMA AllAreJudged ==
    ASSUME GatherInv, obs # None, NEW metric, NEW focus, NEW comparator \in {">", "<="},
           NEW all, all = SeriesFor(obs, focus, metric)
    PROVE  Judges(comparator, all)
<1>1. PICK ranks : ranks = RanksOf(all)
    OBVIOUS
<1>2. PICK below : below = PairsOf(ranks)
    OBVIOUS
<1>3. PICK reduction : reduction = ReductionFor(comparator)
    OBVIOUS
<1>4. PICK reduced : reduced = IF all = << >> THEN << >> ELSE Reduce(all, reduction)
    OBVIOUS
<1>5. PICK newest : newest = reduced[Len(reduced)]
    OBVIOUS
<1>6. PICK named : named = DominantAt(all, newest.at, reduction, below)
    OBVIOUS
<1>7. ASSUME reduced # << >>
      PROVE  /\ \A threshold \in Thresholds :
                  Evaluate(comparator, newest.value, threshold) <=>
                    \E s \in ToSet(all) : \E p \in ToSet(s.points) :
                       p.at = newest.at /\ Evaluate(comparator, p.value, threshold)
             /\ \E p \in ToSet(named.points) :
                   p.at = newest.at /\ p.value = newest.value
             /\ named = DominantAt(Reverse(all), newest.at, reduction, below)
    BY <1>1, <1>2, <1>3, <1>4, <1>5, <1>6, <1>7, ReductionIsRight
<1>8. QED BY <1>1, <1>2, <1>3, <1>4, <1>5, <1>6, <1>7 DEF Judges

(* The values alerts are judged on and charts are drawn from are the agent's: *)
(* of the request that asked most of it, as rates and over all of its series *)
(* (series_for, normalized, reduce).                                       *)
THEOREM ValuesAreRight == Spec => []ValuesAreTheAgents
<1>1. ASSUME GatherInv PROVE DetailWins
    BY <1>1, DetailStays DEF DetailWins
<1>2. ASSUME GatherInv PROVE RatesAreReal
    BY <1>2, RatesAreRight DEF RatesAreReal
<1>3. ASSUME GatherInv PROVE ReductionJudgesAll
    <2>1. ReductionJudgesAll <=>
            (obs # None =>
               \A i \in DOMAIN obs.series, comparator \in {">", "<="} :
                  Judges(comparator,
                         SeriesFor(obs, FleetConfig.focus, obs.series[i].spec.metric)))
        BY DEF ReductionJudgesAll, Judges, RanksOf, PairsOf
    <2>2. QED BY <1>3, <2>1, AllAreJudged
<1>4. GatherInv => ValuesAreTheAgents
    BY <1>1, <1>2, <1>3 DEF ValuesAreTheAgents
<1>5. QED BY <1>4, AnswersAreOfTheBackend, PTL
================================================================================
