------------------------------ MODULE SeriesMath ------------------------------
(***************************************************************************)
(* Sample arithmetic (normalize.rs): a cumulative counter becomes a rate or *)
(* a delta, and the series of several attribute sets become one.  Values    *)
(* are integers: the adapter drops every sample that is not finite.         *)
(***************************************************************************)
EXTENDS Telemetry, SequencesExt

Normalization(kind) ==
    CASE kind = "NetworkIo" -> "RatePerSecond"
      [] kind = "AgentCollectionFailures" -> "Delta"
      [] OTHER -> "None"

IsRate(kind) == Normalization(kind) # "None"

\* windows(2): the positions after the first.
Later(points) == {i \in DOMAIN points : i > 1}

Falls(points, i) == points[i].value < points[i - 1].value

\* A fall is a restart of the counter: its point is dropped and the next one
\* is measured from it.  A rate over no elapsed time is dropped as well; the
\* division is rounded down here.
Differenced(points, perSecond) ==
    LET elapsed(i) == points[i].at - points[i - 1].at
        kept == {i \in Later(points) :
                    ~Falls(points, i) /\ (perSecond => elapsed(i) > 0)}
        added(i) == points[i].value - points[i - 1].value
        stamped(i) == [at |-> points[i].at,
                       value |-> IF perSecond THEN (added(i) * Second) \div elapsed(i)
                                              ELSE added(i)]
        order == Ascending(kept)
    IN [n \in DOMAIN order |-> stamped(order[n])]

Normalize(series) ==
    CASE Normalization(series.kind) = "None" -> series
      [] Normalization(series.kind) = "RatePerSecond" ->
             [series EXCEPT !.points = Differenced(series.points, TRUE)]
      [] OTHER -> [series EXCEPT !.points = Differenced(series.points, FALSE)]

\* counter_resets, taken on the raw series.
CounterResets(series) ==
    IF ~IsRate(series.kind) THEN {}
    ELSE {series.points[i].at :
             i \in {j \in Later(series.points) : Falls(series.points, j)}}

-----------------------------------------------------------------------------

\* The reduction that cannot hide a breach.
ReductionFor(comparator) == IF comparator \in {">", ">="} THEN "Max" ELSE "Min"

Beats(reduction, a, b) == IF reduction = "Max" THEN a > b ELSE a < b

Best(reduction, values) ==
    CHOOSE v \in values : \A w \in values : ~Beats(reduction, w, v)

ValuesAt(all, at) ==
    UNION {{s.points[i].value : i \in {j \in DOMAIN s.points : s.points[j].at = at}} :
             s \in ToSet(all)}

\* reduce: at each instant any series has, the reduction over exactly the
\* series that have it; None when there is no series at all.
Reduce(all, reduction) ==
    LET instants == UNION {{s.points[i].at : i \in DOMAIN s.points} : s \in ToSet(all)}
        order == Ascending(instants)
    IN IF all = << >> THEN None
       ELSE [n \in DOMAIN order |->
               [at |-> order[n], value |-> Best(reduction, ValuesAt(all, order[n]))]]

\* dominant_at: a series that holds the reduced value at the instant, ties
\* broken on the attributes, in their order below, a set of pairs, and never on
\* the order of the answer.
DominantAt(all, at, reduction, below) ==
    LET first(s) == LET here == {i \in DOMAIN s.points : s.points[i].at = at}
                    IN s.points[CHOOSE i \in here : \A j \in here : i <= j].value
        holding == {s \in ToSet(all) : \E i \in DOMAIN s.points : s.points[i].at = at}
        wins(s, r) ==
            \/ Beats(reduction, first(s), first(r))
            \/ first(s) = first(r) /\ << r.attributes, s.attributes >> \notin below
    IN IF holding = {} THEN None
       ELSE CHOOSE s \in holding : \A r \in holding : wins(s, r)
=============================================================================
