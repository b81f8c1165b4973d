--------------------------- MODULE ObservationProofs ---------------------------
(***************************************************************************)
(* What the proofs about a poll share: arithmetic, finite sets in a strict *)
(* order and the lists they are ranked into, the plan of a poll, and the   *)
(* lists of an observation, for any configuration and answers.             *)
(***************************************************************************)
EXTENDS PollObservation, SeriesMath, FiniteSetTheorems, SequenceTheorems,
        WellFoundedInduction, TLAPS

-----------------------------------------------------------------------------
(***************************************************************************)
(* Arithmetic.                                                             *)
(***************************************************************************)
LEMMA DivisionTheorem ==
    ASSUME NEW a \in Int, NEW b \in Nat \ {0}
    PROVE  /\ a \div b \in Int /\ a % b \in 0 .. b - 1
           /\ a = b * (a \div b) + (a % b)
OBVIOUS

LEMMA ProductIsAtLeast ==
    ASSUME NEW b \in Nat \ {0}, NEW k \in Nat \ {0}
    PROVE  b * k \in Nat /\ b * k >= b /\ b * k >= k
<1>1. b * (k - 1) >= 0 /\ k * (b - 1) >= 0
    BY SMT
<1>2. b * k = b * (k - 1) + b /\ b * k = k * (b - 1) + k
    BY SMT
<1>3. QED BY <1>1, <1>2

LEMMA Distributes ==
    ASSUME NEW b \in Int, NEW m \in Int, NEW q \in Int
    PROVE  b * (m - q) = b * m - b * q /\ b * (m - q) = -(b * (q - m))
OBVIOUS

(* The quotient and the remainder of a product by its factor: what is left *)
(* over is a multiple of the factor and smaller than it.                   *)
LEMMA DividesOnce ==
    ASSUME NEW b \in Nat \ {0}, NEW m \in Nat, NEW q \in Int, NEW r \in 0 .. b - 1,
           b * m = b * q + r
    PROVE  q = m /\ r = 0
<1>1. b * m \in Int /\ b * q \in Int
    OBVIOUS
<1>2. r = b * (m - q) /\ -r = b * (q - m)
    BY <1>1, Distributes
<1>3. ~(m - q >= 1)
    <2>1. ASSUME m - q >= 1 PROVE FALSE
        <3>1. m - q \in Nat \ {0}
            BY <2>1
        <3>2. b * (m - q) >= b
            BY <3>1, ProductIsAtLeast
        <3>3. QED BY <1>2, <3>2
    <2>2. QED BY <2>1
<1>4. ~(q - m >= 1)
    <2>1. ASSUME q - m >= 1 PROVE FALSE
        <3>1. q - m \in Nat \ {0}
            BY <2>1
        <3>2. b * (q - m) >= b
            BY <3>1, ProductIsAtLeast
        <3>3. QED BY <1>2, <3>2
    <2>2. QED BY <2>1
<1>5. q = m
    BY <1>3, <1>4
<1>6. QED BY <1>1, <1>5

(* A product divides by its factor, and gives the other one.               *)
LEMMA ProductDivides ==
    ASSUME NEW b \in Nat \ {0}, NEW m \in Nat, NEW a \in Int, a = b * m
    PROVE  a % b = 0 /\ a \div b = m
<1>1. /\ a \div b \in Int /\ a % b \in 0 .. b - 1
      /\ a = b * (a \div b) + (a % b)
    BY DivisionTheorem
<1>2. QED BY <1>1, DividesOnce

-----------------------------------------------------------------------------
(***************************************************************************)
(* Finite sets in a strict order.                                          *)
(***************************************************************************)
Ahead(S, R, x) == {y \in S : << y, x >> \in R}
Rank(S, R, x) == Cardinality(Ahead(S, R, x))
FirstOf(S, R, n) == {x \in S : Rank(S, R, x) < n}

StrictOrder(S, R) ==
    /\ \A x \in S : << x, x >> \notin R
    /\ \A x, y, z \in S : << x, y >> \in R /\ << y, z >> \in R => << x, z >> \in R
    /\ \A x, y \in S : x # y => << x, y >> \in R \/ << y, x >> \in R

LEMMA LeastOf ==
    ASSUME NEW T \in SUBSET Nat, T # {}
    PROVE  \E n \in T : \A m \in T : n <= m
<1>1. PICK n \in T : \A m \in T : ~(<< m, n >> \in OpToRel(<, Nat))
    BY NatLessThanWellFounded, WFMin
<1>2. \A m \in T : ~(m < n)
    BY <1>1 DEF OpToRel
<1>3. QED BY <1>2

LEMMA RankGrows ==
    ASSUME NEW S, NEW R, IsFiniteSet(S), StrictOrder(S, R),
           NEW x \in S, NEW y \in S
    PROVE  /\ Rank(S, R, x) \in Nat
           /\ << x, y >> \in R => Rank(S, R, x) < Rank(S, R, y)
<1>1. \A z \in S : IsFiniteSet(Ahead(S, R, z)) /\ Rank(S, R, z) \in Nat
    <2>1. \A z \in S : Ahead(S, R, z) \in SUBSET S
        BY DEF Ahead
    <2>2. QED BY <2>1, FS_Subset, FS_CardinalityType DEF Rank
<1>2. ASSUME << x, y >> \in R PROVE Rank(S, R, x) < Rank(S, R, y)
    <2>1. Ahead(S, R, x) \in SUBSET Ahead(S, R, y)
        BY <1>2 DEF Ahead, StrictOrder
    <2>2. x \in Ahead(S, R, y) /\ x \notin Ahead(S, R, x)
        BY <1>2 DEF Ahead, StrictOrder
    <2>3. Rank(S, R, x) <= Rank(S, R, y) /\ Rank(S, R, x) # Rank(S, R, y)
        BY <1>1, <2>1, <2>2, FS_Subset DEF Rank
    <2>4. QED BY <1>1, <2>3
<1>3. QED BY <1>1, <1>2

(* A set in a strict order has a first member, if it is finite and not empty. *)
LEMMA FirstIn ==
    ASSUME NEW S, NEW R, IsFiniteSet(S), StrictOrder(S, R), S # {}
    PROVE  \E x \in S : \A y \in S : << y, x >> \notin R
<1> DEFINE ranks == {Rank(S, R, x) : x \in S}
<1>1. \A x \in S : Rank(S, R, x) \in Nat
    BY RankGrows
<1>2. ranks \in SUBSET Nat /\ ranks # {}
    BY <1>1
<1>3. PICK least \in ranks : \A m \in ranks : least <= m
    BY <1>2, LeastOf
<1>4. PICK x \in S : Rank(S, R, x) = least
    OBVIOUS
<1>5. ASSUME NEW y \in S, << y, x >> \in R PROVE FALSE
    <2>1. Rank(S, R, y) < Rank(S, R, x)
        BY <1>5, RankGrows
    <2>2. Rank(S, R, x) <= Rank(S, R, y)
        BY <1>3, <1>4
    <2>3. QED BY <1>1, <2>1, <2>2
<1>6. QED BY <1>5

(* A member has a place, and nobody else has it.                           *)
LEMMA RankIsAPlace ==
    ASSUME NEW S, NEW R, IsFiniteSet(S), StrictOrder(S, R), NEW x \in S
    PROVE  Rank(S, R, x) \in Nat /\ Rank(S, R, x) < Cardinality(S)
<1>1. Ahead(S, R, x) \in SUBSET S /\ x \notin Ahead(S, R, x)
    BY DEF Ahead, StrictOrder
<1>2. Cardinality(Ahead(S, R, x)) <= Cardinality(S) /\ Cardinality(Ahead(S, R, x)) # Cardinality(S)
    BY <1>1, FS_Subset
<1>3. Cardinality(S) \in Nat /\ Rank(S, R, x) \in Nat
    BY FS_CardinalityType, RankGrows
<1>4. QED BY <1>2, <1>3 DEF Rank

LEMMA SameRank ==
    ASSUME NEW S, NEW R, IsFiniteSet(S), StrictOrder(S, R), NEW x \in S, NEW y \in S,
           Rank(S, R, x) = Rank(S, R, y)
    PROVE  x = y
<1>1. Rank(S, R, x) \in Nat /\ ~(<< x, y >> \in R) /\ ~(<< y, x >> \in R)
    BY RankGrows
<1>2. QED BY <1>1 DEF StrictOrder

(* No more than n are among the first n.                                   *)
LEMMA FirstAreFew ==
    ASSUME NEW S, NEW R, IsFiniteSet(S), StrictOrder(S, R), NEW n \in Nat
    PROVE  Cardinality(FirstOf(S, R, n)) <= n
<1> DEFINE K == FirstOf(S, R, n)
           rank(x) == Rank(S, R, x)
<1>1. \A x \in S : rank(x) \in Nat
    BY RankGrows
<1>2. \A x, y \in S : << x, y >> \in R => rank(x) < rank(y)
    BY RankGrows
<1>3. K \in SUBSET S /\ \A x \in S : x \in K <=> rank(x) < n
    BY DEF FirstOf
<1>4. \A x, y \in S : x # y => << x, y >> \in R \/ << y, x >> \in R
    BY DEF StrictOrder
<1>5. IsFiniteSet(K) /\ Cardinality(K) \in Nat
    BY <1>3, FS_Subset, FS_CardinalityType
<1>6. \A x \in S : IsFiniteSet(Ahead(S, R, x))
    <2>1. \A x \in S : Ahead(S, R, x) \in SUBSET S
        BY DEF Ahead
    <2>2. QED BY <2>1, FS_Subset
<1>7. \A x \in S : rank(x) = Cardinality(Ahead(S, R, x))
    BY DEF Rank
<1>8. \A x, y \in S : y \in Ahead(S, R, x) <=> << y, x >> \in R
    BY DEF Ahead
<1> SUFFICES Cardinality(K) <= n
    OBVIOUS
<1> HIDE DEF K, rank
<1>9. CASE K = {}
    BY <1>9, FS_EmptySet
<1>10. CASE K # {}
    <2> DEFINE gaps == {n - rank(x) : x \in K}
    <2>1. \A x \in K : rank(x) \in Nat /\ rank(x) < n
        BY <1>1, <1>3
    <2>2. gaps \in SUBSET Nat /\ gaps # {}
        BY <1>10, <2>1
    <2>3. PICK least \in gaps : \A m \in gaps : least <= m
        BY <2>2, LeastOf
    <2>4. PICK x \in K : n - rank(x) = least
        OBVIOUS
    <2>5. \A y \in K : rank(y) <= rank(x)
        BY <2>1, <2>3, <2>4
    <2> HIDE DEF gaps
    <2>6. K \in SUBSET (Ahead(S, R, x) \cup {x})
        <3>1. ASSUME NEW y \in K, y # x PROVE y \in Ahead(S, R, x)
            <4>1. x \in S /\ y \in S
                BY <1>3
            <4>2. ~(<< x, y >> \in R)
                BY <1>2, <2>1, <2>5, <4>1
            <4>3. QED BY <1>4, <1>8, <3>1, <4>1, <4>2
        <3>2. QED BY <3>1
    <2>7. x \in S /\ IsFiniteSet(Ahead(S, R, x)) /\ Cardinality(Ahead(S, R, x)) = rank(x)
        BY <1>3, <1>6, <1>7
    <2>8. /\ IsFiniteSet(Ahead(S, R, x) \cup {x})
          /\ Cardinality(Ahead(S, R, x) \cup {x}) <= rank(x) + 1
        <3> DEFINE ahead == Ahead(S, R, x)
        <3>1. IsFiniteSet(ahead) /\ Cardinality(ahead) = rank(x) /\ rank(x) \in Nat
            BY <2>1, <2>7
        <3> HIDE DEF ahead
        <3>2. /\ IsFiniteSet(ahead \cup {x})
              /\ Cardinality(ahead \cup {x})
                    = IF x \in ahead THEN Cardinality(ahead) ELSE Cardinality(ahead) + 1
            BY <3>1, FS_AddElement
        <3>3. QED BY <3>1, <3>2 DEF ahead
    <2>9. Cardinality(K) <= Cardinality(Ahead(S, R, x) \cup {x})
        BY <2>6, <2>8, FS_Subset
    <2>10. Cardinality(Ahead(S, R, x) \cup {x}) \in Nat
        BY <2>8, FS_CardinalityType
    <2>11. QED BY <1>5, <2>1, <2>8, <2>9, <2>10
<1>11. QED BY <1>9, <1>10

(* Of a finite set in a strict order, if not all are among the first n      *)
(* there are exactly n of those, and each of them is ahead of each other.   *)
LEMMA TheFirst ==
    ASSUME NEW S, NEW R, IsFiniteSet(S), StrictOrder(S, R), NEW n \in Nat,
           FirstOf(S, R, n) # S
    PROVE  /\ Cardinality(FirstOf(S, R, n)) = n
           /\ \A x \in FirstOf(S, R, n), z \in S \ FirstOf(S, R, n) : << x, z >> \in R
           /\ \E z \in S : Rank(S, R, z) = n
<1> DEFINE K == FirstOf(S, R, n)
           rank(x) == Rank(S, R, x)
<1>1. \A x \in S : rank(x) \in Nat
    BY RankGrows
<1>2. \A x, y \in S : << x, y >> \in R => rank(x) < rank(y)
    BY RankGrows
<1>3. K \in SUBSET S /\ \A x \in S : x \in K <=> rank(x) < n
    BY DEF FirstOf
<1>4. \A x, y \in S : x # y => << x, y >> \in R \/ << y, x >> \in R
    BY DEF StrictOrder
<1>5. IsFiniteSet(K) /\ Cardinality(K) \in Nat
    BY <1>3, FS_Subset, FS_CardinalityType
<1>6. \A x \in S : IsFiniteSet(Ahead(S, R, x))
    <2>1. \A x \in S : Ahead(S, R, x) \in SUBSET S
        BY DEF Ahead
    <2>2. QED BY <2>1, FS_Subset
<1>7. \A x \in S : rank(x) = Cardinality(Ahead(S, R, x))
    BY DEF Rank
<1>8. \A x, y \in S : y \in Ahead(S, R, x) <=> << y, x >> \in R
    BY DEF Ahead
<1>9. S \ K # {}
    BY <1>3
<1> HIDE DEF K, rank
<1>10. ASSUME NEW x \in K, NEW z \in S \ K PROVE << x, z >> \in R
    <2>1. x # z /\ x \in S /\ rank(x) < n /\ ~(rank(z) < n)
        BY <1>3
    <2>2. ~(<< z, x >> \in R)
        BY <1>1, <1>2, <2>1
    <2>3. QED BY <1>4, <2>1, <2>2
<1>11. \E z \in S : rank(z) >= n /\ rank(z) = Cardinality(K)
    <2> DEFINE ranks == {rank(z) : z \in S \ K}
    <2>1. ranks \in SUBSET Nat /\ ranks # {}
        BY <1>1, <1>9
    <2>2. PICK least \in ranks : \A m \in ranks : least <= m
        BY <2>1, LeastOf
    <2>3. PICK z \in S \ K : rank(z) = least
        OBVIOUS
    <2>4. \A y \in S \ K : rank(z) <= rank(y)
        BY <2>2, <2>3
    <2>5. \A y \in Ahead(S, R, z) : y \in S
        BY DEF Ahead
    <2>6. \A y \in Ahead(S, R, z) : y \in K
        <3>1. SUFFICES ASSUME NEW y \in Ahead(S, R, z), y \notin K PROVE FALSE
            OBVIOUS
        <3>2. y \in S \ K /\ << y, z >> \in R
            BY <1>8, <2>5, <3>1
        <3>3. rank(y) < rank(z) /\ rank(z) <= rank(y)
            BY <1>2, <2>4, <3>2
        <3>4. QED BY <1>1, <3>2, <3>3
    <2>7. Ahead(S, R, z) = K
        BY <1>3, <1>8, <1>10, <2>6
    <2>8. rank(z) >= n /\ rank(z) = Cardinality(K)
        BY <1>1, <1>3, <1>7, <2>7
    <2>9. QED BY <2>3, <2>8
<1>12. Cardinality(K) <= n
    BY FirstAreFew DEF K
<1>13. Cardinality(K) = n /\ \E z \in S : rank(z) = n
    BY <1>5, <1>11, <1>12
<1>14. QED BY <1>10, <1>13 DEF K, rank

(* A set of positions of a sequence that is not empty has a last one.      *)
LEMMA LastOfPositions ==
    ASSUME NEW n \in Nat, NEW S \in SUBSET (1 .. n), S # {}
    PROVE  \E i \in S : \A j \in S : j <= i
<1> DEFINE Gaps == {n - i : i \in S}
<1>1. Gaps \in SUBSET Nat /\ Gaps # {}
    <2>1. \A i \in S : i \in Nat /\ i <= n
        OBVIOUS
    <2>2. \A i \in S : n - i \in Nat
        BY <2>1
    <2>3. QED BY <2>2
<1>2. PICK g \in Gaps : \A h \in Gaps : ~(<<h, g>> \in OpToRel(<, Nat))
    BY <1>1, NatLessThanWellFounded, WFMin
<1>3. \A h \in Gaps : ~(h < g)
    BY <1>1, <1>2 DEF OpToRel
<1>4. PICK i \in S : g = n - i
    OBVIOUS
<1>5. ASSUME NEW j \in S PROVE j <= i
    <2>1. ~(n - j < n - i)
        BY <1>3, <1>4
    <2>2. QED BY <2>1
<1>6. QED BY <1>5

(* Every place of a finite set in a strict order is taken.                 *)
LEMMA EveryRank ==
    ASSUME NEW S, NEW R, IsFiniteSet(S), StrictOrder(S, R), NEW n \in 1 .. Cardinality(S)
    PROVE  \E x \in S : Rank(S, R, x) = n - 1
<1>1. Cardinality(S) \in Nat /\ n - 1 \in Nat
    BY FS_CardinalityType
<1>2. Cardinality(FirstOf(S, R, n - 1)) <= n - 1
    BY <1>1, FirstAreFew
<1>3. FirstOf(S, R, n - 1) # S
    BY <1>1, <1>2
<1>4. QED BY <1>1, <1>3, TheFirst
-----------------------------------------------------------------------------
(***************************************************************************)
(* Ranked sets, plans and the lists of an observation.                     *)
(***************************************************************************)
(* The values of a function on a finite set are finitely many.             *)
LEMMA ImageIsFinite ==
    ASSUME NEW S, IsFiniteSet(S), NEW f, DOMAIN f = S, f = [x \in S |-> f[x]]
    PROVE  IsFiniteSet({f[x] : x \in S})
<1> DEFINE T == {f[x] : x \in S}
<1>1. f \in Surjection(S, T)
    BY DEF Surjection
<1>2. QED BY <1>1, FS_Surjection

(* A finite set ranked is a list of its members.                           *)
LEMMA AscendingOf ==
    ASSUME NEW S \in SUBSET Int, IsFiniteSet(S), NEW s, s = Ascending(S)
    PROVE  /\ Cardinality(S) \in Nat /\ s \in [1 .. Cardinality(S) -> S]
           /\ \A n \in 1 .. Cardinality(S) : Cardinality({y \in S : y < s[n]}) = n - 1
<1> DEFINE R == {p \in S \X S : p[1] < p[2]}
           N == 1 .. Cardinality(S)
<1>0. \A x, y \in S : << x, y >> \in R <=> x < y
    OBVIOUS
<1>1. StrictOrder(S, R)
    <2> HIDE DEF R
    <2>1. \A x \in S : x \in Int
        OBVIOUS
    <2>2. \A x \in S : << x, x >> \notin R
        BY <1>0, <2>1
    <2>3. \A x, y, z \in S : << x, y >> \in R /\ << y, z >> \in R => << x, z >> \in R
        BY <1>0, <2>1
    <2>4. \A x, y \in S : x # y => << x, y >> \in R \/ << y, x >> \in R
        BY <1>0, <2>1
    <2>5. QED BY <2>2, <2>3, <2>4 DEF StrictOrder
<1>2. Cardinality(S) \in Nat
    BY FS_CardinalityType
<1>3. \A n \in N : \E x \in S : Rank(S, R, x) = n - 1
    BY <1>1, EveryRank
<1>4. \A x \in S : Rank(S, R, x) = Cardinality({y \in S : y < x})
    <2>1. \A x \in S : Ahead(S, R, x) = {y \in S : y < x}
        BY <1>0 DEF Ahead
    <2>2. QED BY <2>1 DEF Rank
<1>5. \A n \in N : \E x \in S : Cardinality({y \in S : y < x}) = n - 1
    BY <1>3, <1>4
<1>6. s = [n \in N |-> CHOOSE x \in S : Cardinality({y \in S : y < x}) = n - 1]
    BY DEF Ascending, Ranked
<1>7. QED BY <1>2, <1>5, <1>6

(* A finite set of integers ranked is in order, with every one in it.      *)
LEMMA AscendsBy ==
    ASSUME NEW S \in SUBSET Int, IsFiniteSet(S), NEW s, s = Ascending(S)
    PROVE  /\ \A i, j \in 1 .. Cardinality(S) : j < i => s[j] < s[i]
           /\ \A x \in S : \E i \in 1 .. Cardinality(S) : s[i] = x
<1> DEFINE R == {p \in S \X S : p[1] < p[2]}
           N == 1 .. Cardinality(S)
<1>0. \A x, y \in S : << x, y >> \in R <=> x < y
    OBVIOUS
<1>1. StrictOrder(S, R)
    <2> HIDE DEF R
    <2>1. \A x \in S : x \in Int
        OBVIOUS
    <2>2. \A x \in S : << x, x >> \notin R
        BY <1>0, <2>1
    <2>3. \A x, y, z \in S : << x, y >> \in R /\ << y, z >> \in R => << x, z >> \in R
        BY <1>0, <2>1
    <2>4. \A x, y \in S : x # y => << x, y >> \in R \/ << y, x >> \in R
        BY <1>0, <2>1
    <2>5. QED BY <2>2, <2>3, <2>4 DEF StrictOrder
<1>2. \A x \in S : Rank(S, R, x) = Cardinality({y \in S : y < x})
    <2>1. \A x \in S : Ahead(S, R, x) = {y \in S : y < x}
        BY <1>0 DEF Ahead
    <2>2. QED BY <2>1 DEF Rank
<1>3. /\ Cardinality(S) \in Nat /\ s \in [N -> S]
      /\ \A n \in N : Rank(S, R, s[n]) = n - 1
    <2>1. /\ Cardinality(S) \in Nat /\ s \in [N -> S]
          /\ \A n \in N : Cardinality({y \in S : y < s[n]}) = n - 1
        BY AscendingOf
    <2>2. QED BY <1>2, <2>1
<1> HIDE DEF R
<1>4. ASSUME NEW i \in N, NEW j \in N, j < i PROVE s[j] < s[i]
    <2>1. /\ s[i] \in S /\ s[j] \in S /\ s[i] \in Int /\ s[j] \in Int
          /\ Rank(S, R, s[i]) = i - 1 /\ Rank(S, R, s[j]) = j - 1
        BY <1>3
    <2>2. ASSUME s[i] < s[j] PROVE FALSE
        <3>1. Rank(S, R, s[i]) < Rank(S, R, s[j])
            BY <1>0, <1>1, <2>1, <2>2, RankGrows
        <3>2. QED BY <1>3, <1>4, <2>1, <3>1
    <2>3. s[i] # s[j]
        BY <1>3, <1>4, <2>1
    <2>4. QED BY <2>1, <2>2, <2>3
<1>5. ASSUME NEW x \in S PROVE \E i \in N : s[i] = x
    <2>1. Rank(S, R, x) \in Nat /\ Rank(S, R, x) < Cardinality(S)
        BY <1>1, <1>3, RankIsAPlace
    <2> DEFINE i == Rank(S, R, x) + 1
    <2>2. i \in N
        BY <1>3, <2>1
    <2>3. s[i] \in S /\ Rank(S, R, s[i]) = Rank(S, R, x)
        BY <1>3, <2>1, <2>2
    <2>4. s[i] = x
        BY <1>1, <2>3, SameRank
    <2>5. QED BY <2>2, <2>4
<1>6. QED BY <1>4, <1>5

LEMMA ListOf ==
    ASSUME NEW S, IsFiniteSet(S), NEW s, s = SetToSeq(S)
    PROVE  Cardinality(S) \in Nat /\ s \in [1 .. Cardinality(S) -> S] /\ IsInjective(s)
<1> DEFINE N == 1 .. Cardinality(S)
<1>1. Cardinality(S) \in Nat /\ ExistsBijection(N, S)
    BY FS_CardinalityType
<1>2. PICK f : f \in Bijection(N, S)
    BY <1>1 DEF ExistsBijection
<1>3. f \in [N -> S] /\ IsInjective(f)
    BY <1>2 DEF Bijection, Injection, IsInjective
<1>4. s = CHOOSE g \in [N -> S] : IsInjective(g)
    BY DEF SetToSeq
<1>5. QED BY <1>1, <1>3, <1>4

(* A finite set listed has all of its members in the list.                 *)
LEMMA ListHasAll ==
    ASSUME NEW S, IsFiniteSet(S), NEW s, s = SetToSeq(S), NEW x \in S
    PROVE  \E i \in 1 .. Cardinality(S) : s[i] = x
<1> DEFINE N == 1 .. Cardinality(S)
           came == {s[i] : i \in N}
<1>1. Cardinality(S) \in Nat /\ s \in [N -> S] /\ IsInjective(s)
    BY ListOf
<1>2. came \in SUBSET S
    BY <1>1
<1>3. s \in Bijection(N, came)
    BY <1>1 DEF Bijection, Injection, Surjection, IsInjective
<1>4. IsFiniteSet(N) /\ Cardinality(N) = Cardinality(S)
    BY <1>1, FS_Interval
<1>5. Cardinality(came) = Cardinality(S)
    <2> HIDE DEF N, came
    <2>1. QED BY <1>3, <1>4, FS_Bijection DEF ExistsBijection
<1>6. came = S
    <2> HIDE DEF came
    <2>1. QED BY <1>2, <1>5, FS_Subset
<1>7. QED BY <1>6

(* The best of finitely many values is one of them, and none beats it.     *)
LEMMA BestOf ==
    ASSUME NEW values \in SUBSET Int, IsFiniteSet(values), values # {}, NEW reduction,
           NEW best, best = Best(reduction, values)
    PROVE  best \in values /\ \A w \in values : ~Beats(reduction, w, best)
<1> DEFINE R == {p \in values \X values : Beats(reduction, p[1], p[2])}
<1>1. StrictOrder(values, R)
    BY DEF StrictOrder, Beats
<1>2. PICK v \in values : \A w \in values : << w, v >> \notin R
    BY <1>1, FirstIn
<1>3. \A w \in values : ~Beats(reduction, w, v)
    BY <1>2
<1>4. QED BY <1>3 DEF Best

LEMMA ListIsASeq ==
    ASSUME NEW n \in Nat, NEW V, NEW f \in [1 .. n -> V]
    PROVE  f \in Seq(V)
BY SeqDef

(* A plan is a list, as long as the requests it has.                       *)
LEMMA ByKindIsAList ==
    ASSUME NEW S, IsFiniteSet(S)
    PROVE  \E V : ByKind(S) \in Seq(V)
<1> DEFINE s == ByKind(S)
           N == 1 .. Cardinality(S)
           V == {s[i] : i \in N}
           place(n) == CHOOSE x \in S : Cardinality({y \in S : KindRank(y.metric) < KindRank(x.metric)}) = n - 1
<1>1. Cardinality(S) \in Nat
    BY FS_CardinalityType
<1>2. s = [n \in N |-> place(n)]
    BY DEF ByKind, Ranked
<1> HIDE DEF place, s
<1>3. s \in [N -> V]
    BY <1>2
<1>4. s \in Seq(V)
    BY <1>1, <1>3, ListIsASeq
<1>5. QED BY <1>4 DEF s

Bounded(cfg) == IsFiniteSet(PlannedMetrics(cfg)) /\ IsFiniteSet(cfg.detail)

LEMMA PlanIsAList ==
    ASSUME NEW cfg, Bounded(cfg)
    PROVE  \E n \in Nat : DOMAIN PlanQueries(cfg) = 1 .. n
<1> DEFINE t == cfg.tuning
           wideOf == [m \in PlannedMetrics(cfg) |-> Spec1(m, SelectAll, OverviewWindow(t))]
           deepOf == [m \in cfg.detail |-> Spec1(m, SelectHost(cfg.focus), DetailWindow(t))]
           wide == {Spec1(m, SelectAll, OverviewWindow(t)) : m \in PlannedMetrics(cfg)}
           deep == {Spec1(m, SelectHost(cfg.focus), DetailWindow(t)) : m \in cfg.detail}
           second == IF cfg.focus = None THEN << >> ELSE ByKind(deep)
<1>1. IsFiniteSet(wide) /\ IsFiniteSet(deep)
    <2>1. wide = {wideOf[m] : m \in PlannedMetrics(cfg)} /\ deep = {deepOf[m] : m \in cfg.detail}
        OBVIOUS
    <2>2. /\ DOMAIN wideOf = PlannedMetrics(cfg) /\ DOMAIN deepOf = cfg.detail
          /\ wideOf = [m \in PlannedMetrics(cfg) |-> wideOf[m]]
          /\ deepOf = [m \in cfg.detail |-> deepOf[m]]
        OBVIOUS
    <2> HIDE DEF wideOf, deepOf
    <2>3. IsFiniteSet({wideOf[m] : m \in PlannedMetrics(cfg)})
        BY <2>2, ImageIsFinite DEF Bounded
    <2>4. IsFiniteSet({deepOf[m] : m \in cfg.detail})
        BY <2>2, ImageIsFinite DEF Bounded
    <2>5. QED BY <2>1, <2>3, <2>4
<1>2. PlanQueries(cfg) = ByKind(wide) \o second
    BY DEF PlanQueries
<1> HIDE DEF wide, deep
<1>3. PICK V : ByKind(wide) \in Seq(V)
    BY <1>1, ByKindIsAList
<1>4. PICK W : second \in Seq(W)
    BY <1>1, ByKindIsAList
<1> HIDE DEF second
<1>5. ByKind(wide) \in Seq(V \cup W) /\ second \in Seq(V \cup W)
    BY <1>3, <1>4
<1>6. PlanQueries(cfg) \in Seq(V \cup W)
    BY <1>2, <1>5
<1>7. QED BY <1>6

(* The requests of one kind each, in the order of the kinds.               *)
LEMMA KindsAreRanked ==
    ASSUME NEW k \in MetricKinds, NEW l \in MetricKinds
    PROVE  /\ KindRank(k) \in Int
           /\ KindRank(k) = KindRank(l) => k = l
<1>1. \E i \in DOMAIN MetricKindOrder : MetricKindOrder[i] = k
    BY DEF MetricKinds
<1>2. \E i \in DOMAIN MetricKindOrder : MetricKindOrder[i] = l
    BY DEF MetricKinds
<1>3. KindRank(k) \in DOMAIN MetricKindOrder /\ MetricKindOrder[KindRank(k)] = k
    BY <1>1 DEF KindRank
<1>4. KindRank(l) \in DOMAIN MetricKindOrder /\ MetricKindOrder[KindRank(l)] = l
    BY <1>2 DEF KindRank
<1>5. DOMAIN MetricKindOrder = 1 .. 13
    BY DEF MetricKindOrder
<1>6. QED BY <1>3, <1>4, <1>5

LEMMA ByKindIs ==
    ASSUME NEW S, IsFiniteSet(S), \A x \in S : x.metric \in MetricKinds,
           \A x, y \in S : x.metric = y.metric => x = y,
           NEW s, s = ByKind(S)
    PROVE  /\ Cardinality(S) \in Nat /\ s \in [1 .. Cardinality(S) -> S]
           /\ \A i, j \in 1 .. Cardinality(S) : s[i].metric = s[j].metric => i = j
<1> DEFINE rank(x) == KindRank(x.metric)
           R == {p \in S \X S : rank(p[1]) < rank(p[2])}
           N == 1 .. Cardinality(S)
<1>1. \A x, y \in S : << x, y >> \in R <=> rank(x) < rank(y)
    OBVIOUS
<1>2. \A x, y \in S : rank(x) \in Int /\ (rank(x) = rank(y) => x = y)
    BY KindsAreRanked
<1> HIDE DEF rank, R
<1>3. StrictOrder(S, R)
    <2>1. \A x \in S : << x, x >> \notin R
        BY <1>1, <1>2
    <2>2. \A x, y, z \in S : << x, y >> \in R /\ << y, z >> \in R => << x, z >> \in R
        BY <1>1, <1>2
    <2>3. ASSUME NEW x \in S, NEW y \in S, x # y
          PROVE  << x, y >> \in R \/ << y, x >> \in R
        <3>1. rank(x) # rank(y) /\ rank(x) \in Int /\ rank(y) \in Int
            BY <1>2, <2>3
        <3>2. QED BY <1>1, <3>1
    <2>4. QED BY <2>1, <2>2, <2>3 DEF StrictOrder
<1>4. \A x \in S : Rank(S, R, x) = Cardinality({y \in S : rank(y) < rank(x)})
    <2>1. \A x \in S : Ahead(S, R, x) = {y \in S : rank(y) < rank(x)}
        BY <1>1 DEF Ahead
    <2>2. QED BY <2>1 DEF Rank
<1>5. s = [n \in N |-> CHOOSE x \in S : Cardinality({y \in S : rank(y) < rank(x)}) = n - 1]
    BY DEF ByKind, Ranked, rank
<1>6. \A n \in N : \E x \in S : Cardinality({y \in S : rank(y) < rank(x)}) = n - 1
    <2>1. \A n \in N : \E x \in S : Rank(S, R, x) = n - 1
        BY <1>3, EveryRank
    <2>2. QED BY <1>4, <2>1
<1>7. Cardinality(S) \in Nat
    BY FS_CardinalityType
<1>8. \A n \in N : s[n] \in S /\ Cardinality({y \in S : rank(y) < rank(s[n])}) = n - 1
    BY <1>5, <1>6
<1>9. \A n \in N : s[n] \in S /\ Rank(S, R, s[n]) = n - 1
    BY <1>4, <1>8
<1>10. s \in [N -> S]
    BY <1>5, <1>9
<1>11. ASSUME NEW i \in N, NEW j \in N, s[i].metric = s[j].metric
       PROVE  i = j
    <2>1. s[i] = s[j]
        BY <1>9, <1>11
    <2>2. i - 1 = j - 1
        BY <1>9, <2>1
    <2>3. QED BY <1>7, <2>2
<1>12. QED BY <1>7, <1>10, <1>11

(* A plan: requests of the fleet, then of the focused host, no two of one   *)
(* sort about the same metric.                                             *)
LEMMA PlanIs ==
    ASSUME NEW cfg, Bounded(cfg), PlannedMetrics(cfg) \in SUBSET MetricKinds,
           cfg.detail \in SUBSET MetricKinds, NEW plan, plan = PlanQueries(cfg)
    PROVE  \E n \in Nat :
              /\ DOMAIN plan = 1 .. n /\ Len(plan) = n
              /\ \A i \in 1 .. n :
                    /\ plan[i].metric \in MetricKinds
                    /\ \/ /\ plan[i].selector = SelectAll
                          /\ plan[i].window = OverviewWindow(cfg.tuning)
                       \/ /\ cfg.focus # None
                          /\ plan[i].selector = SelectHost(cfg.focus)
                          /\ plan[i].window = DetailWindow(cfg.tuning)
              /\ \A i, j \in 1 .. n :
                    plan[i].selector # SelectAll /\ i < j => plan[i].metric # plan[j].metric
<1> DEFINE t == cfg.tuning
           wideOf == [m \in PlannedMetrics(cfg) |-> Spec1(m, SelectAll, OverviewWindow(t))]
           deepOf == [m \in cfg.detail |-> Spec1(m, SelectHost(cfg.focus), DetailWindow(t))]
           wide == {Spec1(m, SelectAll, OverviewWindow(t)) : m \in PlannedMetrics(cfg)}
           deep == {Spec1(m, SelectHost(cfg.focus), DetailWindow(t)) : m \in cfg.detail}
           first == ByKind(wide)
           second == IF cfg.focus = None THEN << >> ELSE ByKind(deep)
           one(x) == x.metric \in MetricKinds /\ x.selector = SelectAll /\ x.window = OverviewWindow(t)
           two(x) == x.metric \in MetricKinds /\ x.selector = SelectHost(cfg.focus)
                     /\ x.window = DetailWindow(t)
<1>1. IsFiniteSet(wide) /\ IsFiniteSet(deep)
    <2>1. wide = {wideOf[m] : m \in PlannedMetrics(cfg)} /\ deep = {deepOf[m] : m \in cfg.detail}
        OBVIOUS
    <2>2. /\ DOMAIN wideOf = PlannedMetrics(cfg) /\ DOMAIN deepOf = cfg.detail
          /\ wideOf = [m \in PlannedMetrics(cfg) |-> wideOf[m]]
          /\ deepOf = [m \in cfg.detail |-> deepOf[m]]
        OBVIOUS
    <2> HIDE DEF wideOf, deepOf
    <2>3. IsFiniteSet({wideOf[m] : m \in PlannedMetrics(cfg)})
        BY <2>2, ImageIsFinite DEF Bounded
    <2>4. IsFiniteSet({deepOf[m] : m \in cfg.detail})
        BY <2>2, ImageIsFinite DEF Bounded
    <2>5. QED BY <2>1, <2>3, <2>4
<1>2. plan = first \o second
    BY DEF PlanQueries
<1>3. /\ \A x \in wide : one(x)
      /\ \A x, y \in wide : x.metric = y.metric => x = y
    BY DEF Spec1
<1>4. /\ \A x \in deep : two(x)
      /\ \A x, y \in deep : x.metric = y.metric => x = y
    BY DEF Spec1
<1> DEFINE p == Cardinality(wide)
           q == IF cfg.focus = None THEN 0 ELSE Cardinality(deep)
<1> HIDE DEF wide, deep
<1>5. /\ p \in Nat /\ first \in [1 .. p -> wide]
      /\ \A i, j \in 1 .. p : first[i].metric = first[j].metric => i = j
    BY <1>1, <1>3, ByKindIs DEF p, first
<1>6. /\ q \in Nat /\ second \in [1 .. q -> deep] /\ (cfg.focus = None => q = 0)
      /\ \A i, j \in 1 .. q : second[i].metric = second[j].metric => i = j
    <2>1. CASE cfg.focus = None
        BY <2>1
    <2>2. CASE cfg.focus # None
        <3>1. second = ByKind(deep) /\ q = Cardinality(deep)
            BY <2>2
        <3> HIDE DEF second, q
        <3>2. QED BY <1>1, <1>4, <2>2, <3>1, ByKindIs
    <2>3. QED BY <2>1, <2>2
<1> HIDE DEF first, second, p, q
<1>7. first \in Seq(wide \cup deep) /\ second \in Seq(wide \cup deep)
      /\ Len(first) = p /\ Len(second) = q
    <2>1. first \in [1 .. p -> wide \cup deep] /\ second \in [1 .. q -> wide \cup deep]
        BY <1>5, <1>6
    <2>2. QED BY <1>5, <1>6, <2>1, ListIsASeq
<1>8. /\ DOMAIN plan = 1 .. (p + q) /\ Len(plan) = p + q /\ p + q \in Nat
      /\ \A i \in 1 .. (p + q) : plan[i] = IF i <= p THEN first[i] ELSE second[i - p]
    <2> DEFINE S == wide \cup deep
    <2> HIDE DEF S
    <2>1. first \in Seq(S) /\ second \in Seq(S) /\ Len(first) = p /\ Len(second) = q
        BY <1>7 DEF S
    <2>2. p \in Nat /\ q \in Nat
        BY <1>5, <1>6
    <2>3. /\ first \o second \in Seq(S) /\ Len(first \o second) = Len(first) + Len(second)
          /\ \A i \in 1 .. Len(first) + Len(second) :
                (first \o second)[i] = IF i <= Len(first) THEN first[i]
                                       ELSE second[i - Len(first)]
        BY <2>1, ConcatProperties
    <2>4. Len(plan) = p + q /\ plan \in Seq(S)
        BY <1>2, <2>1, <2>3
    <2>5. DOMAIN plan = 1 .. (p + q)
        BY <2>4
    <2>6. QED BY <1>2, <2>1, <2>2, <2>3, <2>4, <2>5
<1>9. ASSUME NEW i \in 1 .. (p + q)
      PROVE  \/ i <= p /\ one(plan[i])
             \/ i > p /\ i - p \in 1 .. q /\ cfg.focus # None /\ two(plan[i])
    <2>1. CASE i <= p
        BY <1>3, <1>5, <1>8, <2>1
    <2>2. CASE ~(i <= p)
        <3>1. i - p \in 1 .. q /\ plan[i] = second[i - p]
            BY <1>5, <1>6, <1>8, <2>2
        <3>2. second[i - p] \in deep /\ cfg.focus # None
            BY <1>6, <3>1
        <3>3. QED BY <1>4, <1>5, <2>2, <3>1, <3>2
    <2>3. QED BY <2>1, <2>2
<1>10. ASSUME NEW i \in 1 .. (p + q), NEW j \in 1 .. (p + q),
              plan[i].selector # SelectAll, i < j
       PROVE  plan[i].metric # plan[j].metric
    <2>1. i > p /\ j > p /\ i - p \in 1 .. q /\ j - p \in 1 .. q
        BY <1>5, <1>9, <1>10
    <2>2. plan[i] = second[i - p] /\ plan[j] = second[j - p] /\ i - p # j - p
        BY <1>5, <1>8, <1>10, <2>1
    <2>3. QED BY <1>6, <2>1, <2>2
<1>11. QED BY <1>8, <1>9, <1>10

(* Positions, earlier answers first, are in a strict order both ways.      *)
LEMMA PositionsAreOrdered ==
    ASSUME NEW S \in SUBSET (Nat \X Nat)
    PROVE  /\ StrictOrder(S, {u \in S \X S : CameBefore(u[1], u[2])})
           /\ StrictOrder(S, {u \in S \X S : CameBefore(u[2], u[1])})
<1> DEFINE R == {u \in S \X S : CameBefore(u[1], u[2])}
           B == {u \in S \X S : CameBefore(u[2], u[1])}
<1>1. /\ \A p, q \in S : << p, q >> \in R <=> CameBefore(p, q)
      /\ \A p, q \in S : << p, q >> \in B <=> CameBefore(q, p)
    OBVIOUS
<1>2. \A p \in S : p[1] \in Nat /\ p[2] \in Nat /\ p = << p[1], p[2] >>
    OBVIOUS
<1>3. \A p \in S : ~CameBefore(p, p)
    BY <1>2 DEF CameBefore
<1>4. \A p, q, r \in S : CameBefore(p, q) /\ CameBefore(q, r) => CameBefore(p, r)
    BY <1>2 DEF CameBefore
<1>5. \A p, q \in S : p # q => CameBefore(p, q) \/ CameBefore(q, p)
    BY <1>2 DEF CameBefore
<1> HIDE DEF R, B
<1>6. StrictOrder(S, R) /\ StrictOrder(S, B)
    BY <1>1, <1>3, <1>4, <1>5 DEF StrictOrder
<1>7. QED BY <1>6 DEF R, B

(* An observation whose lists are lists.                                   *)
ListsAnswers(o) ==
    /\ \E n \in Nat : DOMAIN o.series = 1 .. n
    /\ \A i \in DOMAIN o.series : o.series[i].result.ok =>
          \E n \in Nat : DOMAIN o.series[i].result.series = 1 .. n

LEMMA MatchingOf ==
    ASSUME NEW o, ListsAnswers(o), NEW h, NEW metric
    PROVE  IsFiniteSet(Matching(o, h, metric)) /\ Matching(o, h, metric) \in SUBSET (Nat \X Nat)
<1> DEFINE A == AnswersAbout(o, h, metric)
           all == UNION {{i} \X DOMAIN o.series[i].result.series : i \in A}
           rows == [i \in A |-> {i} \X DOMAIN o.series[i].result.series]
<1>1. PICK n \in Nat : DOMAIN o.series = 1 .. n
    BY DEF ListsAnswers
<1>2. A \in SUBSET (1 .. n) /\ \A i \in A : o.series[i].result.ok
    BY <1>1 DEF AnswersAbout
<1>3. \A i \in A : \E m \in Nat : DOMAIN o.series[i].result.series = 1 .. m
    BY <1>1, <1>2 DEF ListsAnswers
<1> HIDE DEF A
<1>4. IsFiniteSet(A)
    <2>1. IsFiniteSet(1 .. n)
        BY FS_Interval
    <2>2. QED BY <1>2, <2>1, FS_Subset
<1>5. ASSUME NEW i \in A
      PROVE  rows[i] \in SUBSET (Nat \X Nat) /\ IsFiniteSet(rows[i])
    <2>1. PICK m \in Nat : DOMAIN o.series[i].result.series = 1 .. m
        BY <1>3
    <2>2. rows[i] = {i} \X (1 .. m)
        BY <2>1
    <2> DEFINE one == {i}
               many == 1 .. m
    <2>3. IsFiniteSet(one) /\ IsFiniteSet(many)
        <3>1. IsFiniteSet(one)
            BY FS_Singleton
        <3>2. IsFiniteSet(many)
            BY FS_Interval
        <3>3. QED BY <3>1, <3>2
    <2> HIDE DEF one, many
    <2>4. IsFiniteSet(one \X many)
        BY <2>3, FS_Product
    <2>5. i \in Nat
        BY <1>2
    <2>6. QED BY <2>2, <2>4, <2>5 DEF one, many
<1>6. DOMAIN rows = A /\ rows = [i \in A |-> rows[i]]
    OBVIOUS
<1>7. all = UNION {rows[i] : i \in A}
    OBVIOUS
<1> HIDE DEF rows, all
<1>8. IsFiniteSet({rows[i] : i \in A})
    BY <1>4, <1>6, ImageIsFinite
<1>9. IsFiniteSet(all)
    <2> DEFINE T == {rows[i] : i \in A}
    <2>1. \A x \in T : IsFiniteSet(x)
        BY <1>5
    <2> HIDE DEF T
    <2>2. IsFiniteSet(UNION T)
        BY <1>8, <2>1, FS_UNION DEF T
    <2>3. QED BY <1>7, <2>2 DEF T
<1>10. all \in SUBSET (Nat \X Nat)
    BY <1>5, <1>7
<1>11. Matching(o, h, metric) \in SUBSET all
    BY DEF Matching, all, A
<1>12. QED BY <1>9, <1>10, <1>11, FS_Subset

(* series_for answers with series that came, of the pair asked for.        *)
LEMMA SeriesForOf ==
    ASSUME NEW o, ListsAnswers(o), NEW h, NEW metric, NEW all, all = SeriesFor(o, h, metric)
    PROVE  \E n \in Nat :
              /\ DOMAIN all = 1 .. n /\ all = [c \in 1 .. n |-> all[c]]
              /\ \A c \in 1 .. n : \E p \in Matching(o, h, metric) :
                    all[c] = o.series[p[1]].result.series[p[2]]
<1> DEFINE matching == Matching(o, h, metric)
           at(p) == o.series[p[1]].result.series[p[2]]
           same(p) == {q \in matching : at(q).attributes = at(p).attributes}
           first == {p \in matching : \A q \in same(p) : ~CameBefore(q, p)}
           lastOf(p) == CHOOSE q \in same(p) : \A r \in same(p) : ~CameBefore(q, r)
           N == 1 .. Cardinality(first)
           place(n) == CHOOSE x \in first :
                          Cardinality({y \in first : CameBefore(y, x)}) = n - 1
           order == [n \in N |-> place(n)]
           R == {u \in first \X first : CameBefore(u[1], u[2])}
<1>1. IsFiniteSet(matching) /\ matching \in SUBSET (Nat \X Nat)
    BY MatchingOf
<1>2. first \in SUBSET matching
    OBVIOUS
<1>3. all = [n \in DOMAIN order |-> at(lastOf(order[n]))]
    BY DEF SeriesFor, Ranked
<1> HIDE DEF matching
<1>4. IsFiniteSet(first) /\ first \in SUBSET (Nat \X Nat)
    BY <1>1, <1>2, FS_Subset
<1> HIDE DEF first
<1>5. Cardinality(first) \in Nat
    BY <1>4, FS_CardinalityType
<1>6. StrictOrder(first, R)
    BY <1>4, PositionsAreOrdered
<1>7. \A p, q \in first : << p, q >> \in R <=> CameBefore(p, q)
    OBVIOUS
<1> HIDE DEF R
<1>8. ASSUME NEW n \in N PROVE place(n) \in first
    <2>1. \E x \in first : Rank(first, R, x) = n - 1
        BY <1>4, <1>6, EveryRank
    <2>2. \A x \in first : Rank(first, R, x) = Cardinality({y \in first : CameBefore(y, x)})
        <3>1. \A x \in first : Ahead(first, R, x) = {y \in first : CameBefore(y, x)}
            BY <1>7 DEF Ahead
        <3>2. QED BY <3>1 DEF Rank
    <2>3. \E x \in first : Cardinality({y \in first : CameBefore(y, x)}) = n - 1
        BY <2>1, <2>2
    <2>4. QED BY <2>3
<1> HIDE DEF place
<1>9. ASSUME NEW p \in matching PROVE lastOf(p) \in matching
    <2> DEFINE S == same(p)
               B == {u \in S \X S : CameBefore(u[2], u[1])}
    <2>1. S \in SUBSET matching /\ p \in S
        OBVIOUS
    <2>2. lastOf(p) = CHOOSE q \in S : \A r \in S : ~CameBefore(q, r)
        OBVIOUS
    <2> HIDE DEF S
    <2>3. IsFiniteSet(S) /\ S \in SUBSET (Nat \X Nat) /\ S # {}
        BY <1>1, <2>1, FS_Subset
    <2>4. StrictOrder(S, B)
        BY <2>3, PositionsAreOrdered
    <2>5. \A q, r \in S : << r, q >> \in B <=> CameBefore(q, r)
        OBVIOUS
    <2> HIDE DEF B
    <2>6. PICK q \in S : \A r \in S : << r, q >> \notin B
        BY <2>3, <2>4, FirstIn
    <2>7. \A r \in S : ~CameBefore(q, r)
        BY <2>5, <2>6
    <2>8. QED BY <2>1, <2>2, <2>7
<1>10. DOMAIN all = N
    BY <1>3
<1>11. ASSUME NEW c \in N PROVE \E p \in matching : all[c] = at(p)
    <2>1. order[c] \in first /\ all[c] = at(lastOf(order[c]))
        BY <1>3, <1>8
    <2>2. order[c] \in matching
        BY <1>2, <2>1
    <2> HIDE DEF order, lastOf
    <2>3. QED BY <1>9, <2>1, <2>2
<1>12. all = [c \in N |-> all[c]]
    <2> HIDE DEF order
    <2>1. QED BY <1>3, <1>10
<1> HIDE DEF N, at
<1>13. PICK n : n = Cardinality(first)
    OBVIOUS
<1>14. /\ n \in Nat /\ DOMAIN all = 1 .. n /\ all = [c \in 1 .. n |-> all[c]]
       /\ \A c \in 1 .. n : \E p \in matching : all[c] = at(p)
    BY <1>5, <1>10, <1>11, <1>12, <1>13 DEF N
<1>15. QED BY <1>14 DEF matching, at

(* The last series of an attribute set is among them.                      *)
LEMMA SeriesForHasLast ==
    ASSUME NEW o, ListsAnswers(o), NEW h, NEW metric, NEW all, all = SeriesFor(o, h, metric),
           NEW p \in Matching(o, h, metric),
           \A q \in Matching(o, h, metric) :
              o.series[q[1]].result.series[q[2]].attributes
                = o.series[p[1]].result.series[p[2]].attributes => ~CameBefore(p, q)
    PROVE  \E n \in DOMAIN all : all[n] = o.series[p[1]].result.series[p[2]]
<1> DEFINE matching == Matching(o, h, metric)
           at(q) == o.series[q[1]].result.series[q[2]]
           same(r) == {q \in matching : at(q).attributes = at(r).attributes}
           first == {r \in matching : \A q \in same(r) : ~CameBefore(q, r)}
           lastOf(q) == CHOOSE r \in same(q) : \A s \in same(q) : ~CameBefore(r, s)
           N == 1 .. Cardinality(first)
           place(n) == CHOOSE x \in first :
                          Cardinality({y \in first : CameBefore(y, x)}) = n - 1
           order == [n \in N |-> place(n)]
           R == {u \in first \X first : CameBefore(u[1], u[2])}
<1>1. IsFiniteSet(matching) /\ matching \in SUBSET (Nat \X Nat)
    BY MatchingOf
<1>2. first \in SUBSET matching
    OBVIOUS
<1>3. all = [n \in DOMAIN order |-> at(lastOf(order[n]))]
    BY DEF SeriesFor, Ranked
<1>4. p \in matching /\ \A q \in same(p) : ~CameBefore(p, q)
    OBVIOUS
<1> HIDE DEF matching
<1>5. IsFiniteSet(first) /\ first \in SUBSET (Nat \X Nat)
    BY <1>1, <1>2, FS_Subset
<1>6. PICK f \in first : at(f).attributes = at(p).attributes
    <2> DEFINE S == same(p)
               B == {u \in S \X S : CameBefore(u[1], u[2])}
    <2>1. S \in SUBSET matching /\ p \in S
        BY <1>4
    <2>2. \A q \in S : at(q).attributes = at(p).attributes /\ same(q) = S
        OBVIOUS
    <2> HIDE DEF S
    <2>3. IsFiniteSet(S) /\ S \in SUBSET (Nat \X Nat) /\ S # {}
        BY <1>1, <2>1, FS_Subset
    <2>4. StrictOrder(S, B)
        BY <2>3, PositionsAreOrdered
    <2>5. \A q, r \in S : << q, r >> \in B <=> CameBefore(q, r)
        OBVIOUS
    <2> HIDE DEF B
    <2>6. PICK q \in S : \A r \in S : << r, q >> \notin B
        BY <2>3, <2>4, FirstIn
    <2>7. \A r \in same(q) : ~CameBefore(r, q)
        BY <2>2, <2>5, <2>6
    <2> HIDE DEF same
    <2>8. q \in first
        BY <2>1, <2>7
    <2>9. QED BY <2>2, <2>8
<1>7. lastOf(f) = p
    <2> DEFINE S == same(f)
    <2>1. S = same(p)
        BY <1>6
    <2>2. p \in S /\ S \in SUBSET (Nat \X Nat)
        BY <1>1, <1>4, <2>1
    <2>3. lastOf(f) = CHOOSE r \in S : \A s \in S : ~CameBefore(r, s)
        OBVIOUS
    <2>4. \A s \in S : ~CameBefore(p, s)
        BY <1>4, <2>1
    <2> HIDE DEF S, lastOf
    <2>5. lastOf(f) \in S /\ \A s \in S : ~CameBefore(lastOf(f), s)
        BY <2>2, <2>3, <2>4
    <2> DEFINE q == lastOf(f)
    <2>6. q \in S /\ p \in S /\ ~CameBefore(p, q) /\ ~CameBefore(q, p)
        BY <2>2, <2>4, <2>5
    <2> HIDE DEF q
    <2> DEFINE T == {p, q}
               B == {u \in T \X T : CameBefore(u[1], u[2])}
    <2>7. T \in SUBSET (Nat \X Nat)
        BY <2>2, <2>6
    <2>8. StrictOrder(T, B)
        BY <2>7, PositionsAreOrdered
    <2>9. p # q => << p, q >> \in B \/ << q, p >> \in B
        BY <2>8 DEF StrictOrder
    <2>10. p = q
        BY <2>6, <2>9
    <2>11. QED BY <2>10 DEF q
<1> HIDE DEF first, lastOf
<1>8. Cardinality(first) \in Nat
    BY <1>5, FS_CardinalityType
<1>9. StrictOrder(first, R)
    BY <1>5, PositionsAreOrdered
<1>10. \A q, r \in first : << q, r >> \in R <=> CameBefore(q, r)
    OBVIOUS
<1> HIDE DEF R
<1>11. \A x \in first : Rank(first, R, x) = Cardinality({y \in first : CameBefore(y, x)})
    <2>1. \A x \in first : Ahead(first, R, x) = {y \in first : CameBefore(y, x)}
        BY <1>10 DEF Ahead
    <2>2. QED BY <2>1 DEF Rank
<1> DEFINE n == Rank(first, R, f) + 1
<1>12. n \in N /\ n - 1 = Rank(first, R, f)
    <2>1. Rank(first, R, f) \in Nat /\ Rank(first, R, f) < Cardinality(first)
        BY <1>5, <1>9, RankIsAPlace
    <2>2. QED BY <1>8, <2>1
<1> HIDE DEF n
<1>13. place(n) = f
    <2>1. place(n) = CHOOSE x \in first : Rank(first, R, x) = n - 1
        BY <1>11
    <2> HIDE DEF place
    <2>2. place(n) \in first /\ Rank(first, R, place(n)) = Rank(first, R, f)
        BY <1>12, <2>1
    <2>3. QED BY <1>5, <1>9, <2>2, SameRank
<1>14. DOMAIN all = N /\ all[n] = at(lastOf(place(n)))
    BY <1>3, <1>12
<1> HIDE DEF place, order
<1>15. QED BY <1>7, <1>12, <1>13, <1>14

(* The quotient of a natural number is no greater than the number.         *)
LEMMA QuotientIsWithin ==
    ASSUME NEW a \in Nat, NEW b \in Nat \ {0}
    PROVE  a \div b \in Nat /\ a \div b <= a
<1> DEFINE q == a \div b
           r == a % b
<1>1. q \in Int /\ r \in 0 .. b - 1 /\ a = b * q + r
    BY DivisionTheorem
<1> HIDE DEF q, r
<1>2. q >= 0
    <2> SUFFICES ASSUME q < 0 PROVE FALSE
        BY <1>1
    <2> DEFINE k == 0 - q
    <2>1. k \in Nat \ {0} /\ 0 \in Int
        BY <1>1
    <2>2. b * k = b * 0 - b * q
        BY <1>1, <2>1, Distributes
    <2> HIDE DEF k
    <2>3. b * k >= b /\ b * k \in Nat
        BY <2>1, ProductIsAtLeast
    <2>4. b * 0 = 0 /\ b * q \in Int
        BY <1>1
    <2>5. QED BY <1>1, <2>2, <2>3, <2>4
<1>3. q <= a
    <2>1. CASE q = 0
        BY <2>1
    <2>2. CASE q # 0
        <3>1. q \in Nat \ {0}
            BY <1>1, <1>2, <2>2
        <3>2. b * q >= q /\ b * q \in Nat
            BY <3>1, ProductIsAtLeast
        <3>3. QED BY <1>1, <3>1, <3>2
    <2>3. QED BY <2>1, <2>2
<1>4. q \in Nat
    BY <1>1, <1>2
<1>5. QED BY <1>3, <1>4 DEF q

(* A product grows with its factor.                                        *)
LEMMA ProductGrows ==
    ASSUME NEW b \in Nat \ {0}, NEW m \in Nat, NEW k \in Nat, m <= k
    PROVE  m * b \in Nat /\ m * b <= k * b
<1>1. CASE m = k
    <2>1. m * b \in Nat
        OBVIOUS
    <2>2. QED BY <1>1, <2>1
<1>2. CASE m # k
    <2>1. k - m \in Nat \ {0}
        BY <1>2
    <2>2. b * (k - m) \in Nat
        BY <2>1, ProductIsAtLeast
    <2>3. b * (k - m) = b * k - b * m
        BY Distributes
    <2>4. m * b = b * m /\ k * b = b * k /\ m * b \in Nat /\ k * b \in Int
        OBVIOUS
    <2>5. QED BY <2>2, <2>3, <2>4
<1>3. QED BY <1>1, <1>2

LEMMA IntervalIsFinite ==
    ASSUME NEW k \in Nat
    PROVE  IsFiniteSet(1 .. k)
BY FS_Interval

(* What differencing a counter leaves is no negative value, and none above  *)
(* what the counter read.                                                  *)
LEMMA DifferencedIs ==
    ASSUME NEW k \in Nat, NEW points, DOMAIN points = 1 .. k,
           \A i \in 1 .. k : points[i].at \in Int /\ points[i].value \in Nat,
           NEW perSecond \in BOOLEAN, NEW d, d = Differenced(points, perSecond),
           NEW n \in DOMAIN d
    PROVE  0 <= d[n].value /\ \E i \in 1 .. k : d[n].value <= points[i].value * Second
<1>0. IsFiniteSet(1 .. k)
    BY IntervalIsFinite
<1> DEFINE elapsed(i) == points[i].at - points[i - 1].at
           kept == {i \in Later(points) :
                       ~Falls(points, i) /\ (perSecond => elapsed(i) > 0)}
           added(i) == points[i].value - points[i - 1].value
           worth(i) == IF perSecond THEN (added(i) * Second) \div elapsed(i) ELSE added(i)
           stamped(i) == [at |-> points[i].at, value |-> worth(i)]
           order == Ascending(kept)
<1>1. d = [m \in DOMAIN order |-> stamped(order[m])]
    BY DEF Differenced
<1>2. kept \in SUBSET (2 .. k)
    BY DEF Later
<1>3. kept \in SUBSET Int /\ IsFiniteSet(kept)
    <2>1. IsFiniteSet(1 .. k)
        BY <1>0
    <2>2. kept \in SUBSET (1 .. k) /\ kept \in SUBSET Int
        BY <1>2
    <2> HIDE DEF kept
    <2>3. QED BY <2>1, <2>2, FS_Subset
<1>4. \A i \in kept : points[i].value >= points[i - 1].value /\ (perSecond => elapsed(i) > 0)
    BY <1>2 DEF Falls
<1> HIDE DEF kept
<1>5. order \in [1 .. Cardinality(kept) -> kept]
    BY <1>3, AscendingOf
<1>6. PICK i \in kept : d[n].value = worth(i)
    BY <1>1, <1>5
<1> DEFINE v == points[i].value
           a == added(i)
           e == elapsed(i)
<1>7. /\ i \in 1 .. k /\ i - 1 \in 1 .. k
      /\ v \in Nat /\ a \in Nat /\ a <= v /\ e \in Int /\ (perSecond => e > 0)
    BY <1>2, <1>4, <1>6
<1>8. d[n].value = IF perSecond THEN (a * Second) \div e ELSE a
    BY <1>6
<1> HIDE DEF v, a, e
<1>9. Second \in Nat \ {0}
    BY TelemetryAssumption
<1>10. a * Second \in Nat /\ a * Second <= v * Second /\ v * Second \in Nat
    <2>1. v <= v
        BY <1>7
    <2>2. QED BY <1>7, <1>9, <2>1, ProductGrows
<1>11. d[n].value \in Nat /\ d[n].value <= v * Second
    <2>1. CASE perSecond
        <3> DEFINE x == a * Second
        <3>1. x \in Nat /\ e \in Nat \ {0}
            BY <1>7, <1>10, <2>1
        <3> HIDE DEF x
        <3>2. x \div e \in Nat /\ x \div e <= x
            BY <3>1, QuotientIsWithin
        <3>3. d[n].value = x \div e
            BY <1>8, <2>1 DEF x
        <3>4. x <= v * Second
            BY <1>10 DEF x
        <3>5. QED BY <1>10, <3>1, <3>2, <3>3, <3>4
    <2>2. CASE ~perSecond
        <3>1. a <= a * Second
            <4>1. CASE a = 0
                BY <1>10, <4>1
            <4>2. CASE a # 0
                <5>1. a \in Nat \ {0}
                    BY <1>7, <4>2
                <5>2. a * Second >= a
                    BY <1>9, <5>1, ProductIsAtLeast
                <5>3. QED BY <1>7, <1>10, <5>2
            <4>3. QED BY <4>1, <4>2
        <3>2. d[n].value = a
            BY <1>8, <2>2
        <3>3. QED BY <1>7, <1>10, <3>1, <3>2
    <2>3. QED BY <2>1, <2>2
<1>12. 0 <= d[n].value /\ d[n].value <= points[i].value * Second
    BY <1>11 DEF v
<1>13. QED BY <1>7, <1>12
=============================================================================
