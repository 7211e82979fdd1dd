--------------------------- MODULE OperatorProofs ---------------------------
(***************************************************************************)
(* Proofs about the operators of PriceSlots, ModelInputs, SeriesDocuments, *)
(* OutageDocuments and Scoring, for every calendar of days of any lengths  *)
(* or, where a time of day counts, of days whose clocks change by an hour; *)
(* for every size of slots, hours, windows and pages; and for every input: *)
(* the samples of a source, what it publishes and which requests fail,     *)
(* what was known before, the predictions stored.                          *)
(***************************************************************************)
EXTENDS Scoring, SeriesDocuments, ModelInputs, OutageDocuments,
        SequenceTheorems, FiniteSetTheorems, WellFoundedInduction, TLAPS

\* A set of numbers has a least one: what takes the place of an induction here.
LEMMA LeastExists == ASSUME NEW S \in SUBSET Nat, S # {}
                     PROVE  \E m \in S : \A k \in S : m <= k
<1> DEFINE R == {ss \in Nat \X Nat : ss[1] < ss[2]}
<1>1. IsWellFoundedOn(R, Nat)
    BY NatLessThanWellFounded DEF OpToRel
<1>2. PICK m \in S : \A k \in S : ~ (<<k, m>> \in R)
    <2> HIDE DEF R
    <2> QED
        BY <1>1, WFMin
<1>3. ASSUME NEW k \in S PROVE m <= k
    <2>1. k \in Nat /\ m \in Nat /\ ~ (<<k, m>> \in R)
        BY <1>2
    <2> QED
        BY <2>1
<1> QED
    BY <1>3
-----------------------------------------------------------------------------
(* The timeline *)

PartialSums(f, n) == f = [d \in 1..n |-> IF d = 1 THEN 0 ELSE f[d - 1] + Len(Wall[d - 1])]

LEMMA MidnightExists == \A n \in Nat : \E f : PartialSums(f, n)
<1> DEFINE B == {n \in Nat : \A f : ~PartialSums(f, n)}
<1>1. SUFFICES B = {}
    OBVIOUS
<1>2. SUFFICES ASSUME B # {} PROVE FALSE
    OBVIOUS
<1>3. PICK m \in B : \A k \in B : m <= k
    BY <1>2, LeastExists
<1>4. CASE m = 0
    <2> DEFINE f == [d \in 1..0 |-> 0]
    <2>1. 1..0 = {}
        OBVIOUS
    <2>2. PartialSums(f, 0)
        BY <2>1 DEF PartialSums
    <2> QED
        BY <2>2, <1>4
<1>5. CASE m # 0
    <2>1. m \in Nat /\ m - 1 \in Nat /\ m - 1 \notin B
        BY <1>3, <1>5
    <2>2. PICK f : PartialSums(f, m - 1)
        BY <2>1
    <2> DEFINE T(d, x) == IF d = 1 THEN 0 ELSE x + Len(Wall[d - 1])
               g == [d \in 1..m |-> IF d = m THEN T(m, f[m - 1]) ELSE f[d]]
    <2>3. ASSUME NEW d \in 1..m PROVE g[d] = T(d, g[d - 1])
        <3>1. CASE d = m
            <4>1. CASE m = 1
                BY <3>1, <4>1
            <4>2. CASE m # 1
                <5>1. m - 1 \in 1..m /\ m - 1 # m
                    BY <2>1, <4>2
                <5> QED
                    BY <3>1, <5>1
            <4> QED
                BY <4>1, <4>2
        <3>2. CASE d # m
            <4>1. d \in 1..(m - 1) /\ g[d] = f[d]
                BY <3>2, <2>1
            <4>2. f[d] = T(d, f[d - 1])
                BY <4>1, <2>2 DEF PartialSums
            <4>3. CASE d = 1
                BY <4>1, <4>2, <4>3
            <4>4. CASE d # 1
                <5>1. d - 1 \in 1..m /\ d - 1 # m
                    BY <4>1, <4>4, <2>1
                <5>2. g[d - 1] = f[d - 1]
                    BY <5>1
                <5> QED
                    BY <4>1, <4>2, <5>2
            <4> QED
                BY <4>3, <4>4
        <3> QED
            BY <3>1, <3>2
    <2>4. g = [d \in 1..m |-> g[d]]
        OBVIOUS
    <2>5. PartialSums(g, m)
        <3> HIDE DEF g
        <3> QED
            BY <2>3, <2>4 DEF PartialSums
    <2> HIDE DEF g
    <2> QED
        BY <2>5, <1>3
<1> QED
    BY <1>4, <1>5

\* Midnight adds up the lengths of the days before.
LEMMA MidnightIsSum ==
    /\ Midnight[1] = 0
    /\ \A d \in DOMAIN Wall : Midnight[d + 1] = Midnight[d] + Len(Wall[d])
<1>1. Len(Wall) \in Nat /\ DOMAIN Wall = 1..Len(Wall)
    BY WallAssumption
<1>2. PartialSums(Midnight, Len(Wall) + 1)
    <2>1. \E f : PartialSums(f, Len(Wall) + 1)
        BY <1>1, MidnightExists
    <2> QED
        BY <2>1 DEF PartialSums, Midnight
<1>3. \A d \in 1..(Len(Wall) + 1) :
          Midnight[d] = IF d = 1 THEN 0 ELSE Midnight[d - 1] + Len(Wall[d - 1])
    <2> DEFINE M == Midnight
    <2>1. M = [d \in 1..(Len(Wall) + 1) |-> IF d = 1 THEN 0 ELSE M[d - 1] + Len(Wall[d - 1])]
        BY <1>2 DEF PartialSums
    <2> HIDE DEF M
    <2>2. \A d \in 1..(Len(Wall) + 1) : M[d] = IF d = 1 THEN 0 ELSE M[d - 1] + Len(Wall[d - 1])
        BY <2>1
    <2> QED
        BY <2>2 DEF M
<1>4. ASSUME NEW d \in DOMAIN Wall PROVE Midnight[d + 1] = Midnight[d] + Len(Wall[d])
    <2>1. d + 1 \in 1..(Len(Wall) + 1) /\ d + 1 # 1 /\ (d + 1) - 1 = d
        BY <1>1
    <2> QED
        BY <2>1, <1>3
<1> QED
    BY <1>1, <1>3, <1>4

LEMMA Greatest == ASSUME NEW S, NEW a \in Int, NEW b \in Int, S \subseteq a..b, S # {}
                  PROVE  \E m \in S : \A k \in S : k <= m
<1>1. {b - s : s \in S} \in SUBSET Nat /\ {b - s : s \in S} # {}
    <2>1. {b - s : s \in S} \in SUBSET Nat
        OBVIOUS
    <2>2. {b - s : s \in S} # {}
        OBVIOUS
    <2> QED
        BY <2>1, <2>2
<1>2. PICK m \in {b - s : s \in S} : \A k \in {b - s : s \in S} : m <= k
    BY <1>1, LeastExists
<1>3. PICK s \in S : m = b - s
    BY <1>2
<1>4. ASSUME NEW k \in S PROVE k <= s
    <2>1. b - k >= m
        BY <1>2
    <2>2. k \in Int /\ s \in Int
        OBVIOUS
    <2> QED
        BY <2>1, <2>2, <1>3
<1> QED
    BY <1>4

LEMMA Lowest == ASSUME NEW S, NEW a \in Int, NEW b \in Int, S \subseteq a..b, S # {}
                PROVE  \E m \in S : \A k \in S : m <= k
<1>1. {s - a : s \in S} \in SUBSET Nat /\ {s - a : s \in S} # {}
    <2>1. {s - a : s \in S} \in SUBSET Nat
        OBVIOUS
    <2>2. {s - a : s \in S} # {}
        OBVIOUS
    <2> QED
        BY <2>1, <2>2
<1>2. PICK m \in {s - a : s \in S} : \A k \in {s - a : s \in S} : m <= k
    BY <1>1, LeastExists
<1>3. PICK s \in S : m = s - a
    BY <1>2
<1>4. ASSUME NEW k \in S PROVE s <= k
    <2>1. k - a >= m
        BY <1>2
    <2>2. k \in Int /\ s \in Int
        OBVIOUS
    <2> QED
        BY <2>1, <2>2, <1>3
<1> QED
    BY <1>4

\* The extrema of a bounded set are members of it.
LEMMA MaxIs == ASSUME NEW S, NEW a \in Int, NEW b \in Int, S \subseteq a..b, S # {}
               PROVE  Max(S) \in S /\ \A k \in S : k <= Max(S)
<1>1. PICK m \in S : \A k \in S : k <= m
    BY Greatest
<1>2. \A k \in S : m >= k
    BY <1>1
<1>3. Max(S) \in S /\ \A k \in S : Max(S) >= k
    BY <1>2 DEF Max
<1> QED
    BY <1>3

LEMMA MinIs == ASSUME NEW S, NEW a \in Int, NEW b \in Int, S \subseteq a..b, S # {}
               PROVE  Min(S) \in S /\ \A k \in S : Min(S) <= k
<1>1. PICK m \in S : \A k \in S : m <= k
    BY Lowest
<1> QED
    BY <1>1 DEF Min

LEMMA PairExtrema == ASSUME NEW a \in Int, NEW b \in Int
                     PROVE  /\ Max({a, b}) = (IF a >= b THEN a ELSE b)
                            /\ Min({a, b}) = (IF a <= b THEN a ELSE b)
<1> DEFINE low == IF a <= b THEN a ELSE b
           high == IF a >= b THEN a ELSE b
<1>1. low \in Int /\ high \in Int /\ {a, b} \subseteq low..high /\ {a, b} # {}
    OBVIOUS
<1>2. Max({a, b}) \in {a, b} /\ \A k \in {a, b} : k <= Max({a, b})
    BY <1>1, MaxIs
<1>3. Min({a, b}) \in {a, b} /\ \A k \in {a, b} : Min({a, b}) <= k
    BY <1>1, MinIs
<1> QED
    BY <1>2, <1>3
-----------------------------------------------------------------------------
(* Days *)

LEMMA Calendar ==
    /\ Len(Wall) \in Nat /\ DOMAIN Wall = 1..Len(Wall)
    /\ \A d \in DOMAIN Wall : Len(Wall[d]) \in Nat /\ Len(Wall[d]) > 0
                              /\ DOMAIN Wall[d] = 1..Len(Wall[d]) /\ Wall[d] \in Seq(Nat)
<1>1. \A d \in DOMAIN Wall : Wall[d] \in Seq(Nat) /\ Len(Wall[d]) > 0
    BY WallAssumption
<1> QED
    BY <1>1, WallAssumption

LEMMA MidnightsAreSlots == \A d \in 1..(Len(Wall) + 1) : Midnight[d] \in Nat
<1> DEFINE B == {n \in Nat : n \in 1..(Len(Wall) + 1) /\ Midnight[n] \notin Nat}
<1>1. SUFFICES ASSUME B # {} PROVE FALSE
    BY Calendar
<1>2. PICK m \in B : \A k \in B : m <= k
    BY <1>1, LeastExists
<1>3. m # 1
    BY MidnightIsSum
<1>4. m - 1 \in Nat /\ m - 1 \in DOMAIN Wall /\ (m - 1) + 1 = m
    BY <1>2, <1>3, Calendar
<1>5. Midnight[m - 1] \in Nat
    <2>1. m - 1 \notin B
        BY <1>2, <1>4
    <2> QED
        BY <2>1, <1>4, Calendar
<1> QED
    BY <1>2, <1>4, <1>5, MidnightIsSum, Calendar

LEMMA MidnightsIncrease ==
    \A d, e \in 1..(Len(Wall) + 1) : d < e => Midnight[d] < Midnight[e]
<1> SUFFICES ASSUME NEW d \in 1..(Len(Wall) + 1)
             PROVE  \A e \in 1..(Len(Wall) + 1) : d < e => Midnight[d] < Midnight[e]
    OBVIOUS
<1> DEFINE B == {e \in Nat : e \in 1..(Len(Wall) + 1) /\ d < e /\ ~(Midnight[d] < Midnight[e])}
<1>1. SUFFICES ASSUME B # {} PROVE FALSE
    BY Calendar
<1>2. PICK m \in B : \A k \in B : m <= k
    BY <1>1, LeastExists
<1>3. m - 1 \in Nat /\ m - 1 \in DOMAIN Wall /\ (m - 1) + 1 = m /\ m - 1 >= d
    BY <1>2, Calendar
<1>4. Midnight[d] <= Midnight[m - 1]
    <2>1. CASE m - 1 = d
        BY <2>1, MidnightsAreSlots
    <2>2. CASE m - 1 # d
        <3>1. m - 1 \notin B
            BY <1>2, <1>3
        <3> QED
            BY <3>1, <2>2, <1>3, Calendar, MidnightsAreSlots
    <2> QED
        BY <2>1, <2>2
<1>5. Midnight[m] = Midnight[m - 1] + Len(Wall[m - 1]) /\ Len(Wall[m - 1]) > 0
      /\ Len(Wall[m - 1]) \in Nat
    BY <1>3, MidnightIsSum, Calendar
<1> QED
    BY <1>2, <1>3, <1>4, <1>5, MidnightsAreSlots, Calendar

LEMMA DayLength == ASSUME NEW d \in DOMAIN Wall
                   PROVE  /\ SlotsIn(d) = Len(Wall[d]) /\ SlotsIn(d) \in Nat \ {0}
                          /\ Midnight[d] \in Nat /\ Midnight[d + 1] \in Nat
                          /\ Midnight[d + 1] = Midnight[d] + SlotsIn(d)
    BY Calendar, MidnightIsSum, MidnightsAreSlots DEF SlotsIn

Horizon == Midnight[Len(Wall) + 1]
Timeline == 0..(Horizon - 1)
Lasts(d, s) == Midnight[d] <= s /\ s < Midnight[d + 1]

LEMMA OneDay == ASSUME NEW d \in DOMAIN Wall, NEW s \in Int, Lasts(d, s)
                PROVE  DayOf(s) = d /\ s \in Timeline
<1>1. \A e \in DOMAIN Wall : Lasts(e, s) => e = d
    <2> SUFFICES ASSUME NEW e \in DOMAIN Wall, Lasts(e, s), e # d PROVE FALSE
        OBVIOUS
    <2>1. d \in 1..(Len(Wall) + 1) /\ e \in 1..(Len(Wall) + 1)
          /\ d + 1 \in 1..(Len(Wall) + 1) /\ e + 1 \in 1..(Len(Wall) + 1)
        BY Calendar
    <2>2. CASE d < e
        <3>1. d + 1 = e \/ d + 1 < e
            BY <2>1, <2>2, Calendar
        <3>2. Midnight[d + 1] <= Midnight[e]
            BY <3>1, <2>1, MidnightsIncrease, MidnightsAreSlots
        <3> QED
            BY <3>2, <2>1, MidnightsAreSlots DEF Lasts
    <2>3. CASE e < d
        <3>1. e + 1 = d \/ e + 1 < d
            BY <2>1, <2>3, Calendar
        <3>2. Midnight[e + 1] <= Midnight[d]
            BY <3>1, <2>1, MidnightsIncrease, MidnightsAreSlots
        <3> QED
            BY <3>2, <2>1, MidnightsAreSlots DEF Lasts
    <2> QED
        BY <2>1, <2>2, <2>3
<1>2. DayOf(s) = d
    BY <1>1 DEF DayOf, Lasts
<1>3. s \in Timeline
    <2>1. d + 1 \in 1..(Len(Wall) + 1) /\ Len(Wall) + 1 \in 1..(Len(Wall) + 1)
          /\ d \in 1..(Len(Wall) + 1)
          /\ (d + 1 = Len(Wall) + 1 \/ d + 1 < Len(Wall) + 1)
        BY Calendar
    <2>2. Midnight[d + 1] <= Midnight[Len(Wall) + 1]
        BY <2>1, MidnightsIncrease, MidnightsAreSlots
    <2> QED
        BY <2>1, <2>2, MidnightsAreSlots DEF Lasts, Timeline, Horizon
<1> QED
    BY <1>2, <1>3

\* Whatever the lengths of the local days, each slot of the timeline belongs
\* to one of them and has one place in it (time_slots.py).
THEOREM EverySlotHasItsDay ==
    ASSUME NEW s \in Timeline
    PROVE  /\ DayOf(s) \in DOMAIN Wall /\ Lasts(DayOf(s), s)
           /\ IndexIn(s) \in 1..SlotsIn(DayOf(s))
           /\ s = Midnight[DayOf(s)] + IndexIn(s) - 1
<1> DEFINE B == {d \in Nat : d \in DOMAIN Wall /\ s < Midnight[d + 1]}
<1>1. Len(Wall) \in B
    <2>1. Len(Wall) # 0
        <3> SUFFICES ASSUME Len(Wall) = 0 PROVE FALSE
            OBVIOUS
        <3>1. Midnight[Len(Wall) + 1] = 0
            BY MidnightIsSum
        <3> QED
            BY <3>1 DEF Timeline, Horizon
    <2>2. Len(Wall) \in DOMAIN Wall /\ Len(Wall) + 1 \in 1..(Len(Wall) + 1)
        BY <2>1, Calendar
    <2> QED
        BY <2>2, Calendar, MidnightsAreSlots DEF Timeline, Horizon
<1>2. PICK d \in B : \A k \in B : d <= k
    BY <1>1, LeastExists
<1>3. Midnight[d] <= s
    <2>1. CASE d = 1
        BY <2>1, MidnightIsSum DEF Timeline, Horizon
    <2>2. CASE d # 1
        <3>1. d \in 1..Len(Wall) /\ Len(Wall) \in Nat
            BY <1>2, Calendar
        <3>2. d - 1 \in Nat /\ d - 1 \in DOMAIN Wall /\ (d - 1) + 1 = d /\ ~(d <= d - 1)
              /\ d \in 1..(Len(Wall) + 1)
            BY <2>2, <3>1, Calendar
        <3>3. d - 1 \notin B
            BY <1>2, <3>2
        <3>4. ~(s < Midnight[d])
            BY <3>2, <3>3
        <3> QED
            BY <3>2, <3>4, MidnightsAreSlots DEF Timeline, Horizon
    <2> QED
        BY <2>1, <2>2
<1>4. Lasts(d, s) /\ s \in Int /\ d \in DOMAIN Wall
    BY <1>2, <1>3 DEF Lasts, Timeline, Horizon
<1>5. DayOf(s) = d
    BY <1>4, OneDay
<1>6. IndexIn(s) = s - Midnight[d] + 1
    BY <1>5 DEF IndexIn
<1> QED
    BY <1>4, <1>5, <1>6, DayLength DEF Lasts
-----------------------------------------------------------------------------
(* Placing prices on the grid: price_series.py *)

LEMMA MinOfNats == ASSUME NEW S \in SUBSET Nat, S # {}
                   PROVE  Min(S) \in S /\ \A k \in S : Min(S) <= k
<1>1. PICK m \in S : \A k \in S : m <= k
    BY LeastExists
<1> QED
    BY <1>1 DEF Min

\* A finite set has an element that none of it is above.
LEMMA Topmost ==
    ASSUME NEW S, IsFiniteSet(S), S # {}, NEW R,
           \A x \in S : <<x, x>> \notin R,
           \A x, y, z \in S : <<z, y>> \in R /\ <<y, x>> \in R => <<z, x>> \in R
    PROVE  \E m \in S : \A k \in S : <<k, m>> \notin R
<1> DEFINE above(x) == {k \in S : <<k, x>> \in R}
           count(x) == Cardinality(above(x))
           counts == {count(x) : x \in S}
<1>1. \A x \in S : IsFiniteSet(above(x)) /\ count(x) \in Nat
    BY FS_Subset, FS_CardinalityType
<1>2. counts \in SUBSET Nat /\ counts # {}
    <2>1. PICK x \in S : TRUE
        OBVIOUS
    <2>2. count(x) \in counts
        OBVIOUS
    <2>3. \A n \in counts : n \in Nat
        <3> HIDE DEF count
        <3> QED
            BY <1>1
    <2> QED
        BY <2>2, <2>3
<1>3. PICK c \in counts : \A n \in counts : c <= n
    <2> HIDE DEF counts
    <2> QED
        BY <1>2, LeastExists
<1>4. PICK m \in S : c = count(m)
    OBVIOUS
<1>5. ASSUME NEW k \in S, <<k, m>> \in R PROVE FALSE
    <2>1. above(k) \subseteq above(m) /\ k \in above(m) /\ k \notin above(k)
        BY <1>5
    <2>2. Cardinality(above(k)) < Cardinality(above(m))
        <3> HIDE DEF above
        <3>1. /\ Cardinality(above(k)) <= Cardinality(above(m))
              /\ Cardinality(above(m)) = Cardinality(above(k)) => above(m) = above(k)
            BY <2>1, <1>1, FS_Subset
        <3> QED
            BY <3>1, <2>1, <1>1
    <2>3. c <= count(k)
        <3> HIDE DEF count
        <3> QED
            BY <1>3
    <2> QED
        BY <2>2, <2>3, <1>1, <1>4
<1> QED
    BY <1>5

\* How far a list reaches, whatever it holds.
LEMMA ListLength == ASSUME NEW f, NEW n \in Nat, f = [i \in 1..n |-> f[i]]
                    PROVE  Len(f) = n /\ DOMAIN f = 1..n
<1> DEFINE T == {f[i] : i \in 1..n}
<1>1. f \in [1..n -> T]
    OBVIOUS
<1>2. f \in Seq(T)
    BY <1>1, SeqDef
<1> QED
    BY <1>1, <1>2, LenProperties

LEMMA SlotsInOrder == \A t, u \in Int : t <= u => /\ Slot(t) \in Int /\ Slot(u) \in Int
                                                  /\ Slot(t) <= Slot(u)
    BY TicksAssumption DEF Slot

LEMMA SlotsAreIntegers == \A t \in Int : Slot(t) \in Int
    BY TicksAssumption DEF Slot

Sample == [start : Nat, end : Nat \union {None}, price : Int \ {None}]
Starts(samples) == {samples[i].start : i \in DOMAIN samples}
Over(samples, s) == {i \in DOMAIN samples : s \in Covers(samples[i], Resolution(Starts(samples)))}
LastOf(samples, S) == CHOOSE i \in S : \A j \in S :
    \/ samples[j].start < samples[i].start
    \/ (samples[j].start = samples[i].start /\ j <= i)
Placed(samples, d) ==
    [i \in 1..SlotsIn(d) |->
        LET S == Over(samples, Midnight[d] + i - 1)
        IN  IF S = {} THEN None ELSE samples[LastOf(samples, S)].price]

LEMMA AlignIs == \A samples, d :
    AlignToGrid(samples, d) = IF Known(Placed(samples, d)) = << >> THEN << >>
                              ELSE Filled(Placed(samples, d))
    BY DEF AlignToGrid, Placed, Over, LastOf, Starts

LEMMA ResolutionBounds == ASSUME NEW S \in SUBSET Nat
                          PROVE  /\ Resolution(S) \in Nat /\ Resolution(S) > 0
                                 /\ Resolution(S) <= SlotsPerHour * Ticks
<1> DEFINE gaps == {p[2] - p[1] : p \in {p \in S \X S : p[1] < p[2]}}
<1>1. gaps \in SUBSET Nat
    <2> SUFFICES ASSUME NEW p \in S \X S, p[1] < p[2] PROVE p[2] - p[1] \in Nat
        OBVIOUS
    <2>1. p[1] \in Nat /\ p[2] \in Nat
        OBVIOUS
    <2> QED
        BY <2>1
<1>2. Ticks \in Nat /\ Ticks > 0 /\ SlotsPerHour * Ticks \in Nat /\ Ticks <= SlotsPerHour * Ticks
    BY TicksAssumption, HourAssumption
<1>3. CASE gaps = {}
    <2>1. Resolution(S) = Ticks
        BY <1>3 DEF Resolution
    <2> QED
        BY <2>1, <1>2
<1>4. CASE gaps # {}
    <2>1. Min(gaps) \in Nat
        <3> HIDE DEF gaps
        <3> QED
            BY <1>1, <1>4, MinOfNats
    <2>2. Resolution(S) = Min({Max({Min(gaps), Ticks}), SlotsPerHour * Ticks})
        BY <1>4 DEF Resolution
    <2> HIDE DEF gaps
    <2>3. Max({Min(gaps), Ticks}) \in Nat /\ Max({Min(gaps), Ticks}) >= Ticks
        BY <2>1, <1>2, PairExtrema
    <2> DEFINE longer == Max({Min(gaps), Ticks})
               hour == SlotsPerHour * Ticks
    <2>4. longer \in Int /\ hour \in Int /\ Resolution(S) = Min({longer, hour})
        BY <2>2, <2>3, <1>2
    <2>5. longer >= Ticks /\ longer > 0 /\ hour > 0
        BY <2>3, <1>2
    <2> HIDE DEF longer, hour
    <2>6. Min({longer, hour}) = (IF longer <= hour THEN longer ELSE hour)
        BY <2>4, PairExtrema
    <2>7. Resolution(S) \in Nat /\ Resolution(S) > 0 /\ Resolution(S) <= hour
        BY <2>4, <2>5, <2>6
    <2> QED
        BY <2>7 DEF hour
<1> QED
    BY <1>3, <1>4

\* How long a sample may be taken to last.
Stop(x) == IF x.end = None THEN x.start + SlotsPerHour * Ticks ELSE x.end
Within(x, s, slack) == /\ Slot(x.start) <= s
                       /\ s < Max({Slot(Stop(x)), Slot(x.start) + 1}) + slack

LEMMA CoveredIsWithin ==
    ASSUME NEW x \in Sample, NEW res \in Nat, res <= SlotsPerHour * Ticks, NEW s \in Int,
           s \in Covers(x, res)
    PROVE  Within(x, s, 0)
<1> DEFINE end == IF x.end = None THEN x.start + res ELSE x.end
<1>1. x.start \in Int /\ end \in Int /\ Stop(x) \in Int /\ end <= Stop(x)
    BY TicksAssumption, HourAssumption DEF Sample, Stop
<1>2. s \in Slot(x.start)..Max({Slot(end) - 1, Slot(x.start)})
    BY DEF Covers
<1> HIDE DEF end
<1>3. Slot(x.start) \in Int /\ Slot(end) \in Int /\ Slot(Stop(x)) \in Int /\ Slot(end) <= Slot(Stop(x))
    BY <1>1, SlotsInOrder
<1>4. Max({Slot(end) - 1, Slot(x.start)}) = (IF Slot(end) - 1 >= Slot(x.start) THEN Slot(end) - 1 ELSE Slot(x.start))
    BY <1>3, PairExtrema
<1>5. Max({Slot(Stop(x)), Slot(x.start) + 1})
        = (IF Slot(Stop(x)) >= Slot(x.start) + 1 THEN Slot(Stop(x)) ELSE Slot(x.start) + 1)
    BY <1>3, PairExtrema
<1> QED
    BY <1>2, <1>3, <1>4, <1>5 DEF Within

LEMMA LastIsOne ==
    ASSUME NEW samples \in Seq(Sample), NEW S, S \subseteq DOMAIN samples, S # {}
    PROVE  /\ LastOf(samples, S) \in S
           /\ \A j \in S : \/ samples[j].start < samples[LastOf(samples, S)].start
                           \/ /\ samples[j].start = samples[LastOf(samples, S)].start
                              /\ j <= LastOf(samples, S)
<1> DEFINE At(i) == samples[i].start
           R == {e \in (DOMAIN samples) \X (DOMAIN samples) :
                    At(e[2]) < At(e[1]) \/ (At(e[1]) = At(e[2]) /\ e[2] < e[1])}
<1>1. DOMAIN samples = 1..Len(samples) /\ Len(samples) \in Nat
    OBVIOUS
<1>2. IsFiniteSet(S)
    <2>1. 1 \in Int /\ Len(samples) \in Int /\ S \in SUBSET (1..Len(samples))
        BY <1>1
    <2>2. IsFiniteSet(1..Len(samples))
        BY <2>1, FS_Interval
    <2> QED
        BY <2>1, <2>2, FS_Subset
<1>3. \A i \in DOMAIN samples : At(i) \in Nat /\ i \in Nat
    <2> SUFFICES ASSUME NEW i \in DOMAIN samples PROVE At(i) \in Nat /\ i \in Nat
        OBVIOUS
    <2>1. samples[i] \in Sample
        BY <1>1
    <2> QED
        BY <1>1, <2>1 DEF Sample
<1> HIDE DEF At
<1>4. \A i, j \in DOMAIN samples :
          <<j, i>> \in R <=> (At(i) < At(j) \/ (At(j) = At(i) /\ i < j))
    OBVIOUS
<1> HIDE DEF R
<1>5. \A x \in S : <<x, x>> \notin R
    BY <1>3, <1>4
<1>6. \A x, y, z \in S : <<z, y>> \in R /\ <<y, x>> \in R => <<z, x>> \in R
    BY <1>3, <1>4
<1>7. PICK m \in S : \A k \in S : <<k, m>> \notin R
    BY <1>2, <1>5, <1>6, Topmost
<1>8. ASSUME NEW j \in S PROVE At(j) < At(m) \/ (At(j) = At(m) /\ j <= m)
    <2>1. ~(At(m) < At(j) \/ (At(j) = At(m) /\ m < j))
        BY <1>4, <1>7
    <2>2. At(j) \in Nat /\ At(m) \in Nat /\ j \in Nat /\ m \in Nat
        BY <1>3
    <2> QED
        BY <2>1, <2>2
<1>9. \E i \in S : \A j \in S : \/ samples[j].start < samples[i].start
                               \/ (samples[j].start = samples[i].start /\ j <= i)
    BY <1>8 DEF At
<1> QED
    BY <1>9 DEF LastOf
\* A hole is filled with an earlier value, no further than MaxFill from it;
\* nothing else changes.
LEMMA FilledIs ==
    ASSUME NEW n \in Nat, NEW values \in [1..n -> Int], NEW i \in 1..n
    PROVE  /\ Filled(values) = [k \in 1..n |-> Filled(values)[k]]
           /\ values[i] # None => Filled(values)[i] = values[i]
           /\ Filled(values)[i] # None =>
                 \E j \in 1..n : /\ j <= i /\ i - j <= MaxFill
                                 /\ values[j] # None /\ Filled(values)[i] = values[j]
<1> DEFINE before == {j \in DOMAIN values : j <= i /\ values[j] # None}
           after  == {j \in DOMAIN values : j >= i /\ values[j] # None}
           short  == before # {} /\ after # {} /\ Min(after) - Max(before) - 1 <= MaxFill
<1>1. Filled(values)[i] = IF short THEN values[Max(before)] ELSE values[i]
    BY DEF Filled
<1>2. Filled(values) = [k \in 1..n |-> Filled(values)[k]]
    BY DEF Filled
<1>3. before \subseteq 1..n /\ after \subseteq 1..n
    OBVIOUS
<1>4. before # {} => Max(before) \in before /\ (\A k \in before : k <= Max(before))
    <2>1. 1 \in Int /\ n \in Int
        OBVIOUS
    <2> HIDE DEF before
    <2> QED
        BY <1>3, <2>1, MaxIs
<1>5. after # {} => Min(after) \in after /\ (\A k \in after : Min(after) <= k)
    <2>1. 1 \in Int /\ n \in Int
        OBVIOUS
    <2> HIDE DEF after
    <2> QED
        BY <1>3, <2>1, MinIs
<1>6. ASSUME values[i] # None
      PROVE  Filled(values)[i] = values[i]
    <2>1. i \in before
        BY <1>6
    <2>2. Max(before) = i
        <3>1. Max(before) \in before /\ i <= Max(before)
            <4> HIDE DEF before
            <4> QED
                BY <2>1, <1>4
        <3>2. Max(before) <= i /\ Max(before) \in 1..n
            BY <3>1
        <3> HIDE DEF before
        <3> QED
            BY <3>1, <3>2
    <2> HIDE DEF before, after, short
    <2> QED
        BY <1>1, <2>2
<1>7. ASSUME values[i] = None, Filled(values)[i] # None
      PROVE  \E j \in 1..n : /\ j <= i /\ i - j <= MaxFill
                             /\ values[j] # None /\ Filled(values)[i] = values[j]
    <2>1. short /\ Filled(values)[i] = values[Max(before)]
        <3> HIDE DEF short, before
        <3> QED
            BY <1>1, <1>7
    <2>2. Max(before) \in before /\ Min(after) \in after
        <3> HIDE DEF before, after
        <3> QED
            BY <1>4, <1>5, <2>1
    <2>3. /\ Max(before) \in 1..n /\ Max(before) <= i /\ values[Max(before)] # None
          /\ Min(after) \in 1..n /\ Min(after) >= i /\ values[Min(after)] # None
        BY <2>2
    <2>4. Min(after) - Max(before) - 1 <= MaxFill
        BY <2>1
    <2> HIDE DEF before, after, short
    <2>5. Min(after) # i
        BY <2>3, <1>7
    <2>6. i - Max(before) <= MaxFill
        BY <2>3, <2>4, <2>5, HourAssumption
    <2> QED
        BY <2>1, <2>3, <2>6
<1>8. values[i] # None => \E j \in 1..n : /\ j <= i /\ i - j <= MaxFill
                                          /\ values[j] # None /\ values[i] = values[j]
    BY HourAssumption
<1> QED
    BY <1>2, <1>6, <1>7, <1>8

LEMMA PlacedIs ==
    ASSUME NEW samples \in Seq(Sample), NEW d \in DOMAIN Wall
    PROVE  /\ Placed(samples, d) \in [1..SlotsIn(d) -> Int]
           /\ \A i \in 1..SlotsIn(d) :
                LET S == Over(samples, Midnight[d] + i - 1)
                IN  /\ S = {} => Placed(samples, d)[i] = None
                    /\ S # {} => /\ LastOf(samples, S) \in S
                                 /\ Placed(samples, d)[i] = samples[LastOf(samples, S)].price
                                 /\ Placed(samples, d)[i] # None
<1> DEFINE S(i) == Over(samples, Midnight[d] + i - 1)
<1>1. \A i \in 1..SlotsIn(d) : S(i) \subseteq DOMAIN samples
    BY DEF Over
<1>2. \A k \in DOMAIN samples : samples[k].price \in Int /\ samples[k].price # None
    <2> SUFFICES ASSUME NEW k \in DOMAIN samples
                 PROVE  samples[k].price \in Int /\ samples[k].price # None
        OBVIOUS
    <2>1. samples[k] \in Sample
        OBVIOUS
    <2> QED
        BY <2>1 DEF Sample
<1> DEFINE value(i) == IF S(i) = {} THEN None ELSE samples[LastOf(samples, S(i))].price
<1>3. Placed(samples, d) = [i \in 1..SlotsIn(d) |-> value(i)]
    BY DEF Placed
<1>4. ASSUME NEW i \in 1..SlotsIn(d), S(i) # {}
      PROVE  LastOf(samples, S(i)) \in S(i)
    <2> HIDE DEF S
    <2> QED
        BY <1>1, <1>4, LastIsOne
<1>5. ASSUME NEW i \in 1..SlotsIn(d)
      PROVE  value(i) \in Int /\ (S(i) # {} => value(i) # None)
    <2>1. None \in Int
        BY DEF None
    <2>2. S(i) \subseteq DOMAIN samples
        BY <1>1
    <2> HIDE DEF S
    <2> QED
        BY <1>2, <1>4, <2>1, <2>2
<1>6. Placed(samples, d) \in [1..SlotsIn(d) -> Int]
    <2> HIDE DEF value
    <2> QED
        BY <1>3, <1>5
<1> HIDE DEF S
<1>7. \A i \in 1..SlotsIn(d) :
          /\ S(i) = {} => Placed(samples, d)[i] = None
          /\ S(i) # {} => /\ LastOf(samples, S(i)) \in S(i)
                          /\ Placed(samples, d)[i] = samples[LastOf(samples, S(i))].price
                          /\ Placed(samples, d)[i] # None
    BY <1>3, <1>4, <1>5
<1> QED
    BY <1>6, <1>7 DEF S

\* What a source's samples put on a day: a slot that some of them cover has
\* the price of the one that starts last of those; another has a price only
\* within MaxFill slots of a sample that gives it, so a source that stops
\* leaves the rest of the day missing (align_to_grid, fill_short_gaps).
THEOREM PricesDoNotOutlastTheirSamples ==
    ASSUME NEW samples \in Seq(Sample), NEW d \in DOMAIN Wall,
           NEW i \in DOMAIN AlignToGrid(samples, d)
    PROVE  LET s    == Midnight[d] + i - 1
               over == Over(samples, s)
               p    == AlignToGrid(samples, d)[i]
           IN  /\ i \in 1..SlotsIn(d)
               /\ over # {} => \E k \in over : p = samples[k].price /\ \A j \in over :
                                  samples[j].start <= samples[k].start
               /\ p # None => \E k \in DOMAIN samples :
                                 p = samples[k].price /\ Within(samples[k], s, MaxFill)
<1> DEFINE values == Placed(samples, d)
           n == SlotsIn(d)
<1>1. n \in Nat /\ values \in [1..n -> Int] /\ Midnight[d] \in Nat
    BY DayLength, PlacedIs
<1>2. AlignToGrid(samples, d) # << >> /\ AlignToGrid(samples, d) = Filled(values)
    BY AlignIs
<1>3. i \in 1..n
    <2> HIDE DEF values, n
    <2>1. DOMAIN Filled(values) = DOMAIN values
        BY DEF Filled
    <2> QED
        BY <2>1, <1>1, <1>2
<1> DEFINE S(j) == Over(samples, Midnight[d] + j - 1)
<1>4. \A j \in 1..n : /\ S(j) = {} => values[j] = None
                      /\ S(j) # {} => /\ LastOf(samples, S(j)) \in S(j)
                                      /\ values[j] = samples[LastOf(samples, S(j))].price
                                      /\ values[j] # None
    BY PlacedIs
<1>5. \A j \in 1..n : S(j) \subseteq DOMAIN samples
    BY DEF Over
<1>6. ASSUME S(i) # {}
      PROVE  \E k \in S(i) : Filled(values)[i] = samples[k].price /\ \A j \in S(i) :
                                 samples[j].start <= samples[k].start
    <2> DEFINE k == LastOf(samples, S(i))
    <2>1. k \in S(i) /\ values[i] = samples[k].price /\ values[i] # None
        BY <1>3, <1>4, <1>6
    <2>2. Filled(values)[i] = values[i]
        <3> HIDE DEF values, n
        <3> QED
            BY <1>1, <1>3, <2>1, FilledIs
    <2>3. \A j \in S(i) : \/ samples[j].start < samples[k].start
                          \/ (samples[j].start = samples[k].start /\ j <= k)
        <3> HIDE DEF S
        <3> QED
            BY <1>3, <1>5, <1>6, LastIsOne
    <2>4. \A j \in S(i) : samples[j].start \in Nat
        <3> SUFFICES ASSUME NEW j \in S(i) PROVE samples[j].start \in Nat
            OBVIOUS
        <3>1. samples[j] \in Sample
            BY <1>3, <1>5
        <3> QED
            BY <3>1 DEF Sample
    <2> HIDE DEF S, k, values
    <2> QED
        BY <2>1, <2>2, <2>3, <2>4
<1>7. ASSUME Filled(values)[i] # None
      PROVE  \E k \in DOMAIN samples : /\ Filled(values)[i] = samples[k].price
                                       /\ Within(samples[k], Midnight[d] + i - 1, MaxFill)
    <2>1. PICK j \in 1..n : /\ j <= i /\ i - j <= MaxFill
                            /\ values[j] # None /\ Filled(values)[i] = values[j]
        <3> HIDE DEF values, n
        <3> QED
            BY <1>1, <1>3, <1>7, FilledIs
    <2> DEFINE k == LastOf(samples, S(j))
               t == Midnight[d] + j - 1
    <2>2. k \in S(j) /\ values[j] = samples[k].price /\ S(j) \subseteq DOMAIN samples
        BY <1>4, <1>5, <2>1
    <2>3. samples[k] \in Sample
        BY <2>2
    <2>4. t \in Int /\ t \in Covers(samples[k], Resolution(Starts(samples)))
        BY <2>2, <1>1, <2>1 DEF Over
    <2>5. Starts(samples) \in SUBSET Nat
        <3> SUFFICES ASSUME NEW m \in DOMAIN samples PROVE samples[m].start \in Nat
            BY DEF Starts
        <3>1. samples[m] \in Sample
            OBVIOUS
        <3> QED
            BY <3>1 DEF Sample
    <2>6. Within(samples[k], t, 0)
        <3> HIDE DEF k, t
        <3>1. Resolution(Starts(samples)) \in Nat /\ Resolution(Starts(samples)) <= SlotsPerHour * Ticks
            BY <2>5, ResolutionBounds
        <3> QED
            BY <3>1, <2>3, <2>4, CoveredIsWithin
    <2>7. Max({Slot(Stop(samples[k])), Slot(samples[k].start) + 1}) \in Int
          /\ Slot(samples[k].start) \in Int
        <3>1. samples[k].start \in Int /\ Stop(samples[k]) \in Int
            BY <2>3, TicksAssumption, HourAssumption DEF Sample, Stop
        <3> HIDE DEF k
        <3>2. Slot(samples[k].start) \in Int /\ Slot(Stop(samples[k])) \in Int
            BY <3>1, SlotsAreIntegers
        <3> QED
            BY <3>2, PairExtrema
    <2>8. t <= Midnight[d] + i - 1 /\ Midnight[d] + i - 1 <= t + MaxFill
          /\ MaxFill \in Nat /\ Midnight[d] + i - 1 \in Int
        BY <1>1, <1>3, <2>1, HourAssumption
    <2>9. Within(samples[k], Midnight[d] + i - 1, MaxFill)
        <3> HIDE DEF k, t
        <3> QED
            BY <2>4, <2>6, <2>7, <2>8 DEF Within
    <2> QED
        BY <2>1, <2>2, <2>9
<1> QED
    <2> HIDE DEF values, n
    <2> QED
        BY <1>2, <1>3, <1>6, <1>7 DEF n
-----------------------------------------------------------------------------
(* Reads of a price sensor: sensor_reader.py, carry_over_day_prices *)

\* A day's list: nothing, or a price or a hole for each of its slots.
DayOrNone(list, d) == list = << >> \/ list = [i \in 1..SlotsIn(d) |-> list[i]]

LEMMA AlignedIsADay == ASSUME NEW samples, NEW d \in DOMAIN Wall
                       PROVE  DayOrNone(AlignToGrid(samples, d), d)
<1> DEFINE values == Placed(samples, d)
<1>1. values = [i \in 1..SlotsIn(d) |-> values[i]]
    BY DEF Placed
<1>2. Filled(values) = [i \in 1..SlotsIn(d) |-> Filled(values)[i]]
    <2> HIDE DEF values
    <2>1. DOMAIN values = 1..SlotsIn(d)
        BY <1>1
    <2> QED
        BY <2>1 DEF Filled
<1> HIDE DEF values
<1> QED
    BY <1>2, AlignIs DEF DayOrNone, values

LEMMA AcceptedIsADay == ASSUME NEW list, NEW d, DayOrNone(list, d)
                        PROVE  DayOrNone(Accepted(list), d)
    BY DEF Accepted, DayOrNone

LEMMA ReadIsOfDays ==
    ASSUME NEW sensor, NEW now, NEW d \in DOMAIN Wall, d + 1 \in DOMAIN Wall
    PROVE  LET read == ReadSensor(sensor, now, d)
           IN  read.day = d /\ DayOrNone(read.today, d) /\ DayOrNone(read.tomorrow, d + 1)
<1> DEFINE dated(e) == AlignToGrid(sensor.prices, e)
           placed(e, values) == IF dated(e) # << >> THEN dated(e) ELSE PositionalDay(values, e)
           today == placed(d, sensor.today)
           current == << [start |-> Slot(now) * Ticks, end |-> None, price |-> sensor.current] >>
           alone == IF today = << >> /\ sensor.current # None THEN AlignToGrid(current, d) ELSE today
<1>1. ASSUME NEW e \in DOMAIN Wall, NEW values PROVE DayOrNone(placed(e, values), e)
    <2>1. DayOrNone(dated(e), e)
        BY AlignedIsADay
    <2>2. DayOrNone(PositionalDay(values, e), e)
        <3> DEFINE n == IF Len(values) = SlotsIn(e) THEN 1
                        ELSE IF Len(values) = SlotsIn(e) \div SlotsPerHour THEN SlotsPerHour ELSE 0
                   from(i) == (Midnight[e] + i * n) * Ticks
                   samples == [i \in DOMAIN values |->
                                  [start |-> from(i - 1), end |-> from(i), price |-> values[i]]]
                   kept == SelectSeq(samples, LAMBDA x : x.price # None)
        <3>1. PositionalDay(values, e) = IF n = 0 THEN << >> ELSE AlignToGrid(kept, e)
            BY DEF PositionalDay
        <3> HIDE DEF n, kept
        <3>2. DayOrNone(AlignToGrid(kept, e), e)
            BY AlignedIsADay
        <3> QED
            BY <3>1, <3>2 DEF DayOrNone
    <2> HIDE DEF dated
    <2> QED
        BY <2>1, <2>2
<1>2. DayOrNone(today, d) /\ DayOrNone(placed(d + 1, sensor.tomorrow), d + 1)
    <2> HIDE DEF placed
    <2> QED
        BY <1>1
<1>3. DayOrNone(alone, d)
    <2>1. DayOrNone(AlignToGrid(current, d), d)
        BY AlignedIsADay
    <2> HIDE DEF placed, current
    <2> QED
        BY <1>2, <2>1
<1>4. ReadSensor(sensor, now, d)
        = Lists(d, Accepted(alone), Accepted(placed(d + 1, sensor.tomorrow)))
    BY DEF ReadSensor
<1> HIDE DEF placed, alone
<1>5. /\ Lists(d, Accepted(alone), Accepted(placed(d + 1, sensor.tomorrow))).day = d
      /\ Lists(d, Accepted(alone), Accepted(placed(d + 1, sensor.tomorrow))).today = Accepted(alone)
      /\ Lists(d, Accepted(alone), Accepted(placed(d + 1, sensor.tomorrow))).tomorrow
            = Accepted(placed(d + 1, sensor.tomorrow))
    BY DEF Lists
<1> QED
    BY <1>2, <1>3, <1>4, <1>5, AcceptedIsADay

\* What merging two lists of a day owes them.
Keeps(after, before, read) ==
    /\ \A i \in DOMAIN before : before[i] # None => i \in DOMAIN after /\ after[i] # None
    /\ \A i \in DOMAIN read : read[i] # None => i \in DOMAIN after /\ after[i] = read[i]
    /\ \A i \in DOMAIN after : after[i] # None =>
          \/ (i \in DOMAIN read /\ after[i] = read[i])
          \/ (i \in DOMAIN before /\ after[i] = before[i])

LEMMA MergedKeeps ==
    ASSUME NEW d \in DOMAIN Wall, NEW new, NEW old, DayOrNone(new, d), DayOrNone(old, d)
    PROVE  DayOrNone(Merged(new, old), d) /\ Keeps(Merged(new, old), old, new)
<1> DEFINE n == SlotsIn(d)
<1>1. n \in Nat \ {0}
    BY DayLength
<1>2. DOMAIN << >> = {} /\ Len(<< >>) = 0
    OBVIOUS
<1> HIDE DEF n
<1>3. CASE new = << >>
    <2>1. old # << >> => Merged(new, old) = old
        BY <1>3 DEF Merged
    <2>2. CASE old = << >>
        <3>1. Merged(new, old) = << >>
            <4>1. Merged(new, old) = IF Len(new) # Len(old) THEN new
                                     ELSE [i \in DOMAIN new |-> IF new[i] = None THEN old[i] ELSE new[i]]
                BY <2>2 DEF Merged
            <4>2. [i \in DOMAIN new |-> IF new[i] = None THEN old[i] ELSE new[i]] = << >>
                BY <1>3, <1>2
            <4> QED
                BY <4>1, <4>2, <1>3, <2>2
        <3> QED
            BY <3>1, <1>2, <1>3, <2>2 DEF DayOrNone, Keeps
    <2>3. CASE old # << >>
        BY <2>1, <2>3, <1>2, <1>3 DEF DayOrNone, Keeps
    <2> QED
        BY <2>2, <2>3
<1>4. CASE new # << >> /\ old = << >>
    <2>1. new = [i \in 1..n |-> new[i]]
        BY <1>4 DEF DayOrNone, n
    <2>2. Len(new) = n /\ DOMAIN new = 1..n
        BY <2>1, <1>1, ListLength
    <2>3. Merged(new, old) = new
        BY <1>4, <2>2, <1>1, <1>2 DEF Merged
    <2> QED
        BY <2>1, <2>3, <1>2, <1>4 DEF DayOrNone, Keeps, n
<1>5. CASE new # << >> /\ old # << >>
    <2>1. new = [i \in 1..n |-> new[i]] /\ old = [i \in 1..n |-> old[i]]
        BY <1>5 DEF DayOrNone, n
    <2>2. Len(new) = n /\ DOMAIN new = 1..n /\ Len(old) = n /\ DOMAIN old = 1..n
        BY <2>1, <1>1, ListLength
    <2>3. Merged(new, old) = [i \in 1..n |-> IF new[i] = None THEN old[i] ELSE new[i]]
        BY <1>5, <2>2 DEF Merged
    <2>4. DayOrNone(Merged(new, old), d)
        BY <2>3 DEF DayOrNone, n
    <2>5. DOMAIN Merged(new, old) = 1..n
          /\ \A i \in 1..n : Merged(new, old)[i] = IF new[i] = None THEN old[i] ELSE new[i]
        BY <2>3
    <2>6. Keeps(Merged(new, old), old, new)
        <3> DEFINE m == Merged(new, old)
        <3> HIDE DEF m
        <3>1. Keeps(m, old, new)
            BY <2>2, <2>5 DEF Keeps, m
        <3> QED
            BY <3>1 DEF m
    <2> QED
        BY <2>4, <2>6
<1> QED
    BY <1>3, <1>4, <1>5

\* Whatever a read of the price sensor lacks, no price that was known of a day
\* the read covers is forgotten, the read's own prices count, and no other
\* price appears; what is kept is again a list per day, so this holds of any
\* number of reads, across midnights too (carry_over_day_prices).
THEOREM ReadsForgetNothing ==
    ASSUME NEW previous, NEW sensor, NEW now, NEW d \in DOMAIN Wall, d + 1 \in DOMAIN Wall,
           DayOrNone(previous.today, previous.day),
           DayOrNone(previous.tomorrow, previous.day + 1)
    PROVE  LET read == ReadSensor(sensor, now, d)
               kept == CarryOver(previous, read)
           IN  /\ kept.day = d
               /\ DayOrNone(kept.today, d) /\ DayOrNone(kept.tomorrow, d + 1)
               /\ \A e \in {d, d + 1} :
                     Keeps(DayList(kept, e), DayList(previous, e), DayList(read, e))
<1> DEFINE read == ReadSensor(sensor, now, d)
           kept == CarryOver(previous, read)
<1>1. read.day = d /\ DayOrNone(read.today, d) /\ DayOrNone(read.tomorrow, d + 1)
    BY ReadIsOfDays
<1> HIDE DEF read
<1>2. \A e : DayOrNone(DayList(previous, e), e)
    BY DEF DayList, DayOrNone
<1>3. /\ kept.day = d
      /\ kept.today = Merged(read.today, DayList(previous, d))
      /\ kept.tomorrow = Merged(read.tomorrow, DayList(previous, d + 1))
    BY <1>1 DEF CarryOver, Lists
<1> HIDE DEF kept
<1>4. d + 1 # d
    BY Calendar
<1>5. /\ DayList(kept, d) = kept.today /\ DayList(kept, d + 1) = kept.tomorrow
      /\ DayList(read, d) = read.today /\ DayList(read, d + 1) = read.tomorrow
    BY <1>1, <1>3, <1>4 DEF DayList
<1>6. /\ DayOrNone(kept.today, d) /\ Keeps(kept.today, DayList(previous, d), read.today)
      /\ DayOrNone(kept.tomorrow, d + 1)
      /\ Keeps(kept.tomorrow, DayList(previous, d + 1), read.tomorrow)
    BY <1>1, <1>2, <1>3, MergedKeeps
<1>7. \A e \in {d, d + 1} : Keeps(DayList(kept, e), DayList(previous, e), DayList(read, e))
    BY <1>5, <1>6
<1> QED
    BY <1>3, <1>6, <1>7 DEF read, kept
-----------------------------------------------------------------------------
(* The model's list of prices and the days it is of *)

LEMMA PlaceInDay == ASSUME NEW d \in DOMAIN Wall, NEW i \in 1..SlotsIn(d)
                    PROVE  LET s == Midnight[d] + i - 1
                           IN  s \in Timeline /\ DayOf(s) = d /\ IndexIn(s) = i
<1> DEFINE s == Midnight[d] + i - 1
<1>1. s \in Int /\ Lasts(d, s)
    BY DayLength DEF Lasts
<1>2. DayOf(s) = d /\ s \in Timeline
    BY <1>1, OneDay
<1>3. IndexIn(s) = i
    BY <1>2, DayLength DEF IndexIn
<1> QED
    BY <1>2, <1>3

LEMMA MidnightsOrder == \A d, e \in 1..(Len(Wall) + 1) : d <= e <=> Midnight[d] <= Midnight[e]
<1> SUFFICES ASSUME NEW d \in 1..(Len(Wall) + 1), NEW e \in 1..(Len(Wall) + 1)
             PROVE  d <= e <=> Midnight[d] <= Midnight[e]
    OBVIOUS
<1>1. d \in Int /\ e \in Int /\ Midnight[d] \in Nat /\ Midnight[e] \in Nat
    BY Calendar, MidnightsAreSlots
<1> QED
    BY <1>1, MidnightsIncrease

LEMMA InCalendar ==
    ASSUME NEW d \in DOMAIN Wall
    PROVE  /\ d \in Nat /\ d + 1 \in Nat /\ d >= 1 /\ d <= Len(Wall)
           /\ d \in 1..(Len(Wall) + 1) /\ d + 1 \in 1..(Len(Wall) + 1)
           /\ Len(Wall) \in Nat
           /\ Midnight[d] \in Nat /\ Midnight[d + 1] \in Nat /\ SlotsIn(d) \in Nat
           /\ SlotsIn(d) > 0 /\ Midnight[d + 1] = Midnight[d] + SlotsIn(d)
<1>1. /\ d \in Nat /\ d >= 1 /\ d <= Len(Wall) /\ Len(Wall) \in Nat
    BY Calendar
<1> QED
    BY <1>1, DayLength

LEMMA DaysInOrder ==
    ASSUME NEW d \in DOMAIN Wall, NEW e \in DOMAIN Wall
    PROVE  /\ d <= e => Midnight[d] <= Midnight[e]
           /\ d < e => Midnight[d + 1] <= Midnight[e]
<1>1. /\ d \in 1..(Len(Wall) + 1) /\ d + 1 \in 1..(Len(Wall) + 1) /\ e \in 1..(Len(Wall) + 1)
      /\ d \in Nat /\ e \in Nat
    BY InCalendar
<1>2. d < e => d + 1 <= e
    BY <1>1
<1> QED
    BY <1>1, <1>2, MidnightsOrder

\* How far into a list that starts with one day another begins, and the last
\* day that a list of n slots reaches.
From(first, d) == Midnight[d] - Midnight[first]
LastDay(first, n) == DayOf(Midnight[first] + n - 1)

LEMMA ListReachesDays ==
    ASSUME NEW n \in Nat, n # 0, NEW first \in DOMAIN Wall, Midnight[first] + n <= Horizon
    PROVE  /\ LastDay(first, n) \in DOMAIN Wall
           /\ \A d \in DOMAIN Wall : From(first, d) < n <=> d <= LastDay(first, n)
           /\ n <= From(first, LastDay(first, n) + 1)
<1> DEFINE end == Midnight[first] + n - 1
           last == LastDay(first, n)
<1>1. Midnight[first] \in Nat /\ end \in Timeline /\ end \in Int
    <2>1. Midnight[first] \in Nat
        BY InCalendar
    <2>2. Len(Wall) + 1 \in 1..(Len(Wall) + 1)
        BY Calendar
    <2>3. Horizon \in Nat
        BY <2>2, MidnightsAreSlots DEF Horizon
    <2> QED
        BY <2>1, <2>3 DEF Timeline
<1>2. last \in DOMAIN Wall /\ Midnight[last] <= end /\ end < Midnight[last + 1]
    <2>1. DayOf(end) \in DOMAIN Wall /\ Lasts(DayOf(end), end)
        <3> HIDE DEF end
        <3> QED
            BY <1>1, EverySlotHasItsDay
    <2> QED
        BY <2>1 DEF Lasts, LastDay
<1> HIDE DEF last
<1>3. last \in Nat /\ Midnight[last] \in Nat /\ Midnight[last + 1] \in Nat
    BY <1>2, InCalendar
<1>4. ASSUME NEW d \in DOMAIN Wall PROVE From(first, d) < n <=> d <= last
    <2>1. d \in Nat /\ Midnight[d] \in Nat
        BY InCalendar
    <2>2. d <= last => Midnight[d] <= Midnight[last]
        BY <1>2, DaysInOrder
    <2>3. last < d => Midnight[last + 1] <= Midnight[d]
        BY <1>2, DaysInOrder
    <2> QED
        BY <2>1, <2>2, <2>3, <1>1, <1>2, <1>3 DEF From
<1>5. n <= From(first, last + 1)
    BY <1>1, <1>2, <1>3 DEF From
<1> QED
    BY <1>2, <1>4, <1>5 DEF last

LEMMA PartsOfList ==
    ASSUME NEW n \in Nat, n # 0, NEW first \in DOMAIN Wall, Midnight[first] + n <= Horizon,
           NEW d \in DOMAIN Wall, first <= d, d <= LastDay(first, n)
    PROVE  /\ From(first, d) \in Nat /\ From(first, d) < n /\ From(first, d + 1) \in Nat
           /\ From(first, d + 1) = From(first, d) + SlotsIn(d)
           /\ SlotsIn(d) \in Nat /\ SlotsIn(d) > 0
           /\ d # LastDay(first, n) => From(first, d + 1) <= n
           /\ d = LastDay(first, n) => n <= From(first, d + 1)
<1> DEFINE last == LastDay(first, n)
<1>1. last \in DOMAIN Wall /\ From(first, d) < n /\ n <= From(first, last + 1)
    BY ListReachesDays
<1> HIDE DEF last
<1>2. /\ d \in Nat /\ Midnight[d] \in Nat /\ Midnight[d + 1] \in Nat /\ SlotsIn(d) \in Nat
      /\ SlotsIn(d) > 0 /\ Midnight[d + 1] = Midnight[d] + SlotsIn(d)
    BY InCalendar
<1>3. Midnight[first] \in Nat /\ last \in Nat /\ Midnight[last] \in Nat
    BY <1>1, InCalendar
<1>4. Midnight[first] <= Midnight[d]
    BY DaysInOrder
<1>5. /\ From(first, d) \in Nat /\ From(first, d + 1) \in Nat
      /\ From(first, d + 1) = From(first, d) + SlotsIn(d)
    BY <1>2, <1>3, <1>4 DEF From
<1>6. d # last => From(first, d + 1) <= n
    <2> SUFFICES ASSUME d # last PROVE From(first, d + 1) <= n
        OBVIOUS
    <2>1. d < last
        BY <1>2, <1>3 DEF last
    <2>2. Midnight[d + 1] <= Midnight[last]
        BY <1>1, <2>1, DaysInOrder
    <2>3. From(first, last) < n
        <3>1. last <= last
            BY <1>3
        <3> QED
            BY <3>1, <1>1, ListReachesDays DEF last
    <2> QED
        BY <2>2, <2>3, <1>2, <1>3 DEF From
<1> QED
    BY <1>1, <1>2, <1>5, <1>6 DEF last

LEMMA PlaceInList ==
    ASSUME NEW n \in Nat, n # 0, NEW first \in DOMAIN Wall, Midnight[first] + n <= Horizon,
           NEW j \in 1..n
    PROVE  LET s == Midnight[first] + j - 1
               d == DayOf(s)
           IN  /\ d \in DOMAIN Wall /\ first <= d /\ d <= LastDay(first, n)
               /\ IndexIn(s) \in 1..SlotsIn(d) /\ From(first, d) + IndexIn(s) = j
<1> DEFINE s == Midnight[first] + j - 1
           d == DayOf(s)
           i == IndexIn(s)
<1>1. Midnight[first] \in Nat /\ first \in Nat /\ s \in Timeline /\ s \in Nat
    <2>1. Midnight[first] \in Nat /\ first \in Nat
        BY InCalendar
    <2>2. Len(Wall) + 1 \in 1..(Len(Wall) + 1)
        BY Calendar
    <2>3. Horizon \in Nat
        BY <2>2, MidnightsAreSlots DEF Horizon
    <2>4. j \in Nat /\ j >= 1 /\ j <= n
        OBVIOUS
    <2>5. s \in Nat /\ s <= Horizon - 1
        BY <2>1, <2>3, <2>4
    <2> QED
        BY <2>1, <2>3, <2>5 DEF Timeline
<1>2. d \in DOMAIN Wall /\ Midnight[d] <= s /\ s < Midnight[d + 1]
      /\ i \in 1..SlotsIn(d) /\ s = Midnight[d] + i - 1
    BY <1>1, EverySlotHasItsDay DEF Lasts
<1> HIDE DEF d, i
<1>3. /\ d \in Nat /\ Midnight[d] \in Nat /\ Midnight[d + 1] \in Nat /\ SlotsIn(d) \in Nat
    BY <1>2, InCalendar
<1>4. i \in Int /\ j \in Int /\ j >= 1 /\ j <= n
    BY <1>3, <1>2
<1>5. From(first, d) + i = j
    BY <1>1, <1>2, <1>3, <1>4 DEF From
<1>6. first <= d
    <2>1. d < first => Midnight[d + 1] <= Midnight[first]
        BY <1>2, DaysInOrder
    <2> QED
        BY <2>1, <1>1, <1>2, <1>3, <1>4
<1>7. From(first, d) < n
    <2>1. i >= 1
        BY <1>2, <1>3
    <2> QED
        BY <2>1, <1>1, <1>3, <1>4, <1>5 DEF From
<1>8. d <= LastDay(first, n)
    BY <1>2, <1>7, ListReachesDays
<1> QED
    BY <1>2, <1>5, <1>6, <1>8 DEF d, i

LEMMA DayNumber ==
    ASSUME NEW first \in Int, NEW last \in Int, NEW m \in Int, NEW k \in Int,
           first >= 1, last <= m, k >= 1, k <= last - first + 1
    PROVE  /\ first + k - 1 \in 1..m /\ first <= first + k - 1 /\ first + k - 1 <= last
           /\ (k = last - first + 1 <=> first + k - 1 = last)
OBVIOUS

\* A list of prices that starts at a local midnight is taken apart at the local
\* midnights, whatever the lengths of the days: each price is in the list of
\* its slot's day, at its slot's place, and every day but the last is whole
\* (split_local_days).
THEOREM SplitFollowsTheCalendar ==
    ASSUME NEW n \in Nat, NEW prices \in [1..n -> Int], NEW first \in DOMAIN Wall,
           Midnight[first] + n <= Horizon
    PROVE  LET days == SplitLocalDays(prices, first)
           IN  /\ days = [k \in 1..Len(days) |-> days[k]] /\ Len(days) \in Nat
               /\ \A k \in 1..Len(days) :
                     /\ days[k] = [day |-> first + k - 1, prices |-> days[k].prices]
                     /\ days[k].day \in DOMAIN Wall
                     /\ Len(days[k].prices) \in 1..SlotsIn(days[k].day)
                     /\ days[k].prices \in [1..Len(days[k].prices) -> Int]
                     /\ k # Len(days) => Len(days[k].prices) = SlotsIn(days[k].day)
               /\ \A j \in 1..n :
                     LET s == Midnight[first] + j - 1
                         k == DayOf(s) - first + 1
                     IN  /\ k \in 1..Len(days) /\ IndexIn(s) \in 1..Len(days[k].prices)
                         /\ days[k].prices[IndexIn(s)] = prices[j]
<1> DEFINE from(d) == Midnight[d] - Midnight[first]
           D == {d \in DOMAIN Wall : d >= first /\ from(d) < n}
           part(d) == SubSeq(prices, from(d) + 1, Min({from(d + 1), n}))
           days == SplitLocalDays(prices, first)
           R == [k \in 1..Cardinality(D) |-> [day |-> first + k - 1, prices |-> part(first + k - 1)]]
           last == LastDay(first, n)
           c == IF n = 0 THEN 0 ELSE last - first + 1
<1>1. days = R
    <2>1. Len(prices) = n
        BY ListLength
    <2> QED
        BY <2>1 DEF SplitLocalDays
<1>2. first \in Nat /\ first >= 1 /\ Midnight[first] \in Nat
    BY InCalendar
<1>3. n # 0 => last \in DOMAIN Wall /\ last \in Nat /\ last <= Len(Wall) /\ first <= last
    <2> SUFFICES ASSUME n # 0
                 PROVE  last \in DOMAIN Wall /\ last \in Nat /\ last <= Len(Wall) /\ first <= last
        OBVIOUS
    <2>1. last \in DOMAIN Wall /\ (From(first, first) < n <=> first <= last)
        BY ListReachesDays
    <2>2. From(first, first) < n
        BY <1>2 DEF From
    <2> HIDE DEF last
    <2> QED
        BY <2>1, <2>2, InCalendar
<1>4. D = IF n = 0 THEN {} ELSE first..last
    <2>1. CASE n = 0
        <3> SUFFICES ASSUME NEW d \in DOMAIN Wall, d >= first, from(d) < 0 PROVE FALSE
            BY <2>1
        <3>1. Midnight[d] \in Nat /\ d \in Nat
            BY InCalendar
        <3>2. Midnight[first] <= Midnight[d]
            BY <1>2, <3>1, DaysInOrder
        <3> QED
            BY <3>1, <3>2, <1>2
    <2>2. CASE n # 0
        <3>1. \A d \in DOMAIN Wall : from(d) < n <=> d <= last
            BY <2>2, ListReachesDays DEF From
        <3>2. \A d : d \in first..last <=> d \in DOMAIN Wall /\ d >= first /\ d <= last
            <4> HIDE DEF last
            <4> QED
                BY <2>2, <1>2, <1>3, Calendar
        <3> HIDE DEF from, last
        <3> QED
            BY <2>2, <3>1, <3>2
    <2> QED
        BY <2>1, <2>2
<1>5. Cardinality(D) = c /\ c \in Nat
    <2>1. CASE n = 0
        <3> HIDE DEF D
        <3> QED
            BY <2>1, <1>4, FS_EmptySet
    <2>2. CASE n # 0
        <3>1. last \in Int /\ first \in Int /\ D = first..last /\ first <= last
            BY <2>2, <1>2, <1>3, <1>4
        <3> HIDE DEF last, D
        <3>2. Cardinality(first..last) = IF first > last THEN 0 ELSE last - first + 1
            BY <3>1, FS_Interval
        <3> QED
            BY <2>2, <3>1, <3>2
    <2> QED
        BY <2>1, <2>2
<1>6. Len(days) = c /\ days = [k \in 1..c |-> days[k]]
    <2> HIDE DEF D, part, c
    <2>1. R = [k \in 1..c |-> R[k]]
        BY <1>5
    <2>2. Len(R) = c
        <3> HIDE DEF R
        <3> QED
            BY <2>1, <1>5, ListLength
    <2> QED
        BY <2>1, <2>2, <1>1
<1>7. ASSUME NEW d \in DOMAIN Wall, n # 0, first <= d, d <= last
      PROVE  LET e == IF d = last THEN n - from(d) ELSE SlotsIn(d)
             IN  /\ e \in 1..SlotsIn(d) /\ SlotsIn(d) \in Nat /\ from(d) \in Nat
                 /\ part(d) \in [1..e -> Int] /\ Len(part(d)) = e
                 /\ \A i \in 1..e : part(d)[i] = prices[from(d) + i]
    <2> DEFINE a == from(d)
               z == from(d + 1)
               b == a + 1
               e == IF d = last THEN n - a ELSE SlotsIn(d)
    <2>1. /\ a \in Nat /\ a < n /\ z \in Nat /\ z = a + SlotsIn(d)
          /\ SlotsIn(d) \in Nat /\ SlotsIn(d) > 0
          /\ d # last => z <= n
          /\ d = last => n <= z
        BY <1>7, PartsOfList DEF From
    <2>2. part(d) = SubSeq(prices, b, Min({z, n}))
        OBVIOUS
    <2> HIDE DEF a, z, last, part
    <2> DEFINE stop == IF d = last THEN n ELSE z
    <2>3. Min({z, n}) = stop
        <3>1. z \in Int /\ n \in Int
            BY <2>1
        <3>2. Min({z, n}) = IF z <= n THEN z ELSE n
            BY <3>1, PairExtrema
        <3> QED
            BY <3>2, <2>1
    <2>4. /\ stop \in Nat /\ b <= stop /\ stop <= n /\ b \in Nat /\ b >= 1
          /\ e = stop - a /\ e \in Nat /\ e >= 1 /\ e <= SlotsIn(d) /\ stop - b + 1 = e
        BY <2>1
    <2> HIDE DEF stop, e, b
    <2>5. \A i \in b..stop : prices[i] \in Int
        BY <2>4
    <2> DEFINE q == SubSeq(prices, b, stop)
    <2>6. /\ q \in Seq(Int)
          /\ Len(q) = IF b <= stop THEN stop - b + 1 ELSE 0
          /\ \A i \in 1..(stop - b + 1) : q[i] = prices[b + i - 1]
        <3>1. b \in Int /\ stop \in Int
            BY <2>4
        <3> QED
            BY <2>5, <3>1, SubSeqProperties
    <2> HIDE DEF q
    <2>7. Len(q) = e /\ \A i \in 1..e : q[i] = prices[b + i - 1]
        BY <2>4, <2>6
    <2>8. q \in [1..e -> Int]
        BY <2>4, <2>6, <2>7
    <2>9. part(d) = q
        BY <2>2, <2>3 DEF q
    <2>10. \A i \in 1..e : b + i - 1 = a + i
        BY <2>1, <2>4 DEF b
    <2>11. /\ e \in 1..SlotsIn(d) /\ SlotsIn(d) \in Nat /\ a \in Nat
           /\ part(d) \in [1..e -> Int] /\ Len(part(d)) = e
           /\ \A i \in 1..e : part(d)[i] = prices[a + i]
        <3>1. e \in 1..SlotsIn(d)
            BY <2>1, <2>4
        <3>2. \A i \in 1..e : part(d)[i] = prices[a + i]
            BY <2>7, <2>9, <2>10
        <3> QED
            BY <3>1, <3>2, <2>1, <2>7, <2>8, <2>9
    <2> QED
        BY <2>11 DEF a, e
<1>8. ASSUME NEW k \in 1..c
      PROVE  /\ n # 0 /\ first + k - 1 \in DOMAIN Wall
             /\ first <= first + k - 1 /\ first + k - 1 <= last
             /\ (k = c <=> first + k - 1 = last)
             /\ days[k] = [day |-> first + k - 1, prices |-> part(first + k - 1)]
    <2>1. n # 0
        BY <1>8
    <2>2. c = last - first + 1 /\ last \in Nat /\ last <= Len(Wall)
        BY <2>1, <1>3
    <2>3. days[k] = [day |-> first + k - 1, prices |-> part(first + k - 1)]
        <3> HIDE DEF D, part, c
        <3> QED
            BY <1>1, <1>5
    <2> HIDE DEF c, last
    <2>4. k \in Nat /\ k >= 1 /\ k <= c
        BY <1>5
    <2>5. Len(Wall) \in Nat /\ DOMAIN Wall = 1..Len(Wall)
        BY Calendar
    <2> DEFINE d == first + k - 1
               m == Len(Wall)
    <2>6. first \in Nat /\ first >= 1 /\ m \in Nat /\ last \in Nat /\ last <= m
          /\ c = last - first + 1
        BY <2>2, <2>5, <1>2
    <2> HIDE DEF m
    <2>7. d \in 1..m /\ first <= d /\ d <= last /\ (k = c <=> d = last)
        <3>1. k <= last - first + 1 /\ first \in Int /\ last \in Int /\ m \in Int /\ k \in Int
            BY <2>4, <2>6
        <3>2. /\ d \in 1..m /\ first <= d /\ d <= last
              /\ (k = last - first + 1 <=> d = last)
            BY <3>1, <2>4, <2>6, DayNumber
        <3> HIDE DEF d
        <3> QED
            BY <3>2, <2>6
    <2> HIDE DEF days, part
    <2> QED
        BY <2>1, <2>3, <2>5, <2>7 DEF m
<1>9. ASSUME NEW k \in 1..c
      PROVE  /\ days[k] = [day |-> first + k - 1, prices |-> days[k].prices]
             /\ days[k].day \in DOMAIN Wall
             /\ Len(days[k].prices) \in 1..SlotsIn(days[k].day)
             /\ days[k].prices \in [1..Len(days[k].prices) -> Int]
             /\ k # c => Len(days[k].prices) = SlotsIn(days[k].day)
    <2> DEFINE d == first + k - 1
               e == IF d = last THEN n - from(d) ELSE SlotsIn(d)
    <2>1. d \in DOMAIN Wall /\ n # 0 /\ first <= d /\ d <= last /\ (k = c <=> d = last)
        BY <1>8
    <2>2. days[k] = [day |-> d, prices |-> part(d)]
        BY <1>8
    <2> HIDE DEF d, days, last, c
    <2>3. e \in 1..SlotsIn(d) /\ part(d) \in [1..e -> Int] /\ Len(part(d)) = e
        <3> HIDE DEF part, from
        <3> QED
            BY <2>1, <1>7
    <2> HIDE DEF part, from
    <2>4. days[k].day = d /\ days[k].prices = part(d)
        BY <2>2
    <2>5. days[k] = [day |-> d, prices |-> days[k].prices]
        BY <2>2, <2>4
    <2>6. k # c => e = SlotsIn(d)
        BY <2>1
    <2> HIDE DEF e
    <2> QED
        BY <2>1, <2>3, <2>4, <2>5, <2>6 DEF d
<1>10. ASSUME NEW j \in 1..n
       PROVE  LET s == Midnight[first] + j - 1
                  k == DayOf(s) - first + 1
              IN  /\ k \in 1..c /\ IndexIn(s) \in 1..Len(days[k].prices)
                  /\ days[k].prices[IndexIn(s)] = prices[j]
    <2> DEFINE s == Midnight[first] + j - 1
               d == DayOf(s)
               k == d - first + 1
               i == IndexIn(s)
               e == IF d = last THEN n - from(d) ELSE SlotsIn(d)
    <2>1. n # 0
        OBVIOUS
    <2>2. /\ d \in DOMAIN Wall /\ first <= d /\ d <= last
          /\ i \in 1..SlotsIn(d) /\ from(d) + i = j
        BY <2>1, PlaceInList DEF From
    <2> HIDE DEF d, i, last
    <2>3. d \in Nat /\ last \in Nat
        BY <2>1, <2>2, <1>3, InCalendar
    <2>4. k \in 1..c /\ first + k - 1 = d
        BY <2>1, <2>2, <2>3, <1>2
    <2>5. days[k].prices = part(d)
        <3>1. days[k] = [day |-> first + k - 1, prices |-> part(first + k - 1)]
            <4> HIDE DEF k, c
            <4> QED
                BY <2>4, <1>8
        <3> HIDE DEF part, days, k
        <3> QED
            BY <3>1, <2>4
    <2>6. /\ e \in 1..SlotsIn(d) /\ SlotsIn(d) \in Nat /\ from(d) \in Nat
          /\ Len(part(d)) = e /\ \A m \in 1..e : part(d)[m] = prices[from(d) + m]
        <3> HIDE DEF part, from
        <3> QED
            BY <2>1, <2>2, <1>7
    <2>7. i \in 1..e
        <3>1. i \in Nat /\ i >= 1 /\ i <= SlotsIn(d) /\ j <= n
            BY <2>2, <2>6
        <3> HIDE DEF from, s
        <3> QED
            BY <3>1, <2>2, <2>6
    <2> HIDE DEF part, from, e
    <2>8. i \in 1..Len(part(d)) /\ part(d)[i] = prices[j]
        BY <2>2, <2>6, <2>7
    <2> HIDE DEF days, k, c
    <2>9. k \in 1..c /\ i \in 1..Len(days[k].prices) /\ days[k].prices[i] = prices[j]
        BY <2>4, <2>5, <2>8
    <2> QED
        BY <2>9 DEF d, i, k
<1> HIDE DEF days, c
<1> QED
    BY <1>5, <1>6, <1>9, <1>10 DEF days
-----------------------------------------------------------------------------
(* The model's inputs: cross_border.py, price_lags.py, gas_price.py *)

LEMMA FoldOfSlot == \A s \in Timeline : Fold(s) \in 0..(Folds - 1)
<1> SUFFICES ASSUME NEW s \in Timeline PROVE Fold(s) \in 0..(Folds - 1)
    OBVIOUS
<1>1. DayOf(s) \in Nat /\ Folds \in Nat /\ Folds > 0
    BY EverySlotHasItsDay, InCalendar, ModelAssumption
<1> QED
    BY <1>1 DEF Fold

\* The stage-1 price of a training row comes from a model fitted without any
\* price of the row's local day, however long its day is, and, if every fold
\* has rows enough, the models together were fitted on every price
\* (cross_border.py: local_day_fold, Stage1Model).
THEOREM NoRowSeesItsOwnDay ==
    ASSUME NEW priced \in SUBSET Timeline
    PROVE  LET models == FitZone(priced)
           IN  /\ \A s \in Timeline : \A k \in OutOfSample(models, s) :
                     k \in priced /\ DayOf(k) # DayOf(s)
               /\ (\A f \in DOMAIN models : models[f] # {}) => InSample(models) = priced
<1> DEFINE train(f) == {s \in priced : Fold(s) # f}
           kept(f) == IF Cardinality(priced) < MinRows \/ Cardinality(train(f)) < MinRows
                      THEN {} ELSE train(f)
           models == FitZone(priced)
<1>1. models = [f \in 0..(Folds - 1) |-> kept(f)]
    BY DEF FitZone
<1>2. ASSUME NEW f PROVE kept(f) \subseteq priced /\ \A k \in kept(f) : Fold(k) # f
    OBVIOUS
<1>3. ASSUME NEW s \in Timeline, NEW k \in OutOfSample(models, s)
      PROVE  k \in priced /\ DayOf(k) # DayOf(s)
    <2>1. OutOfSample(models, s) = kept(Fold(s))
        BY <1>1, FoldOfSlot DEF OutOfSample
    <2>2. k \in priced /\ Fold(k) # Fold(s)
        BY <2>1, <1>2, <1>3
    <2> QED
        BY <2>2 DEF Fold
<1>4. ASSUME \A f \in DOMAIN models : models[f] # {}
      PROVE  InSample(models) = priced
    <2>1. DOMAIN models = 0..(Folds - 1) /\ \A f \in 0..(Folds - 1) : models[f] = kept(f)
        BY <1>1
    <2>2. InSample(models) = {k \in priced : \E f \in 0..(Folds - 1) : k \in kept(f)}
        <3> HIDE DEF kept, models
        <3> QED
            BY <2>1, <1>2 DEF InSample, Values
    <2>3. ASSUME NEW k \in priced PROVE \E f \in 0..(Folds - 1) : k \in kept(f)
        <3>1. 0 \in 0..(Folds - 1) /\ kept(0) # {}
            BY <2>1, <1>4, ModelAssumption
        <3>2. PICK j \in priced : Fold(j) # 0
            BY <3>1
        <3>3. Fold(j) \in 0..(Folds - 1) /\ Fold(k) \in 0..(Folds - 1)
            BY FoldOfSlot
        <3>4. PICK f \in 0..(Folds - 1) : Fold(k) # f
            BY <3>1, <3>2, <3>3
        <3>5. kept(f) # {}
            BY <2>1, <1>4
        <3>6. k \in kept(f)
            BY <3>4, <3>5
        <3> QED
            BY <3>6
    <2> HIDE DEF kept, models
    <2> QED
        BY <2>2, <2>3
<1> QED
    BY <1>3, <1>4

LEMMA DaysFollowSlots ==
    ASSUME NEW t \in Timeline, NEW u \in Timeline, t <= u
    PROVE  DayOf(t) <= DayOf(u)
<1>1. /\ DayOf(t) \in DOMAIN Wall /\ DayOf(u) \in DOMAIN Wall
      /\ Lasts(DayOf(t), t) /\ Lasts(DayOf(u), u)
    BY EverySlotHasItsDay
<1>2. SUFFICES ASSUME DayOf(u) < DayOf(t) PROVE FALSE
    BY <1>1, InCalendar
<1>3. Midnight[DayOf(u) + 1] <= Midnight[DayOf(t)]
    BY <1>1, <1>2, DaysInOrder
<1>4. /\ Midnight[DayOf(u) + 1] \in Nat /\ Midnight[DayOf(t)] \in Nat /\ u \in Int /\ t \in Int
      /\ Midnight[DayOf(t)] <= t /\ u < Midnight[DayOf(u) + 1]
    <2>1. Midnight[DayOf(u) + 1] \in Nat /\ Midnight[DayOf(t)] \in Nat
        BY <1>1, InCalendar
    <2> QED
        BY <1>1, <2>1 DEF Lasts, Timeline
<1> QED
    BY <1>3, <1>4

LEMMA HorizonIsASlot == Horizon \in Nat
    BY MidnightsAreSlots, Calendar DEF Horizon

LEMMA LastKnown ==
    ASSUME NEW K, DOMAIN K \in SUBSET Timeline, DOMAIN K # {}
    PROVE  /\ \E k \in DOMAIN K : LastKnownDay(K) = DayOf(k)
           /\ LastKnownDay(K) \in DOMAIN Wall
           /\ \A k \in DOMAIN K : DayOf(k) <= LastKnownDay(K)
<1> DEFINE m == Max(DOMAIN K)
<1>1. m \in DOMAIN K /\ \A k \in DOMAIN K : k <= m
    <2>1. 0 \in Int /\ Horizon - 1 \in Int /\ DOMAIN K \subseteq 0..(Horizon - 1)
        BY HorizonIsASlot DEF Timeline
    <2> QED
        BY <2>1, MaxIs
<1>2. LastKnownDay(K) = DayOf(m)
    BY DEF LastKnownDay
<1> HIDE DEF m
<1>3. \A k \in DOMAIN K : DayOf(k) <= DayOf(m)
    BY <1>1, DaysFollowSlots
<1> QED
    BY <1>1, <1>2, <1>3, EverySlotHasItsDay

LEMMA DayNumbers == \A s \in Timeline : DayOf(s) \in DOMAIN Wall /\ DayOf(s) \in Nat /\ DayOf(s) >= 1
    BY EverySlotHasItsDay, InCalendar

LEMMA ReferenceIs ==
    ASSUME NEW K, DOMAIN K \in SUBSET Timeline, DOMAIN K # {}, NEW s \in Timeline
    PROVE  /\ ReferenceDay(K, s) = IF DayOf(s) > LastKnownDay(K) THEN LastKnownDay(K)
                                   ELSE DayOf(s) - 1
           /\ ReferenceDay(K, s) \in Nat /\ ReferenceDay(K, s) < DayOf(s)
<1>1. LastKnownDay(K) \in Nat /\ LastKnownDay(K) >= 1 /\ LastKnownDay(K) # NoDay
    BY LastKnown, InCalendar DEF NoDay
<1> QED
    BY <1>1, DayNumbers DEF ReferenceDay

LEMMA NoReference ==
    ASSUME NEW K, NEW s, DOMAIN K = {}
    PROVE  ReferenceDay(K, s) = NoDay
    BY DEF ReferenceDay, LastKnownDay

\* A price is known of the slot's day before, or of a later one.
LEMMA DayBeforeIsReference ==
    ASSUME NEW K, DOMAIN K \in SUBSET Timeline, NEW s \in Timeline,
           NEW k \in DOMAIN K, DayOf(k) >= DayOf(s) - 1
    PROVE  ReferenceDay(K, s) = DayOf(s) - 1
<1>1. /\ DayOf(k) <= LastKnownDay(K) /\ LastKnownDay(K) \in Nat /\ DayOf(k) \in Nat
      /\ DayOf(s) \in Nat
    BY LastKnown, InCalendar, DayNumbers
<1> QED
    BY <1>1, ReferenceIs

\* The near-term model serves the days it was chosen for, to their last slot:
\* those at most NearTermDays after a day with a known price (price_lags.py:
\* reference_day, lag_days, near_term).
THEOREM NearTermServesItsDays ==
    ASSUME NEW K, DOMAIN K \in SUBSET Timeline, NEW s \in Timeline
    PROVE  Server(K, s, TRUE) = "near"
               <=> \E k \in DOMAIN K : DayOf(s) <= DayOf(k) + NearTermDays
<1>1. CASE DOMAIN K = {}
    BY <1>1, NoReference DEF Server
<1>2. CASE DOMAIN K # {}
    <2> DEFINE r == ReferenceDay(K, s)
               m == LastKnownDay(K)
    <2>1. /\ r = IF DayOf(s) > m THEN m ELSE DayOf(s) - 1
          /\ r \in Nat /\ r # NoDay
        BY <1>2, ReferenceIs DEF NoDay
    <2>2. m \in Nat /\ (\E k \in DOMAIN K : m = DayOf(k)) /\ \A k \in DOMAIN K : DayOf(k) <= m
        BY <1>2, LastKnown, InCalendar
    <2>3. DayOf(s) \in Nat /\ NearTermDays \in Nat /\ NearTermDays >= 1
        BY DayNumbers, ModelAssumption
    <2>4. Server(K, s, TRUE) = "near" <=> DayOf(s) - r <= NearTermDays
        BY <2>1 DEF Server, LagDays
    <2> HIDE DEF r, m
    <2>5. DayOf(s) - r <= NearTermDays <=> DayOf(s) <= m + NearTermDays
        BY <2>1, <2>2, <2>3
    <2>6. \A k \in DOMAIN K : DayOf(k) \in Nat
        BY DayNumbers
    <2>7. DayOf(s) <= m + NearTermDays
             <=> \E k \in DOMAIN K : DayOf(s) <= DayOf(k) + NearTermDays
        BY <2>2, <2>3, <2>6
    <2> QED
        BY <2>4, <2>5, <2>7
<1> QED
    BY <1>1, <1>2

\* The days of a clock that changes by an hour: the usual day, the day that
\* lacks the hour from the time g on and the one that has it twice.
Usual(w) == w = [i \in 1..DaySlots |-> i - 1]
Shorter(w, g) == w = [i \in 1..(DaySlots - SlotsPerHour) |->
                         IF i <= g THEN i - 1 ELSE i - 1 + SlotsPerHour]
Longer(w, g) == w = [i \in 1..(DaySlots + SlotsPerHour) |->
                        IF i <= g + SlotsPerHour THEN i - 1 ELSE i - 1 - SlotsPerHour]

LEMMA ClockIs ==
    /\ SlotsPerHour \in Nat /\ SlotsPerHour >= 1 /\ DaySlots \in Nat
    /\ \A d \in DOMAIN Wall :
          \/ Usual(Wall[d])
          \/ \E g \in Int : /\ g >= SlotsPerHour /\ g + 2 * SlotsPerHour <= DaySlots
                            /\ Shorter(Wall[d], g) \/ Longer(Wall[d], g)
<1>1. SlotsPerHour \in Nat /\ SlotsPerHour >= 1 /\ DaySlots \in Nat
    BY HourAssumption, ClockAssumption
<1>2. ASSUME NEW d \in DOMAIN Wall
      PROVE  \/ Usual(Wall[d])
             \/ \E g \in SlotsPerHour..(DaySlots - 2 * SlotsPerHour) :
                   Shorter(Wall[d], g) \/ Longer(Wall[d], g)
    BY ClockAssumption DEF Usual, Shorter, Longer
<1>3. \A g \in SlotsPerHour..(DaySlots - 2 * SlotsPerHour) :
         g \in Int /\ g >= SlotsPerHour /\ g + 2 * SlotsPerHour <= DaySlots
    BY <1>1
<1> QED
    BY <1>1, <1>2, <1>3

\* The times of day are those of 24 hours, and a repeated one is not of the
\* first hour.
LEMMA TimesOfADay ==
    ASSUME NEW d \in DOMAIN Wall, NEW i \in 1..SlotsIn(d)
    PROVE  /\ Wall[d][i] \in 0..(DaySlots - 1)
           /\ \A j \in 1..(i - 1) : Wall[d][j] = Wall[d][i] => Wall[d][i] >= SlotsPerHour
<1> DEFINE w == Wall[d]
<1>1. SlotsIn(d) = Len(w) /\ DOMAIN w = 1..Len(w) /\ Len(w) \in Nat
    BY DayLength, Calendar
<1>2. SlotsPerHour \in Nat /\ SlotsPerHour >= 1 /\ DaySlots \in Nat
    BY ClockIs
<1>3. \/ Usual(w)
      \/ \E g \in Int : /\ g >= SlotsPerHour /\ g + 2 * SlotsPerHour <= DaySlots
                        /\ Shorter(w, g) \/ Longer(w, g)
    BY ClockIs
<1>4. i \in DOMAIN w /\ i \in Int /\ i >= 1 /\ \A j \in 1..(i - 1) : j \in DOMAIN w /\ j \in Int /\ j < i
    BY <1>1
<1> HIDE DEF w
<1>5. CASE Usual(w)
    <2>1. DOMAIN w = 1..DaySlots /\ \A j \in 1..DaySlots : w[j] = j - 1
        BY <1>5 DEF Usual
    <2> QED
        BY <2>1, <1>2, <1>4 DEF w
<1>6. ASSUME NEW g \in Int, g >= SlotsPerHour, g + 2 * SlotsPerHour <= DaySlots, Shorter(w, g)
      PROVE  /\ w[i] \in 0..(DaySlots - 1)
             /\ \A j \in 1..(i - 1) : w[j] = w[i] => w[i] >= SlotsPerHour
    <2>1. DOMAIN w = 1..(DaySlots - SlotsPerHour)
          /\ \A j \in 1..(DaySlots - SlotsPerHour) :
                w[j] = IF j <= g THEN j - 1 ELSE j - 1 + SlotsPerHour
        BY <1>6 DEF Shorter
    <2>2. w[i] = IF i <= g THEN i - 1 ELSE i - 1 + SlotsPerHour
        BY <2>1, <1>4
    <2>3. \A j \in 1..(i - 1) : w[j] = IF j <= g THEN j - 1 ELSE j - 1 + SlotsPerHour
        BY <2>1, <1>4
    <2>4. i <= DaySlots - SlotsPerHour
        BY <2>1, <1>2, <1>4
    <2> QED
        BY <2>2, <2>3, <2>4, <1>2, <1>4, <1>6
<1>7. ASSUME NEW g \in Int, g >= SlotsPerHour, g + 2 * SlotsPerHour <= DaySlots, Longer(w, g)
      PROVE  /\ w[i] \in 0..(DaySlots - 1)
             /\ \A j \in 1..(i - 1) : w[j] = w[i] => w[i] >= SlotsPerHour
    <2>1. DOMAIN w = 1..(DaySlots + SlotsPerHour)
          /\ \A j \in 1..(DaySlots + SlotsPerHour) :
                w[j] = IF j <= g + SlotsPerHour THEN j - 1 ELSE j - 1 - SlotsPerHour
        BY <1>7 DEF Longer
    <2>2. w[i] = IF i <= g + SlotsPerHour THEN i - 1 ELSE i - 1 - SlotsPerHour
        BY <2>1, <1>4
    <2>3. \A j \in 1..(i - 1) :
             w[j] = IF j <= g + SlotsPerHour THEN j - 1 ELSE j - 1 - SlotsPerHour
        BY <2>1, <1>4
    <2>4. i <= DaySlots + SlotsPerHour
        BY <2>1, <1>2, <1>4
    <2> QED
        BY <2>2, <2>3, <2>4, <1>2, <1>4, <1>7
<1> QED
    BY <1>3, <1>5, <1>6, <1>7 DEF w

\* A time that a day has not is one its clock skips: what lies so far after
\* its midnight, or an hour less, is a slot of the day and an hour off.
LEMMA SkippedTime ==
    ASSUME NEW d \in DOMAIN Wall, NEW t \in 0..(DaySlots - 1),
           \A i \in 1..SlotsIn(d) : Wall[d][i] # t
    PROVE  /\ t + 1 \in 1..SlotsIn(d) /\ Wall[d][t + 1] = t + SlotsPerHour
           /\ t - SlotsPerHour + 1 \in 1..SlotsIn(d)
           /\ Wall[d][t - SlotsPerHour + 1] = t - SlotsPerHour
<1> DEFINE w == Wall[d]
<1>1. SlotsIn(d) = Len(w) /\ DOMAIN w = 1..Len(w) /\ Len(w) \in Nat
    BY DayLength, Calendar
<1>2. SlotsPerHour \in Nat /\ SlotsPerHour >= 1 /\ DaySlots \in Nat
    BY ClockIs
<1>3. \/ Usual(w)
      \/ \E g \in Int : /\ g >= SlotsPerHour /\ g + 2 * SlotsPerHour <= DaySlots
                        /\ Shorter(w, g) \/ Longer(w, g)
    BY ClockIs
<1>4. \A i \in DOMAIN w : w[i] # t
    BY <1>1
<1> HIDE DEF w
<1>5. ~Usual(w)
    <2> SUFFICES ASSUME Usual(w) PROVE FALSE
        OBVIOUS
    <2>1. DOMAIN w = 1..DaySlots /\ \A j \in 1..DaySlots : w[j] = j - 1
        BY DEF Usual
    <2>2. t + 1 \in 1..DaySlots
        BY <1>2
    <2> QED
        BY <2>1, <2>2, <1>4
<1>6. ASSUME NEW g \in Int, g >= SlotsPerHour, g + 2 * SlotsPerHour <= DaySlots
      PROVE  ~Longer(w, g)
    <2> SUFFICES ASSUME Longer(w, g) PROVE FALSE
        OBVIOUS
    <2>1. DOMAIN w = 1..(DaySlots + SlotsPerHour)
          /\ \A j \in 1..(DaySlots + SlotsPerHour) :
                w[j] = IF j <= g + SlotsPerHour THEN j - 1 ELSE j - 1 - SlotsPerHour
        BY DEF Longer
    <2> DEFINE i == IF t + 1 <= g + SlotsPerHour THEN t + 1 ELSE t + 1 + SlotsPerHour
    <2>2. i \in 1..(DaySlots + SlotsPerHour)
          /\ (IF i <= g + SlotsPerHour THEN i - 1 ELSE i - 1 - SlotsPerHour) = t
        BY <1>2
    <2> HIDE DEF i
    <2> QED
        BY <2>1, <2>2, <1>4
<1>7. ASSUME NEW g \in Int, g >= SlotsPerHour, g + 2 * SlotsPerHour <= DaySlots, Shorter(w, g)
      PROVE  /\ t + 1 \in DOMAIN w /\ w[t + 1] = t + SlotsPerHour
             /\ t - SlotsPerHour + 1 \in DOMAIN w
             /\ w[t - SlotsPerHour + 1] = t - SlotsPerHour
    <2>1. DOMAIN w = 1..(DaySlots - SlotsPerHour)
          /\ \A j \in 1..(DaySlots - SlotsPerHour) :
                w[j] = IF j <= g THEN j - 1 ELSE j - 1 + SlotsPerHour
        BY <1>7 DEF Shorter
    <2>2. g <= t /\ t < g + SlotsPerHour
        <3>1. ~(t < g)
            <4> SUFFICES ASSUME t < g PROVE FALSE
                OBVIOUS
            <4>1. t + 1 \in 1..(DaySlots - SlotsPerHour) /\ t + 1 <= g
                BY <1>2, <1>7
            <4> QED
                BY <4>1, <2>1, <1>4
        <3>2. ~(t >= g + SlotsPerHour)
            <4> SUFFICES ASSUME t >= g + SlotsPerHour PROVE FALSE
                OBVIOUS
            <4> DEFINE i == t + 1 - SlotsPerHour
            <4>1. i \in 1..(DaySlots - SlotsPerHour) /\ ~(i <= g) /\ i - 1 + SlotsPerHour = t
                BY <1>2, <1>7
            <4> HIDE DEF i
            <4> QED
                BY <4>1, <2>1, <1>4
        <3> QED
            BY <3>1, <3>2, <1>2
    <2>3. t + 1 \in 1..(DaySlots - SlotsPerHour) /\ ~(t + 1 <= g)
        BY <2>2, <1>2, <1>7
    <2>4. t - SlotsPerHour + 1 \in 1..(DaySlots - SlotsPerHour) /\ t - SlotsPerHour + 1 <= g
        BY <2>2, <1>2, <1>7
    <2> QED
        BY <2>1, <2>3, <2>4, <1>2
<1>8. \E g \in Int : /\ g >= SlotsPerHour /\ g + 2 * SlotsPerHour <= DaySlots /\ Shorter(w, g)
    BY <1>3, <1>5, <1>6
<1> QED
    BY <1>1, <1>7, <1>8 DEF w
\* The slot of another day that a lagged price is taken from is a slot of that
\* day; it has the same time of day or, where that day skips the time, one an
\* hour off (price_lags.py: same_slot).
THEOREM SameSlotKeepsTheTime ==
    ASSUME NEW s \in Timeline, NEW d \in DOMAIN Wall
    PROVE  LET t == SlotOn(s, d)
           IN  /\ t \in Timeline /\ DayOf(t) = d
               /\ \/ WallTime(t) = WallTime(s)
                  \/ /\ \A i \in 1..SlotsIn(d) : Wall[d][i] # WallTime(s)
                     /\ WallTime(t) \in {WallTime(s) - SlotsPerHour, WallTime(s) + SlotsPerHour}
<1> DEFINE w == WallTime(s)
           at == {i \in 1..SlotsIn(d) : Wall[d][i] = w}
           Right(i) == LET t == Midnight[d] + i - 1
                       IN  /\ t \in Timeline /\ DayOf(t) = d /\ WallTime(t) = Wall[d][i]
<1>1. w \in 0..(DaySlots - 1) /\ (Repeats(s) => w >= SlotsPerHour)
    <2>1. DayOf(s) \in DOMAIN Wall /\ IndexIn(s) \in 1..SlotsIn(DayOf(s))
        BY EverySlotHasItsDay
    <2> QED
        BY <2>1, TimesOfADay DEF WallTime, Repeats
<1>2. ASSUME NEW i \in 1..SlotsIn(d) PROVE Right(i)
    BY PlaceInDay DEF WallTime
<1>3. /\ Midnight[d] \in Int /\ SlotsIn(d) \in Int /\ SlotsPerHour \in Int /\ DaySlots \in Int
    BY InCalendar, ClockIs
<1> HIDE DEF w, Right
<1>4. CASE at = {}
    <2>1. \A i \in 1..SlotsIn(d) : Wall[d][i] # w
        BY <1>4
    <2>2. SlotOn(s, d) = Midnight[d] + w - (IF Repeats(s) THEN SlotsPerHour ELSE 0)
        BY <1>4 DEF SlotOn, w
    <2>3. /\ w + 1 \in 1..SlotsIn(d) /\ Wall[d][w + 1] = w + SlotsPerHour
          /\ w - SlotsPerHour + 1 \in 1..SlotsIn(d)
          /\ Wall[d][w - SlotsPerHour + 1] = w - SlotsPerHour
        BY <1>1, <2>1, SkippedTime
    <2> DEFINE j == IF Repeats(s) THEN w - SlotsPerHour + 1 ELSE w + 1
    <2>4. j \in 1..SlotsIn(d) /\ Wall[d][j] \in {w - SlotsPerHour, w + SlotsPerHour}
        BY <2>3
    <2>5. SlotOn(s, d) = Midnight[d] + j - 1
        BY <2>2, <1>1, <1>3
    <2> HIDE DEF j
    <2>6. Right(j)
        BY <2>4, <1>2
    <2> QED
        BY <2>1, <2>4, <2>5, <2>6 DEF Right, w
<1>5. CASE at # {}
    <2>1. 1 \in Int /\ SlotsIn(d) \in Int /\ at \subseteq 1..SlotsIn(d)
        BY <1>3
    <2>2. Max(at) \in at /\ Min(at) \in at
        BY <1>5, <2>1, MaxIs, MinIs
    <2> DEFINE j == IF Repeats(s) THEN Max(at) ELSE Min(at)
    <2>3. j \in 1..SlotsIn(d) /\ Wall[d][j] = w /\ j \in Int
        BY <2>1, <2>2
    <2>4. SlotOn(s, d) = Midnight[d] - 1 + j
        BY <1>5 DEF SlotOn, w
    <2> HIDE DEF j
    <2>5. SlotOn(s, d) = Midnight[d] + j - 1
        BY <2>3, <2>4, <1>3
    <2>6. Right(j)
        BY <2>3, <1>2
    <2> QED
        BY <2>3, <2>5, <2>6 DEF Right, w
<1> QED
    BY <1>4, <1>5

\* A lagged price is a known one, of an earlier day than the slot's own: the
\* day before it or the last that is known.  It is that of the slot's time of
\* day or, where that day skips the time, of an hour earlier or later
\* (price_lags.py: column).
THEOREM LaggedPriceIsOfTheSameTime ==
    ASSUME NEW K, DOMAIN K \in SUBSET Timeline, NEW s \in Timeline, LagColumn(K, s) # None
    PROVE  \E t \in DOMAIN K :
              /\ LagColumn(K, s) = K[t] /\ DayOf(t) < DayOf(s)
              /\ DayOf(t) = DayOf(s) - 1 \/ DayOf(t) = LastKnownDay(K)
              /\ \/ WallTime(t) = WallTime(s)
                 \/ /\ \A i \in 1..SlotsIn(DayOf(t)) : Wall[DayOf(t)][i] # WallTime(s)
                    /\ WallTime(t) \in {WallTime(s) - SlotsPerHour, WallTime(s) + SlotsPerHour}
<1> DEFINE r == ReferenceDay(K, s)
           t == SlotOn(s, r)
<1>1. r # NoDay /\ LagColumn(K, s) = SameSlot(K, s, r)
    BY DEF LagColumn
<1>2. r \in DOMAIN Wall /\ t \in DOMAIN K /\ SameSlot(K, s, r) = K[t]
    BY <1>1 DEF SameSlot
<1>3. DOMAIN K # {}
    BY <1>2
<1>4. /\ r = (IF DayOf(s) > LastKnownDay(K) THEN LastKnownDay(K) ELSE DayOf(s) - 1)
      /\ r < DayOf(s)
    BY <1>3, ReferenceIs
<1> HIDE DEF r
<1>5. /\ DayOf(t) = r
      /\ \/ WallTime(t) = WallTime(s)
         \/ /\ \A i \in 1..SlotsIn(r) : Wall[r][i] # WallTime(s)
            /\ WallTime(t) \in {WallTime(s) - SlotsPerHour, WallTime(s) + SlotsPerHour}
    BY <1>2, SameSlotKeepsTheTime
<1> HIDE DEF t
<1> QED
    BY <1>1, <1>2, <1>4, <1>5

\* The gas price of a slot is of a day before its own: what is published
\* later does not change it.
LEMMA GasIsOfEarlierDays ==
    ASSUME NEW gas, DOMAIN gas \in SUBSET Nat, NEW day \in Nat, NEW today \in Int, day <= today
    PROVE  GasBefore(Restrict(gas, {d \in DOMAIN gas : d < today}), day) = GasBefore(gas, day)
<1> DEFINE older == {d \in DOMAIN gas : d < day}
           R == {d \in DOMAIN gas : d < today}
           known == Restrict(gas, R)
<1>1. DOMAIN known = R /\ \A d \in R : known[d] = gas[d]
    BY DEF Restrict
<1>2. {d \in DOMAIN known : d < day} = older
    <2> HIDE DEF known
    <2>1. \A d \in older : d \in R
        OBVIOUS
    <2> QED
        BY <1>1, <2>1
<1>3. older # {} => Max(older) \in older
    <2> SUFFICES ASSUME older # {} PROVE Max(older) \in older
        OBVIOUS
    <2>1. 0 \in Int /\ day \in Int /\ older \subseteq 0..day
        OBVIOUS
    <2> HIDE DEF older
    <2> QED
        BY <2>1, MaxIs
<1>4. older # {} => known[Max(older)] = gas[Max(older)]
    <2> HIDE DEF known
    <2> QED
        BY <1>1, <1>3
<1> HIDE DEF known
<1>5. GasBefore(known, day) = GasBefore(gas, day)
    BY <1>2, <1>4 DEF GasBefore
<1> QED
    BY <1>5 DEF known

\* What the model is given of a slot, of the stored values and the gas prices.
InputsOf(consumption, solar, wind, load, zone, gas, s) ==
    FeatureRow(SlotInputs([consumption |-> consumption, solar |-> solar, wind |-> wind,
                           load |-> load, zone |-> zone, gas |-> gas], s))

\* A training row holds what a prediction row for its slot held: whenever some
\* price of the day before was known, the lagged price was the same or not
\* known yet, and the same once every price before the day was; and the rest
\* of the row is the same as long as the values stored for the slot are,
\* though gas prices of later days have come since (price_lags.py, gas_price.py,
\* training_inputs.py, features.py: build_feature_row).
THEOREM TrainingRowsAreAsServed ==
    ASSUME NEW K, DOMAIN K \in SUBSET Timeline, NEW s \in Timeline,
           NEW now \in Int, NEW k \in DOMAIN K, k < now, DayOf(k) >= DayOf(s) - 1,
           NEW gas, DOMAIN gas \in SUBSET Nat, NEW today \in Int, DayOf(s) <= today,
           NEW consumption, NEW solar, NEW wind, NEW load, NEW zone
    PROVE  LET served == Restrict(K, {t \in DOMAIN K : t < now})
               earlier == Restrict(gas, {d \in DOMAIN gas : d < today})
           IN  /\ LagColumn(served, s) \in {LagColumn(K, s), None}
               /\ Midnight[DayOf(s)] <= now => LagColumn(served, s) = LagColumn(K, s)
               /\ InputsOf(consumption, solar, wind, load, zone, earlier, s)
                      = InputsOf(consumption, solar, wind, load, zone, gas, s)
<1> DEFINE R == {t \in DOMAIN K : t < now}
           served == Restrict(K, R)
           d == DayOf(s) - 1
           u == SlotOn(s, d)
<1>1. DOMAIN served = R /\ \A t \in R : served[t] = K[t]
    BY DEF Restrict
<1>2. R \in SUBSET Timeline /\ k \in R
    OBVIOUS
<1>3. ReferenceDay(K, s) = d
    BY DayBeforeIsReference
<1>4. ReferenceDay(served, s) = d
    <2> HIDE DEF served, R
    <2> QED
        BY <1>1, <1>2, DayBeforeIsReference
<1>5. d # NoDay
    BY DayNumbers DEF NoDay
<1>6. LagColumn(K, s) = SameSlot(K, s, d) /\ LagColumn(served, s) = SameSlot(served, s, d)
    <2> HIDE DEF served, d
    <2> QED
        BY <1>3, <1>4, <1>5 DEF LagColumn
<1>7. SameSlot(served, s, d) = IF d \in DOMAIN Wall /\ u \in R THEN K[u] ELSE None
    <2> HIDE DEF served, R, d
    <2> QED
        BY <1>1 DEF SameSlot
<1>8. SameSlot(K, s, d) = IF d \in DOMAIN Wall /\ u \in DOMAIN K THEN K[u] ELSE None
    <2> HIDE DEF d
    <2> QED
        BY DEF SameSlot
<1>9. ASSUME Midnight[DayOf(s)] <= now, d \in DOMAIN Wall, u \in DOMAIN K
      PROVE  u \in R
    <2>1. u \in Timeline /\ DayOf(u) = d
        <3> HIDE DEF d
        <3> QED
            BY <1>9, SameSlotKeepsTheTime
    <2>2. Lasts(d, u) /\ u \in Int
        BY <2>1, EverySlotHasItsDay DEF Timeline
    <2>3. u < Midnight[d + 1] /\ d + 1 = DayOf(s)
        BY <2>2, DayNumbers DEF Lasts
    <2>4. Midnight[DayOf(s)] \in Int
        <3>1. DayOf(s) \in DOMAIN Wall
            BY DayNumbers
        <3>2. \A e \in DOMAIN Wall : Midnight[e] \in Int
            BY InCalendar
        <3> QED
            BY <3>1, <3>2
    <2> HIDE DEF u, d
    <2>5. u < now
        BY <2>2, <2>3, <2>4, <1>9
    <2> QED
        BY <2>5, <1>9
<1>10. InputsOf(consumption, solar, wind, load, zone, Restrict(gas, {e \in DOMAIN gas : e < today}), s)
           = InputsOf(consumption, solar, wind, load, zone, gas, s)
    <2>1. GasBefore(Restrict(gas, {e \in DOMAIN gas : e < today}), DayOf(s)) = GasBefore(gas, DayOf(s))
        BY DayNumbers, GasIsOfEarlierDays
    <2> QED
        BY <2>1 DEF InputsOf, SlotInputs
<1> HIDE DEF served, d, u, R
<1>11. LagColumn(served, s) \in {LagColumn(K, s), None}
    BY <1>6, <1>7, <1>8 DEF R
<1>12. Midnight[DayOf(s)] <= now => LagColumn(served, s) = LagColumn(K, s)
    BY <1>6, <1>7, <1>8, <1>9 DEF R
<1> QED
    BY <1>10, <1>11, <1>12 DEF served, R
-----------------------------------------------------------------------------
(* The confidence of a prediction: models.py *)

LEMMA DivisionKeepsOrder ==
    ASSUME NEW a \in Int, NEW b \in Int, NEW c \in Int, c > 0, a <= b
    PROVE  a \div c \in Int /\ b \div c \in Int /\ a \div c <= b \div c
OBVIOUS

\* The deductions from a confidence that was learned, and from one that was not.
Learned(e) == (100 * e.mae) \div e.scale
Unsteady(e) == (30 * e.volatility) \div e.scale
Unknown(known) == (IF known.wind THEN 0 ELSE 20) + (IF known.solar THEN 0 ELSE 10)
                  + (IF known.weekend THEN 5 ELSE 0)
Measurement == [count : Nat, scale : Int, mae : Nat, volatility : Nat, temp : Nat, wind : Nat]
Circumstance == [wind : BOOLEAN, solar : BOOLEAN, weekend : BOOLEAN]
Higher(a, b) == IF a >= b THEN a ELSE b
Lower(a, b) == IF a <= b THEN a ELSE b

LEMMA PairBounds == ASSUME NEW a \in Int, NEW b \in Int
                    PROVE  /\ Max({a, b}) = Higher(a, b) /\ Higher(a, b) \in Int
                           /\ Min({a, b}) = Lower(a, b) /\ Lower(a, b) \in Int
    BY PairExtrema DEF Higher, Lower

LEMMA LearnedConfidenceIs ==
    ASSUME NEW e \in Measurement, NEW known, NEW ahead, e.count >= 5, e.scale > 0
    PROVE  /\ Learned(e) \in Int /\ Unsteady(e) \in Int
           /\ Confidence(e, known, ahead) =
                Higher(10, Higher(10, 100 - Learned(e)) - Lower(25, Unsteady(e))
                             - Lower(15, 5 * e.temp) - Lower(15, 3 * e.wind))
<1> DEFINE l == Learned(e)
           v == Unsteady(e)
           t == 5 * e.temp
           w == 3 * e.wind
<1>1. l \in Int /\ v \in Int /\ t \in Int /\ w \in Int /\ 100 - l \in Int
    <2>1. 100 * e.mae \in Int /\ 30 * e.volatility \in Int /\ e.scale \in Int /\ e.scale > 0
          /\ 5 * e.temp \in Int /\ 3 * e.wind \in Int
        BY DEF Measurement
    <2> QED
        BY <2>1, DivisionKeepsOrder DEF Learned, Unsteady
<1>2. Confidence(e, known, ahead) =
          Max({10, Max({10, 100 - l}) - Min({25, v}) - Min({15, t}) - Min({15, w})})
    BY DEF Confidence, AtMost, Learned, Unsteady
<1> HIDE DEF l, v, t, w
<1>3. Max({10, 100 - l}) = Higher(10, 100 - l) /\ Higher(10, 100 - l) \in Int
    BY <1>1, PairBounds
<1>4. Min({25, v}) = Lower(25, v) /\ Lower(25, v) \in Int
    BY <1>1, PairBounds
<1>5. Min({15, t}) = Lower(15, t) /\ Lower(15, t) \in Int
    BY <1>1, PairBounds
<1>6. Min({15, w}) = Lower(15, w) /\ Lower(15, w) \in Int
    BY <1>1, PairBounds
<1> DEFINE x == Higher(10, 100 - l) - Lower(25, v) - Lower(15, t) - Lower(15, w)
<1>7. x \in Int
    BY <1>3, <1>4, <1>5, <1>6
<1>8. Confidence(e, known, ahead) = Max({10, x})
    BY <1>2, <1>3, <1>4, <1>5, <1>6
<1> HIDE DEF x
<1>9. Max({10, x}) = Higher(10, x)
    BY <1>7, PairBounds
<1> QED
    BY <1>1, <1>8, <1>9 DEF x, l, v, t, w

LEMMA GuessedConfidenceIs ==
    ASSUME NEW e, NEW known, NEW ahead \in Int, ~(e.count >= 5 /\ e.scale > 0)
    PROVE  /\ Unknown(known) \in 0..35
           /\ Confidence(e, known, ahead) = Higher(30, 80 - Unknown(known) - 5 * Higher(0, ahead))
<1> DEFINE p == IF known.wind THEN 0 ELSE 20
           q == IF known.solar THEN 0 ELSE 10
           r == IF known.weekend THEN 5 ELSE 0
<1>1. p \in 0..20 /\ q \in 0..10 /\ r \in 0..5
    OBVIOUS
<1>2. Confidence(e, known, ahead) = Max({30, 80 - p - q - r - 5 * Max({0, ahead})})
    BY DEF Confidence
<1>3. Unknown(known) = p + q + r
    BY DEF Unknown
<1> HIDE DEF p, q, r
<1>4. Max({0, ahead}) = Higher(0, ahead) /\ Higher(0, ahead) \in Int
    BY PairBounds
<1> DEFINE x == 80 - p - q - r - 5 * Higher(0, ahead)
<1>5. x \in Int /\ x = 80 - Unknown(known) - 5 * Higher(0, ahead) /\ Unknown(known) \in 0..35
    BY <1>1, <1>3, <1>4
<1>6. Confidence(e, known, ahead) = Max({30, x})
    BY <1>2, <1>4
<1> HIDE DEF x
<1>7. Max({30, x}) = Higher(30, x)
    BY <1>5, PairBounds
<1> QED
    BY <1>5, <1>6, <1>7

\* A confidence is between 10 and 100 percent whatever was measured, and of
\* two slots alike in what is known of them the one with the larger errors,
\* or further ahead, never has the higher (models.py: _estimate_confidence).
THEOREM ConfidenceFallsWithErrors ==
    ASSUME NEW e \in Measurement, NEW known \in Circumstance, NEW ahead \in Int,
           NEW f \in Measurement, NEW further \in Int,
           f.count = e.count, f.scale = e.scale, f.mae >= e.mae, f.volatility >= e.volatility,
           f.temp >= e.temp, f.wind >= e.wind, further >= ahead
    PROVE  /\ Confidence(e, known, ahead) \in 10..100
           /\ Confidence(f, known, further) <= Confidence(e, known, ahead)
<1>1. CASE e.count >= 5 /\ e.scale > 0
    <2>1. /\ Learned(e) \in Int /\ Learned(f) \in Int /\ Learned(e) <= Learned(f)
          /\ 0 <= Learned(e)
          /\ Unsteady(e) \in Int /\ Unsteady(f) \in Int /\ Unsteady(e) <= Unsteady(f)
          /\ 0 <= Unsteady(e)
        <3>1. /\ 100 * e.mae \in Int /\ 100 * f.mae \in Int /\ 100 * e.mae <= 100 * f.mae
              /\ 0 <= 100 * e.mae /\ 0 <= 30 * e.volatility
              /\ 30 * e.volatility \in Int /\ 30 * f.volatility \in Int
              /\ 30 * e.volatility <= 30 * f.volatility
              /\ e.scale \in Int /\ e.scale > 0
            BY <1>1 DEF Measurement
        <3>2. 0 \div e.scale = 0 /\ 0 \in Int
            BY <3>1
        <3>3. 0 <= Learned(e) /\ 0 <= Unsteady(e)
            BY <3>1, <3>2, DivisionKeepsOrder DEF Learned, Unsteady
        <3> QED
            BY <3>1, <3>3, DivisionKeepsOrder DEF Learned, Unsteady
    <2>2. /\ e.temp \in Nat /\ e.wind \in Nat /\ f.temp \in Nat /\ f.wind \in Nat
        BY DEF Measurement
    <2>3. f.count >= 5 /\ f.scale > 0
        BY <1>1
    <2>4. /\ Confidence(e, known, ahead) =
                Higher(10, Higher(10, 100 - Learned(e)) - Lower(25, Unsteady(e))
                             - Lower(15, 5 * e.temp) - Lower(15, 3 * e.wind))
          /\ Confidence(f, known, further) =
                Higher(10, Higher(10, 100 - Learned(f)) - Lower(25, Unsteady(f))
                             - Lower(15, 5 * f.temp) - Lower(15, 3 * f.wind))
        BY <1>1, <2>3, LearnedConfidenceIs
    <2> DEFINE le == Learned(e)
               lf == Learned(f)
               ve == Unsteady(e)
               vf == Unsteady(f)
    <2>5. /\ Higher(10, 100 - le) \in 10..100 /\ Higher(10, 100 - lf) \in 10..100
          /\ Higher(10, 100 - lf) <= Higher(10, 100 - le)
        <3> HIDE DEF le, lf
        <3> QED
            BY <2>1 DEF Higher, le, lf
    <2>6. /\ Lower(25, ve) \in 0..25 /\ Lower(25, vf) \in 0..25
          /\ Lower(25, ve) <= Lower(25, vf)
        <3> HIDE DEF ve, vf
        <3> QED
            BY <2>1 DEF Lower, ve, vf
    <2>7. /\ Lower(15, 5 * e.temp) \in 0..15 /\ Lower(15, 5 * f.temp) \in 0..15
          /\ Lower(15, 5 * e.temp) <= Lower(15, 5 * f.temp)
        BY <2>2 DEF Lower
    <2>8. /\ Lower(15, 3 * e.wind) \in 0..15 /\ Lower(15, 3 * f.wind) \in 0..15
          /\ Lower(15, 3 * e.wind) <= Lower(15, 3 * f.wind)
        BY <2>2 DEF Lower
    <2> DEFINE a == Higher(10, 100 - le) - Lower(25, ve) - Lower(15, 5 * e.temp)
                      - Lower(15, 3 * e.wind)
               b == Higher(10, 100 - lf) - Lower(25, vf) - Lower(15, 5 * f.temp)
                      - Lower(15, 3 * f.wind)
    <2>9. a \in Int /\ b \in Int /\ b <= a /\ a <= 100
        <3> DEFINE h == Higher(10, 100 - le)
                   k == Higher(10, 100 - lf)
                   te == Lower(15, 5 * e.temp)
                   tf == Lower(15, 5 * f.temp)
                   we == Lower(15, 3 * e.wind)
                   wf == Lower(15, 3 * f.wind)
                   ue == Lower(25, ve)
                   uf == Lower(25, vf)
        <3>1. /\ h \in 10..100 /\ k \in 10..100 /\ k <= h
              /\ ue \in 0..25 /\ uf \in 0..25 /\ ue <= uf
            BY <2>5, <2>6
        <3>2. /\ te \in 0..15 /\ tf \in 0..15 /\ te <= tf
              /\ we \in 0..15 /\ wf \in 0..15 /\ we <= wf
            BY <2>7, <2>8
        <3> HIDE DEF h, k, te, tf, we, wf, ue, uf
        <3>3. LET x == h - ue - te - we
                  y == k - uf - tf - wf
              IN  x \in Int /\ y \in Int /\ y <= x /\ x <= 100
            BY <3>1, <3>2
        <3> QED
            BY <3>3 DEF h, k, te, tf, we, wf, ue, uf
    <2>10. Confidence(e, known, ahead) = Higher(10, a) /\ Confidence(f, known, further) = Higher(10, b)
        BY <2>4
    <2> HIDE DEF a, b
    <2> QED
        BY <2>9, <2>10 DEF Higher
<1>2. CASE ~(e.count >= 5 /\ e.scale > 0)
    <2>1. ~(f.count >= 5 /\ f.scale > 0)
        BY <1>2
    <2>2. /\ Unknown(known) \in 0..35
          /\ Confidence(e, known, ahead) = Higher(30, 80 - Unknown(known) - 5 * Higher(0, ahead))
          /\ Confidence(f, known, further)
                 = Higher(30, 80 - Unknown(known) - 5 * Higher(0, further))
        BY <1>2, <2>1, GuessedConfidenceIs
    <2> QED
        BY <2>2 DEF Higher
<1> QED
    BY <1>1, <1>2
-----------------------------------------------------------------------------
(* Answers of the series sources: dayahead_prices.py, nordpool_prognoses.py, *)
(* exchange_rates.py *)

RowsAt(answer, s) == {r \in answer.rows : r.slot = s}
Answers == [ok : BOOLEAN, rows : SUBSET [slot : Int, price : Int]]

\* Of two sources of day-ahead prices each slot has the prices of one: of the
\* first where it has any, else of the second.  No slot of the window for which
\* a source that answers has a price goes without, and the request has failed
\* only if neither source that was asked answered
\* (dayahead_prices.py: DayAheadPriceSource._fetch).
THEOREM FallbackFillsTheWindow ==
    ASSUME NEW charts \in Answers, charts.ok \/ charts.rows = {},
           NEW entsoe \in Answers, NEW window, NEW key \in BOOLEAN
    PROVE  LET got == DayAheadFetch(charts, entsoe, window, key)
               asked == key /\ entsoe.ok
           IN  /\ \A s \in SlotsOfRows(charts) : RowsAt(got, s) = RowsAt(charts, s)
               /\ \A s : s \notin SlotsOfRows(charts) => RowsAt(got, s) \subseteq RowsAt(entsoe, s)
               /\ asked => \A s \in window :
                     s \notin SlotsOfRows(charts) => RowsAt(got, s) = RowsAt(entsoe, s)
               /\ got.ok <=> charts.ok \/ asked
<1> DEFINE got == DayAheadFetch(charts, entsoe, window, key)
           asked == key /\ entsoe.ok
           all == charts.rows \union {r \in entsoe.rows : r.slot \notin SlotsOfRows(charts)}
           enough == charts.rows # {} /\ window \ SlotsOfRows(charts) = {}
<1>1. got = IF enough \/ ~asked THEN charts ELSE [ok |-> TRUE, rows |-> all]
    BY DEF DayAheadFetch, Answer
<1>2. \A s : s \in SlotsOfRows(charts) <=> RowsAt(charts, s) # {}
    BY DEF SlotsOfRows, RowsAt
<1>3. ASSUME NEW s
      PROVE  {r \in all : r.slot = s}
                 = IF s \in SlotsOfRows(charts) THEN RowsAt(charts, s) ELSE RowsAt(entsoe, s)
    <2>1. CASE s \in SlotsOfRows(charts)
        BY <2>1 DEF RowsAt
    <2>2. CASE s \notin SlotsOfRows(charts)
        BY <2>2, <1>2 DEF RowsAt
    <2> QED
        BY <2>1, <2>2
<1> HIDE DEF all
<1>4. CASE enough \/ ~asked
    <2>1. got = charts
        BY <1>1, <1>4
    <2>2. asked => \A s \in window : s \in SlotsOfRows(charts)
        BY <1>4
    <2>3. asked => charts.ok
        BY <1>4
    <2> QED
        BY <2>1, <2>2, <2>3, <1>2
<1>5. CASE ~(enough \/ ~asked)
    <2>1. got.ok = TRUE /\ got.rows = all
        BY <1>1, <1>5
    <2>2. \A s : RowsAt(got, s) = {r \in all : r.slot = s}
        BY <2>1 DEF RowsAt
    <2> QED
        BY <2>1, <2>2, <1>3, <1>5
<1> QED
    BY <1>4, <1>5

\* The features read a production prognosis only beside the consumption
\* prognosis of its own slot, whatever slots the two were published for, and
\* what is not published is unknown (nordpool_prognoses.py: prognosis_rows,
\* forecast_prognoses).
THEOREM PrognosesStayPaired ==
    ASSUME NEW consumption, NEW production
    PROVE  LET C == DOMAIN consumption
               P == DOMAIN production
               read == ForecastPrognoses(PrognosisRows(consumption, production))
           IN  /\ read.consumption = [s \in {s \in C : consumption[s] # None} |-> consumption[s]]
               /\ read.production = [s \in {s \in C \intersect P : production[s] # None} |->
                                        production[s]]
<1> DEFINE C == DOMAIN consumption
           P == DOMAIN production
           produced(s) == IF s \in P THEN production[s] ELSE None
           row(s) == [slot |-> s, consumption |-> consumption[s], produced |-> produced(s)]
           rows == {row(s) : s \in C}
           of(s) == CHOOSE r \in rows : r.slot = s
<1>1. PrognosisRows(consumption, production) = rows
    BY DEF PrognosisRows
<1>2. \A s : row(s).slot = s /\ row(s).consumption = consumption[s] /\ row(s).produced = produced(s)
    OBVIOUS
<1> HIDE DEF row, produced
<1>3. \A s \in C : of(s) = row(s)
    <2> SUFFICES ASSUME NEW s \in C PROVE of(s) = row(s)
        OBVIOUS
    <2>1. row(s) \in rows /\ row(s).slot = s
        BY <1>2
    <2>2. \A r \in rows : r.slot = s => r = row(s)
        BY <1>2
    <2> QED
        BY <2>1, <2>2
<1>4. {r.slot : r \in {r \in rows : r.consumption # None}} = {s \in C : consumption[s] # None}
    BY <1>2
<1>5. {r.slot : r \in {r \in rows : r.produced # None}} = {s \in C : produced(s) # None}
    BY <1>2
<1>6. {s \in C : produced(s) # None} = {s \in C \intersect P : production[s] # None}
    BY DEF produced
<1> HIDE DEF rows
<1>7. ForecastPrognoses(rows).consumption
          = [s \in {s \in C : consumption[s] # None} |-> of(s).consumption]
    BY <1>4 DEF ForecastPrognoses
<1>8. ForecastPrognoses(rows).production
          = [s \in {s \in C \intersect P : production[s] # None} |-> of(s).produced]
    BY <1>5, <1>6 DEF ForecastPrognoses
<1> HIDE DEF of
<1>9. \A s \in C : of(s).consumption = consumption[s] /\ of(s).produced = produced(s)
    BY <1>2, <1>3
<1>10. \A s \in C \intersect P : of(s).produced = production[s]
    BY <1>9 DEF produced
<1> QED
    BY <1>1, <1>7, <1>8, <1>9, <1>10

\* What is kept of exchange rates: published ones, and all that had been since
\* the start of the last fetch but that of the day itself.
RatesKept(R, published) ==
    /\ R.on \in Int /\ R.from \in Int
    /\ DOMAIN R.rates \subseteq DOMAIN published
    /\ \A d \in DOMAIN R.rates : R.rates[d] = published[d]
    /\ R.on # None => \A d \in DOMAIN published :
                         R.from <= d /\ d < R.on => d \in DOMAIN R.rates
\* What the bank answers on a day: no rate, or those published until then, the
\* day's own included or not.
PublishedBy(published, today, late) ==
    {d \in DOMAIN published : d < today \/ (late /\ d = today)}
BankAnswer(rates, published, today) ==
    \/ DOMAIN rates = {}
    \/ \E late \in BOOLEAN : rates = Restrict(published, PublishedBy(published, today, late))

\* Before the first update nothing is kept, and every update keeps this.
LEMMA NoRatesAreKept == ASSUME NEW published PROVE RatesKept(NoRates, published)
<1>1. DOMAIN NoRates.rates = {} /\ NoRates.on = None /\ NoRates.from = None /\ None \in Int
    BY DEF NoRates, None
<1> QED
    BY <1>1 DEF RatesKept

LEMMA RatesStayKept ==
    ASSUME NEW first \in Int, NEW today \in Nat, NEW published, DOMAIN published \subseteq Int,
           NEW R, RatesKept(R, published), NEW rates, BankAnswer(rates, published, today)
    PROVE  RatesKept(UpdateRates(R, first, today, rates), published)
<1> DEFINE from == first - Lookback
           D == {d \in DOMAIN rates : d >= from}
           got == Restrict(rates, D)
           both == [d \in DOMAIN got \union DOMAIN R.rates |->
                       IF d \in DOMAIN got THEN got[d] ELSE R.rates[d]]
           S == [rates |-> both, on |-> today, from |-> from]
<1>1. CASE UpdateRates(R, first, today, rates) = R
    BY <1>1
<1>2. CASE UpdateRates(R, first, today, rates) # R
    <2>1. DOMAIN got = D /\ \A d \in D : got[d] = rates[d]
        BY DEF Restrict
    <2>2. UpdateRates(R, first, today, rates) = S /\ D # {}
        <3>1. UpdateRates(R, first, today, rates) = IF DOMAIN got = {} THEN R ELSE S
            BY <1>2 DEF UpdateRates, Extended
        <3> HIDE DEF S
        <3> HIDE DEF got, D
        <3> QED
            BY <1>2, <2>1, <3>1
    <2>3. PICK late \in BOOLEAN : rates = Restrict(published, PublishedBy(published, today, late))
        BY <2>2 DEF BankAnswer
    <2>4. DOMAIN rates = PublishedBy(published, today, late)
          /\ \A d \in DOMAIN rates : rates[d] = published[d]
        BY <2>3 DEF Restrict
    <2> HIDE DEF got
    <2>10. both = [d \in D \union DOMAIN R.rates |-> IF d \in D THEN got[d] ELSE R.rates[d]]
        BY <2>1
    <2>11. S.rates = both /\ S.on = today /\ S.from = from
        OBVIOUS
    <2> HIDE DEF S, both, D
    <2>5. /\ DOMAIN S.rates = D \union DOMAIN R.rates /\ S.on = today /\ S.from = from
          /\ \A d \in DOMAIN S.rates : S.rates[d] = IF d \in D THEN rates[d] ELSE R.rates[d]
        BY <2>1, <2>10, <2>11
    <2> USE DEF D
    <2>6. \A d \in D : d \in DOMAIN published /\ rates[d] = published[d]
        BY <2>4 DEF PublishedBy
    <2>7. \A d \in DOMAIN published : from <= d /\ d < today => d \in D
        BY <2>4, SeriesAssumption DEF PublishedBy
    <2>8. from \in Int /\ today \in Int
        BY SeriesAssumption
    <2> HIDE DEF D, from
    <2>9. RatesKept(S, published)
        BY <2>5, <2>6, <2>7, <2>8 DEF RatesKept
    <2> QED
        BY <2>2, <2>9
<1> QED
    BY <1>1, <1>2

LEMMA RateIsTheLast ==
    ASSUME NEW today \in Nat, NEW low \in Int, NEW high \in Int,
           NEW published, DOMAIN published \subseteq low..high,
           NEW R, RatesKept(R, published), R.on = today,
           NEW d \in Int, d <= today, NEW e \in DOMAIN published,
           R.from <= e, e <= d, e < today,
           \A f \in DOMAIN published : f <= d /\ f < today => f <= e, NEW peg
    PROVE  \/ Rate(R, d, peg) = published[e]
           \/ d = today /\ d \in DOMAIN published /\ Rate(R, d, peg) = published[d]
<1> DEFINE earlier == {f \in DOMAIN R.rates : f <= d}
           m == Max(earlier)
<1>1. /\ DOMAIN R.rates \subseteq DOMAIN published
      /\ \A f \in DOMAIN R.rates : R.rates[f] = published[f]
      /\ \A f \in DOMAIN published : R.from <= f /\ f < R.on => f \in DOMAIN R.rates
    <2>1. R.on # None
        BY DEF None
    <2> QED
        BY <2>1 DEF RatesKept
<1>2. e \in earlier
    BY <1>1
<1>3. m \in earlier /\ e <= m
    <2>1. earlier \subseteq low..high /\ earlier # {}
        BY <1>1, <1>2
    <2> HIDE DEF earlier
    <2> QED
        BY <2>1, <1>2, MaxIs
<1>4. Rate(R, d, peg) = R.rates[m]
    <2> HIDE DEF m
    <2>1. earlier # {}
        BY <1>2
    <2> QED
        BY <2>1 DEF Rate, m
<1> HIDE DEF m
<1>5. m \in DOMAIN published /\ R.rates[m] = published[m] /\ m <= d /\ m \in Int /\ e \in Int
    BY <1>1, <1>3
<1>6. CASE m < today
    <2>1. m = e
        BY <1>3, <1>5, <1>6
    <2> QED
        BY <2>1, <1>4, <1>5
<1>7. CASE ~(m < today)
    <2>1. m = d /\ d = today
        BY <1>5, <1>7
    <2> QED
        BY <2>1, <1>4, <1>5
<1> QED
    BY <1>6, <1>7

\* Whatever was fetched before and however the fetches failed, the rates kept
\* are published ones; and after an update that covers a day, its rate is the
\* last published on or before it.  Only the current day's may be the one
\* before, if its own came later (exchange_rates.py: async_update, rate).
THEOREM RateIsThatOfItsDay ==
    ASSUME NEW first \in Int, NEW today \in Nat, NEW low \in Int, NEW high \in Int,
           NEW published, DOMAIN published \subseteq low..high,
           NEW R, RatesKept(R, published), NEW rates, BankAnswer(rates, published, today),
           NEW peg
    PROVE  LET S == UpdateRates(R, first, today, rates)
           IN  /\ RatesKept(S, published)
               /\ S.on = today /\ S.from <= first - Lookback =>
                     \A d \in first..today : \A e \in DOMAIN published :
                        /\ first - Lookback <= e /\ e <= d /\ e < today
                        /\ \A f \in DOMAIN published : f <= d /\ f < today => f <= e
                        => \/ Rate(S, d, peg) = published[e]
                           \/ /\ d = today /\ d \in DOMAIN published
                              /\ Rate(S, d, peg) = published[d]
<1> DEFINE S == UpdateRates(R, first, today, rates)
<1>1. RatesKept(S, published)
    <2>1. DOMAIN published \subseteq Int
        OBVIOUS
    <2> QED
        BY <2>1, RatesStayKept
<1> HIDE DEF S
<1>2. ASSUME S.on = today, S.from <= first - Lookback, NEW d \in first..today,
             NEW e \in DOMAIN published, first - Lookback <= e, e <= d, e < today,
             \A f \in DOMAIN published : f <= d /\ f < today => f <= e
      PROVE  \/ Rate(S, d, peg) = published[e]
             \/ d = today /\ d \in DOMAIN published /\ Rate(S, d, peg) = published[d]
    <2>1. S.from <= e
        <3>1. S.from \in Int /\ e \in Int /\ Lookback \in Int
            BY <1>1, SeriesAssumption DEF RatesKept
        <3> QED
            BY <1>2, <3>1
    <2>2. d \in Int /\ d <= today
        OBVIOUS
    <2> QED
        BY <1>1, <1>2, <2>1, <2>2, RateIsTheLast
<1> QED
    BY <1>1, <1>2 DEF S
-----------------------------------------------------------------------------
(* The load curve and the weeks it is asked for in: entsoe_load.py *)

LEMMA AnchorIsInDay ==
    ASSUME NEW d \in DOMAIN Wall, NEW w \in {FirstAnchor, LastAnchor}
    PROVE  SlotAt(d, w) \in Timeline /\ DayOf(SlotAt(d, w)) = d
<1> DEFINE at == {i \in DOMAIN Wall[d] : Wall[d][i] = w}
<1>1. w \in ToSet(Wall[d])
    BY SeriesAssumption
<1>2. at # {}
    BY <1>1 DEF ToSet
<1>3. DOMAIN Wall[d] = 1..SlotsIn(d) /\ SlotsIn(d) \in Nat
    BY Calendar, DayLength
<1>4. Min(at) \in 1..SlotsIn(d)
    <2>1. 1 \in Int /\ SlotsIn(d) \in Int /\ at \subseteq 1..SlotsIn(d)
        BY <1>3
    <2> HIDE DEF at
    <2>2. Min(at) \in at
        BY <1>2, <2>1, MinIs
    <2> QED
        BY <2>1, <2>2
<1>5. SlotAt(d, w) = Midnight[d] + Min(at) - 1
    BY DEF SlotAt
<1> HIDE DEF at
<1> QED
    BY <1>4, <1>5, PlaceInDay

Between(a, x, b) == (a <= x /\ x <= b) \/ (b <= x /\ x <= a)

LEMMA RunIs ==
    ASSUME NEW days \in SUBSET Nat, NEW d \in days, NEW e \in days
    PROVE  e \in RunOf(d, days) <=> \A f \in Nat : Between(d, f, e) => f \in days
<1>1. d \in Int /\ e \in Int
    OBVIOUS
<1>2. /\ Min({d, e}) = (IF d <= e THEN d ELSE e)
      /\ Max({d, e}) = (IF d >= e THEN d ELSE e)
    BY <1>1, PairExtrema
<1>3. \A f : f \in (Min({d, e})..Max({d, e})) <=> f \in Nat /\ Between(d, f, e)
    BY <1>2 DEF Between
<1>4. e \in RunOf(d, days) <=> \A f \in Min({d, e})..Max({d, e}) : f \in days
    BY DEF RunOf
<1> QED
    BY <1>3, <1>4

LEMMA RunIsOfDays == ASSUME NEW days \in SUBSET Nat, NEW d \in days
                     PROVE  RunOf(d, days) \subseteq days /\ d \in RunOf(d, days)
<1>1. \A f \in Nat : Between(d, f, d) => f \in days
    BY DEF Between
<1>2. d \in RunOf(d, days)
    BY <1>1, RunIs
<1> QED
    BY <1>2 DEF RunOf

\* A run is the same whichever of its days it is found from.
LEMMA RunsAreOne ==
    ASSUME NEW days \in SUBSET Nat, NEW d \in days, NEW x \in RunOf(d, days)
    PROVE  RunOf(x, days) = RunOf(d, days)
<1>1. x \in days
    BY RunIsOfDays
<1>2. \A f \in Nat : Between(d, f, x) => f \in days
    BY <1>1, RunIs
<1>3. ASSUME NEW e \in days PROVE e \in RunOf(x, days) <=> e \in RunOf(d, days)
    <2>1. e \in RunOf(x, days) <=> \A f \in Nat : Between(x, f, e) => f \in days
        BY <1>1, RunIs
    <2>2. e \in RunOf(d, days) <=> \A f \in Nat : Between(d, f, e) => f \in days
        BY RunIs
    <2>3. d \in Nat /\ x \in Nat /\ e \in Nat
        BY <1>1
    <2>4. \A f \in Nat : Between(x, f, e) => Between(d, f, x) \/ Between(d, f, e)
        BY <2>3 DEF Between
    <2>5. \A f \in Nat : Between(d, f, e) => Between(d, f, x) \/ Between(x, f, e)
        BY <2>3 DEF Between
    <2> QED
        BY <1>2, <2>1, <2>2, <2>4, <2>5
<1>4. RunOf(x, days) \subseteq days /\ RunOf(d, days) \subseteq days
    BY <1>1, RunIsOfDays
<1> QED
    BY <1>3, <1>4

LEMMA RunEnds ==
    ASSUME NEW days \in SUBSET DOMAIN Wall, NEW d \in days
    PROVE  LET run == RunOf(d, days)
           IN  /\ Min(run) \in run /\ Max(run) \in run
               /\ Min(run) <= d /\ d <= Max(run)
               /\ \A x \in Nat : Min(run) <= x /\ x <= Max(run) => x \in run
               /\ Min(run) < d => d - 1 \in days
               /\ d < Max(run) => d + 1 \in days
               /\ d - 1 \in days => d - 1 \in run
               /\ d + 1 \in days => d + 1 \in run
<1> DEFINE run == RunOf(d, days)
           m == Min(run)
           M == Max(run)
<1>1. days \in SUBSET Nat /\ d \in Nat
    BY InCalendar
<1>2. run \subseteq days /\ d \in run
    BY <1>1, RunIsOfDays
<1>3. m \in run /\ M \in run /\ m <= d /\ d <= M
    <2>1. 1 \in Int /\ Len(Wall) \in Int /\ run \subseteq 1..Len(Wall) /\ run # {}
        BY <1>2, Calendar
    <2> HIDE DEF run
    <2> QED
        BY <1>2, <2>1, MinIs, MaxIs
<1> HIDE DEF m, M
<1>4. \A f \in Nat : Between(d, f, m) \/ Between(d, f, M) => f \in days
    <2>1. m \in days /\ M \in days
        BY <1>2, <1>3
    <2> QED
        BY <1>1, <1>3, <2>1, RunIs
<1>5. m \in Nat /\ M \in Nat
    BY <1>1, <1>2, <1>3
<1>6. ASSUME NEW x \in Nat, m <= x, x <= M PROVE x \in run
    <2>1. x \in days
        BY <1>1, <1>3, <1>4, <1>5, <1>6 DEF Between
    <2>2. \A f \in Nat : Between(d, f, x) => Between(d, f, m) \/ Between(d, f, M)
        BY <1>1, <1>3, <1>5, <1>6 DEF Between
    <2> QED
        BY <1>1, <1>4, <2>1, <2>2, RunIs
<1>7. m < d => d - 1 \in days
    <2>1. m < d => d - 1 \in Nat /\ Between(d, d - 1, m)
        BY <1>1, <1>5 DEF Between
    <2> QED
        BY <2>1, <1>4
<1>8. d < M => d + 1 \in days
    <2>1. d < M => d + 1 \in Nat /\ Between(d, d + 1, M)
        BY <1>1, <1>5 DEF Between
    <2> QED
        BY <2>1, <1>4
<1>9. ASSUME NEW x \in {d - 1, d + 1}, x \in days PROVE x \in run
    <2>1. \A f \in Nat : Between(d, f, x) => f = d \/ f = x
        BY <1>1, <1>9 DEF Between
    <2> QED
        BY <1>1, <1>9, <2>1, RunIs
<1> QED
    BY <1>3, <1>6, <1>7, <1>8, <1>9 DEF m, M

\* Whether the curve through the extremes of some days has a slot depends on
\* the days about it alone; and its row is shaped by the days of its run.
LEMMA CurveIsLocal ==
    ASSUME NEW days \in SUBSET DOMAIN Wall
    PROVE  /\ \A s : s \in {r.slot : r \in LoadCurve(days)} <=>
                 /\ s \in Timeline /\ DayOf(s) \in days
                 /\ DayOf(s) - 1 \in days \/ SlotAt(DayOf(s), FirstAnchor) <= s
                 /\ DayOf(s) + 1 \in days \/ s <= SlotAt(DayOf(s), LastAnchor)
           /\ \A r \in LoadCurve(days) : r.days = RunOf(DayOf(r.slot), days)
<1> DEFINE first(d) == SlotAt(d, FirstAnchor)
           last(d) == SlotAt(d, LastAnchor)
           run(d) == RunOf(d, days)
           span(S) == first(Min(S))..last(Max(S))
           rows(S) == [slot : span(S), days : {S}]
<1>1. LoadCurve(days) = UNION {rows(S) : S \in {run(d) : d \in days}}
    BY DEF LoadCurve
<1>2. \A r : r \in LoadCurve(days) <=> \E d \in days : r \in rows(run(d))
    <2> HIDE DEF rows, run
    <2> QED
        BY <1>1
<1>3. days \in SUBSET Nat
    BY InCalendar
<1>4. \A d \in days : /\ first(d) \in Timeline /\ DayOf(first(d)) = d /\ first(d) \in Int
                      /\ last(d) \in Timeline /\ DayOf(last(d)) = d /\ last(d) \in Int
    <2> SUFFICES ASSUME NEW d \in days
                 PROVE  /\ first(d) \in Timeline /\ DayOf(first(d)) = d
                        /\ last(d) \in Timeline /\ DayOf(last(d)) = d
        BY DEF Timeline
    <2> QED
        BY AnchorIsInDay
<1>5. ASSUME NEW d0 \in days, NEW s \in span(run(d0))
      PROVE  /\ s \in Timeline /\ DayOf(s) \in days /\ run(DayOf(s)) = run(d0)
             /\ DayOf(s) - 1 \in days \/ first(DayOf(s)) <= s
             /\ DayOf(s) + 1 \in days \/ s <= last(DayOf(s))
    <2> DEFINE m == Min(run(d0))
               M == Max(run(d0))
               d == DayOf(s)
    <2>1. m \in run(d0) /\ M \in run(d0) /\ \A x \in Nat : m <= x /\ x <= M => x \in run(d0)
        BY RunEnds
    <2>2. run(d0) \subseteq days
        BY <1>3, RunIsOfDays
    <2>3. m \in days /\ M \in days /\ m \in Nat /\ M \in Nat
        BY <2>1, <2>2, <1>3
    <2>4. s \in Int /\ first(m) <= s /\ s <= last(M)
        BY <2>3, <1>4
    <2>5. s \in Timeline
        <3> HIDE DEF first, last, m, M
        <3> QED
            BY <2>3, <2>4, <1>4, HorizonIsASlot DEF Timeline
    <2>6. m <= d /\ d <= M /\ d \in Nat
        <3>1. DayOf(first(m)) <= DayOf(s) /\ DayOf(s) <= DayOf(last(M))
            <4> HIDE DEF first, last, m, M
            <4> QED
                BY <2>3, <2>4, <2>5, <1>4, DaysFollowSlots
        <3>2. d \in Nat
            BY <2>5, DayNumbers
        <3> HIDE DEF first, last, m, M
        <3> QED
            BY <3>1, <3>2, <2>3, <1>4
    <2>7. d \in run(d0) /\ d \in days
        <3> HIDE DEF m, M, d, run
        <3> QED
            BY <2>1, <2>2, <2>6
    <2>8. run(d) = run(d0)
        BY <1>3, <2>7, RunsAreOne
    <2>9. /\ m < d => d - 1 \in days
          /\ d < M => d + 1 \in days
        <3>1. LET R == RunOf(d, days)
              IN  /\ Min(R) < d => d - 1 \in days
                  /\ d < Max(R) => d + 1 \in days
            BY <2>7, RunEnds
        <3> QED
            BY <3>1, <2>8
    <2> HIDE DEF m, M, first, last, run
    <2>10. d - 1 \in days \/ first(d) <= s
        <3>1. CASE m = d
            BY <3>1, <2>4
        <3>2. CASE m # d
            <4> HIDE DEF d
            <4> QED
                BY <3>2, <2>3, <2>6, <2>9
        <3> QED
            BY <3>1, <3>2
    <2>11. d + 1 \in days \/ s <= last(d)
        <3>1. CASE M = d
            BY <3>1, <2>4
        <3>2. CASE M # d
            <4> HIDE DEF d
            <4> QED
                BY <3>2, <2>3, <2>6, <2>9
        <3> QED
            BY <3>1, <3>2
    <2> QED
        BY <2>5, <2>7, <2>8, <2>10, <2>11
<1>6. ASSUME NEW s \in Timeline, DayOf(s) \in days,
             DayOf(s) - 1 \in days \/ first(DayOf(s)) <= s,
             DayOf(s) + 1 \in days \/ s <= last(DayOf(s))
      PROVE  s \in span(run(DayOf(s)))
    <2> DEFINE d == DayOf(s)
               m == Min(run(d))
               M == Max(run(d))
    <2>1. /\ m \in run(d) /\ M \in run(d) /\ m <= d /\ d <= M
          /\ d - 1 \in days => d - 1 \in run(d)
          /\ d + 1 \in days => d + 1 \in run(d)
          /\ \A x \in run(d) : m <= x /\ x <= M
        <3>1. /\ m \in run(d) /\ M \in run(d) /\ m <= d /\ d <= M
              /\ d - 1 \in days => d - 1 \in run(d)
              /\ d + 1 \in days => d + 1 \in run(d)
            BY <1>6, RunEnds
        <3>2. \A x \in run(d) : m <= x /\ x <= M
            <4>1. 1 \in Int /\ Len(Wall) \in Int /\ run(d) \subseteq 1..Len(Wall) /\ run(d) # {}
                <5>1. run(d) \subseteq days
                    BY <1>3, <1>6, RunIsOfDays
                <5> QED
                    BY <3>1, <5>1, Calendar
            <4> HIDE DEF run
            <4> QED
                BY <4>1, MinIs, MaxIs
        <3> QED
            BY <3>1, <3>2
    <2>2. m \in days /\ M \in days /\ m \in Nat /\ M \in Nat /\ d \in Nat /\ s \in Int
        <3>1. run(d) \subseteq days
            BY <1>3, <1>6, RunIsOfDays
        <3>2. d \in Nat /\ s \in Int
            BY <1>3, <1>6 DEF Timeline
        <3> HIDE DEF run, d, m, M
        <3> QED
            BY <2>1, <3>1, <3>2, <1>3
    <2> HIDE DEF run, m, M, first, last
    <2>3. first(m) <= s
        <3>1. CASE m = d
            <4>1. ~(d - 1 \in days)
                <5> HIDE DEF d
                <5> QED
                    BY <2>1, <2>2, <3>1
            <4> QED
                BY <3>1, <4>1, <1>6
        <3>2. CASE m # d
            <4> SUFFICES ASSUME ~(first(m) <= s) PROVE FALSE
                OBVIOUS
            <4>1. s <= first(m) /\ first(m) \in Timeline
                BY <2>2, <1>4
            <4>2. DayOf(s) <= DayOf(first(m))
                BY <4>1, DaysFollowSlots
            <4>3. d <= m
                BY <4>2, <2>2, <1>4
            <4> HIDE DEF d
            <4> QED
                BY <4>3, <3>2, <2>1, <2>2
        <3> QED
            BY <3>1, <3>2
    <2>4. s <= last(M)
        <3>1. CASE M = d
            <4>1. ~(d + 1 \in days)
                <5> HIDE DEF d
                <5> QED
                    BY <2>1, <2>2, <3>1
            <4> QED
                BY <3>1, <4>1, <1>6
        <3>2. CASE M # d
            <4> SUFFICES ASSUME ~(s <= last(M)) PROVE FALSE
                OBVIOUS
            <4>1. last(M) <= s /\ last(M) \in Timeline
                BY <2>2, <1>4
            <4>2. DayOf(last(M)) <= DayOf(s)
                BY <4>1, DaysFollowSlots
            <4>3. M <= d
                BY <4>2, <2>2, <1>4
            <4> HIDE DEF d
            <4> QED
                BY <4>3, <3>2, <2>1, <2>2
        <3> QED
            BY <3>1, <3>2
    <2>5. first(m) \in Int /\ last(M) \in Int
        BY <2>2, <1>4
    <2>6. s \in first(m)..last(M)
        BY <2>2, <2>3, <2>4, <2>5
    <2> QED
        BY <2>6 DEF m, M
<1> HIDE DEF span, run, first, last
<1>7. \A r : r \in LoadCurve(days) <=> \E d \in days : /\ r = [slot |-> r.slot, days |-> r.days]
                                                       /\ r.slot \in span(run(d)) /\ r.days = run(d)
    BY <1>2
<1>8. \A s, d : d \in days /\ s \in span(run(d)) => [slot |-> s, days |-> run(d)] \in LoadCurve(days)
    BY <1>7
<1>9. ASSUME NEW s
      PROVE  s \in {r.slot : r \in LoadCurve(days)} <=> \E d \in days : s \in span(run(d))
    <2>1. ASSUME NEW r \in LoadCurve(days), s = r.slot PROVE \E d \in days : s \in span(run(d))
        BY <1>7, <2>1
    <2>2. ASSUME NEW d \in days, s \in span(run(d)) PROVE s \in {r.slot : r \in LoadCurve(days)}
        <3>1. [slot |-> s, days |-> run(d)] \in LoadCurve(days)
            BY <1>8, <2>2
        <3> QED
            BY <3>1
    <2> QED
        BY <2>1, <2>2
<1>10. \A r \in LoadCurve(days) : r.days = run(DayOf(r.slot))
    BY <1>5, <1>7
<1>11. \A s : s \in {r.slot : r \in LoadCurve(days)} <=>
                 /\ s \in Timeline /\ DayOf(s) \in days
                 /\ DayOf(s) - 1 \in days \/ first(DayOf(s)) <= s
                 /\ DayOf(s) + 1 \in days \/ s <= last(DayOf(s))
    BY <1>5, <1>6, <1>9
<1> QED
    BY <1>10, <1>11 DEF first, last, run
\* A week's chunk is from its first day in the calendar to its last.
WeekDaysOf(w) == {x \in DOMAIN Wall : Week(x) = w}

LEMMA ChunkIs ==
    ASSUME NEW x \in DOMAIN Wall
    PROVE  /\ Min(WeekDaysOf(Week(x))) \in WeekDaysOf(Week(x))
           /\ Max(WeekDaysOf(Week(x))) \in WeekDaysOf(Week(x))
           /\ Min(WeekDaysOf(Week(x))) <= x /\ x <= Max(WeekDaysOf(Week(x)))
           /\ WeekChunk(Week(x)) =
                <<Midnight[Min(WeekDaysOf(Week(x)))], Midnight[Max(WeekDaysOf(Week(x))) + 1]>>
<1> DEFINE S == WeekDaysOf(Week(x))
<1>1. 1 \in Int /\ Len(Wall) \in Int /\ S \subseteq 1..Len(Wall) /\ x \in S
    BY Calendar DEF WeekDaysOf
<1>2. WeekChunk(Week(x)) = <<Midnight[Min(S)], Midnight[Max(S) + 1]>>
    BY DEF WeekChunk, WeekDaysOf
<1> HIDE DEF S
<1>3. Min(S) \in S /\ Max(S) \in S /\ Min(S) <= x /\ x <= Max(S)
    BY <1>1, MinIs, MaxIs
<1> QED
    BY <1>2, <1>3 DEF S

\* Every week with a day of a chunk, or a day next to one, is read for it.
LEMMA WeeksAboutAreRead ==
    ASSUME NEW d \in DOMAIN Wall, NEW e \in DOMAIN Wall, e \in {d - 1, d, d + 1}
    PROVE  LET chunk == WeekChunk(Week(d))
           IN  /\ Week(e) \in WeeksOf(chunk[1] - DaySlots, chunk[2] + DaySlots)
               /\ chunk[1] <= Midnight[d] /\ Midnight[d + 1] <= chunk[2]
               /\ chunk[1] \in Nat /\ chunk[2] \in Nat
<1>1. ASSUME NEW x \in DOMAIN Wall
      PROVE  /\ Min(WeekDaysOf(Week(x))) \in DOMAIN Wall
             /\ Max(WeekDaysOf(Week(x))) \in DOMAIN Wall
             /\ Min(WeekDaysOf(Week(x))) <= x /\ x <= Max(WeekDaysOf(Week(x)))
             /\ WeekChunk(Week(x)) =
                  <<Midnight[Min(WeekDaysOf(Week(x)))], Midnight[Max(WeekDaysOf(Week(x))) + 1]>>
    <2>1. WeekDaysOf(Week(x)) \subseteq DOMAIN Wall
        BY DEF WeekDaysOf
    <2> QED
        BY <2>1, ChunkIs
<1> DEFINE a == Min(WeekDaysOf(Week(d)))
           b == Max(WeekDaysOf(Week(d)))
           p == Min(WeekDaysOf(Week(e)))
           q == Max(WeekDaysOf(Week(e)))
<1>2. /\ a \in DOMAIN Wall /\ b \in DOMAIN Wall /\ a <= d /\ d <= b
      /\ WeekChunk(Week(d)) = <<Midnight[a], Midnight[b + 1]>>
    BY <1>1
<1>3. /\ p \in DOMAIN Wall /\ q \in DOMAIN Wall /\ p <= e /\ e <= q
      /\ WeekChunk(Week(e)) = <<Midnight[p], Midnight[q + 1]>>
    BY <1>1
<1> HIDE DEF a, b, p, q
<1>4. \A x \in DOMAIN Wall : /\ x \in Nat /\ x \in 1..(Len(Wall) + 1) /\ x + 1 \in 1..(Len(Wall) + 1)
                             /\ Midnight[x] \in Nat /\ Midnight[x + 1] \in Nat
    BY InCalendar
<1>5. /\ a <= d /\ d + 1 <= b + 1 /\ p <= b + 1 /\ a <= q + 1
    <2>1. a \in Nat /\ b \in Nat /\ p \in Nat /\ q \in Nat /\ d \in Nat /\ e \in Nat
        BY <1>2, <1>3, <1>4
    <2>2. e <= d + 1 /\ d - 1 <= e
        BY <2>1
    <2> QED
        BY <1>2, <1>3, <2>1, <2>2
<1>6. /\ Midnight[a] <= Midnight[d] /\ Midnight[d + 1] <= Midnight[b + 1]
      /\ Midnight[p] <= Midnight[b + 1] /\ Midnight[a] <= Midnight[q + 1]
    BY <1>2, <1>3, <1>4, <1>5, MidnightsOrder
<1>7. /\ Midnight[a] \in Nat /\ Midnight[b + 1] \in Nat /\ Midnight[p] \in Nat /\ Midnight[q + 1] \in Nat
      /\ DaySlots \in Nat /\ DaySlots > 0
    BY <1>2, <1>3, <1>4, ClockAssumption
<1>8. Midnight[p] < Midnight[b + 1] + DaySlots /\ Midnight[a] - DaySlots < Midnight[q + 1]
    BY <1>6, <1>7
<1>9. Week(e) \in WeeksOf(Midnight[a] - DaySlots, Midnight[b + 1] + DaySlots)
    BY <1>3, <1>8 DEF WeeksOf
<1> QED
    BY <1>2, <1>6, <1>7, <1>9

LEMMA SlotsOfAWeek ==
    ASSUME NEW day \in DOMAIN Wall, NEW s \in Timeline,
           WeekChunk(Week(day))[1] <= s, s < WeekChunk(Week(day))[2]
    PROVE  Week(DayOf(s)) = Week(day)
<1> DEFINE a == Min(WeekDaysOf(Week(day)))
           b == Max(WeekDaysOf(Week(day)))
           d == DayOf(s)
<1>1. a \in WeekDaysOf(Week(day)) /\ b \in WeekDaysOf(Week(day))
      /\ WeekChunk(Week(day)) = <<Midnight[a], Midnight[b + 1]>>
    BY ChunkIs
<1> HIDE DEF a, b
<1>2. /\ a \in DOMAIN Wall /\ b \in DOMAIN Wall /\ Week(a) = Week(day) /\ Week(b) = Week(day)
      /\ Midnight[a] <= s /\ s < Midnight[b + 1]
    BY <1>1 DEF WeekDaysOf
<1>3. d \in DOMAIN Wall /\ Midnight[d] <= s /\ s < Midnight[d + 1] /\ s \in Int
    BY EverySlotHasItsDay DEF Lasts, Timeline
<1> HIDE DEF d
<1>4. /\ a \in Nat /\ b \in Nat /\ d \in Nat
      /\ Midnight[a] \in Nat /\ Midnight[b + 1] \in Nat
      /\ Midnight[d] \in Nat /\ Midnight[d + 1] \in Nat
    BY <1>2, <1>3, InCalendar
<1>5. Midnight[a] < Midnight[d + 1] /\ Midnight[d] < Midnight[b + 1]
    BY <1>2, <1>3, <1>4
<1>6. a < d + 1 /\ d < b + 1
    <2>1. /\ a \in 1..(Len(Wall) + 1) /\ d + 1 \in 1..(Len(Wall) + 1)
          /\ d \in 1..(Len(Wall) + 1) /\ b + 1 \in 1..(Len(Wall) + 1)
        BY <1>2, <1>3, InCalendar
    <2>2. ~(Midnight[d + 1] <= Midnight[a]) /\ ~(Midnight[b + 1] <= Midnight[d])
        BY <1>4, <1>5
    <2>3. ~(d + 1 <= a)
        BY <2>1, <2>2, MidnightsOrder
    <2>4. ~(b + 1 <= d)
        BY <2>1, <2>2, MidnightsOrder
    <2> QED
        BY <2>3, <2>4, <1>4
<1>7. a <= d /\ d <= b /\ a \in Int /\ d \in Int /\ b \in Int
    BY <1>4, <1>6
<1>8. /\ a \div WeekDays <= d \div WeekDays /\ d \div WeekDays <= b \div WeekDays
      /\ a \div WeekDays \in Int /\ d \div WeekDays \in Int
    <2>1. WeekDays \in Int /\ WeekDays > 0
        BY SeriesAssumption
    <2> QED
        BY <1>7, <2>1, DivisionKeepsOrder
<1>9. d \div WeekDays = a \div WeekDays
    BY <1>2, <1>8 DEF Week
<1> QED
    BY <1>2, <1>9 DEF Week, d

\* What is stored of the load forecast does not depend on the week that was
\* asked for: whichever weeks are cached, as long as they are cached as
\* published, a week's request that succeeds gives just the slots of the curve
\* through all published days, each shaped by the published days about its own
\* (entsoe_load.py: EntsoeLoadSource._fetch, _week, load_curve).
THEOREM LoadCurveHasNoSeam ==
    ASSUME NEW published \in SUBSET DOMAIN Wall, NEW day \in DOMAIN Wall,
           NEW cached, \A w \in DOMAIN cached : cached[w] = {d \in published : Week(d) = w},
           NEW failing,
           LoadFetch(WeekChunk(Week(day)), cached, published, failing).ok
    PROVE  LET chunk == WeekChunk(Week(day))
               got == LoadFetch(chunk, cached, published, failing)
           IN  /\ {r.slot : r \in got.rows} =
                     {s \in {r.slot : r \in LoadCurve(published)} : chunk[1] <= s /\ s < chunk[2]}
               /\ \A r \in got.rows :
                     LET d == DayOf(r.slot)
                     IN  RunOf(d, published) \intersect {d - 1, d, d + 1} \subseteq r.days
<1> DEFINE chunk == WeekChunk(Week(day))
           weeks == WeeksOf(chunk[1] - DaySlots, chunk[2] + DaySlots)
           read(w) == WeekRead(w, cached, published, failing)
           days == UNION {read(w).days : w \in weeks}
           got == LoadFetch(chunk, cached, published, failing)
           In(s) == chunk[1] <= s /\ s < chunk[2]
<1>1. /\ \A w \in weeks : read(w).ok
      /\ got = [ok |-> TRUE, rows |-> {r \in LoadCurve(days) : In(r.slot)}]
    <2>1. got = IF \E w \in weeks : ~read(w).ok THEN NoAnswer
                ELSE Answer({r \in LoadCurve(days) : In(r.slot)})
        BY DEF LoadFetch, CurveOfWeeks
    <2>2. got.ok
        OBVIOUS
    <2> HIDE DEF weeks, read, days, got
    <2>3. ~(\E w \in weeks : ~read(w).ok)
        BY <2>1, <2>2 DEF NoAnswer
    <2> QED
        BY <2>1, <2>3 DEF Answer
<1>2. ASSUME NEW w \in weeks PROVE read(w).days = {d \in published : Week(d) = w}
    <2>1. read(w).ok
        BY <1>1
    <2> HIDE DEF weeks
    <2> QED
        BY <2>1 DEF WeekRead
<1>3. days = {d \in published : Week(d) \in weeks}
    <2> HIDE DEF weeks, read
    <2> QED
        BY <1>2
<1> HIDE DEF days, weeks, read, got, chunk
<1>4. days \in SUBSET DOMAIN Wall
    BY <1>3
<1>5. ASSUME NEW s \in Timeline, In(s), NEW x \in {DayOf(s) - 1, DayOf(s), DayOf(s) + 1}
      PROVE  x \in days <=> x \in published
    <2>1. CASE x \notin DOMAIN Wall
        BY <2>1, <1>4
    <2>2. CASE x \in DOMAIN Wall
        <3>1. Week(DayOf(s)) = Week(day)
            BY <1>5, SlotsOfAWeek DEF chunk
        <3>2. Week(x) \in weeks
            <4>1. DayOf(s) \in DOMAIN Wall
                BY EverySlotHasItsDay
            <4> QED
                BY <2>2, <3>1, <4>1, WeeksAboutAreRead DEF weeks, chunk
        <3> QED
            BY <1>3, <3>2
    <2> QED
        BY <2>1, <2>2
<1> DEFINE Shaped(S, s) ==
               /\ s \in Timeline /\ DayOf(s) \in S
               /\ DayOf(s) - 1 \in S \/ SlotAt(DayOf(s), FirstAnchor) <= s
               /\ DayOf(s) + 1 \in S \/ s <= SlotAt(DayOf(s), LastAnchor)
<1>6. /\ \A s : s \in {r.slot : r \in LoadCurve(days)} <=> Shaped(days, s)
      /\ \A s : s \in {r.slot : r \in LoadCurve(published)} <=> Shaped(published, s)
      /\ \A r \in LoadCurve(days) : r.days = RunOf(DayOf(r.slot), days)
    BY <1>4, CurveIsLocal
<1>7. \A s : In(s) => (Shaped(days, s) <=> Shaped(published, s))
    BY <1>5
<1> HIDE DEF Shaped, In
<1>8. \A s : s \in {r.slot : r \in got.rows}
               <=> s \in {r.slot : r \in LoadCurve(days)} /\ In(s)
    BY <1>1
<1>9. {r.slot : r \in got.rows} = {s \in {r.slot : r \in LoadCurve(published)} : In(s)}
    BY <1>6, <1>7, <1>8
<1>10. ASSUME NEW r \in got.rows, NEW x \in RunOf(DayOf(r.slot), published),
              x \in {DayOf(r.slot) - 1, DayOf(r.slot), DayOf(r.slot) + 1}
       PROVE  x \in r.days
    <2> DEFINE d == DayOf(r.slot)
    <2>1. r \in LoadCurve(days) /\ In(r.slot)
        BY <1>1
    <2>2. Shaped(days, r.slot) /\ r.days = RunOf(d, days)
        BY <2>1, <1>6
    <2>3. r.slot \in Timeline /\ d \in days
        BY <2>2 DEF Shaped
    <2>4. d \in published /\ published \in SUBSET Nat
        BY <1>3, <2>3, InCalendar
    <2>5. x \in published
        BY <2>4, RunIsOfDays
    <2>6. x \in days
        BY <1>5, <1>10, <2>1, <2>3, <2>5
    <2>7. d \in RunOf(d, days) /\ (d - 1 \in days => d - 1 \in RunOf(d, days))
          /\ (d + 1 \in days => d + 1 \in RunOf(d, days))
        <3>1. days \in SUBSET Nat
            BY <1>4, InCalendar
        <3>2. d \in RunOf(d, days)
            BY <2>3, <3>1, RunIsOfDays
        <3> HIDE DEF d
        <3> QED
            BY <1>4, <2>3, <3>2, RunEnds
    <2> QED
        BY <1>10, <2>2, <2>6, <2>7
<1>11. \A r \in got.rows :
          RunOf(DayOf(r.slot), published)
              \intersect {DayOf(r.slot) - 1, DayOf(r.slot), DayOf(r.slot) + 1} \subseteq r.days
    BY <1>10
<1> QED
    BY <1>9, <1>11 DEF got, chunk, In
-----------------------------------------------------------------------------
(* Tariffs, surcharge and VAT: tariffs.py, price_output.py, sensor.py *)

LEMMA TimesOfSlots == \A k \in Timeline : WallTime(k) \in 0..(DaySlots - 1)
<1> SUFFICES ASSUME NEW k \in Timeline PROVE WallTime(k) \in 0..(DaySlots - 1)
    OBVIOUS
<1>1. DayOf(k) \in DOMAIN Wall /\ IndexIn(k) \in 1..SlotsIn(DayOf(k))
    BY EverySlotHasItsDay
<1> QED
    BY <1>1, TimesOfADay DEF WallTime

LEMMA LastSlot == ASSUME NEW S \in SUBSET Timeline, S # {}
                  PROVE  Max(S) \in S /\ \A k \in S : k <= Max(S)
<1>1. 0 \in Int /\ Horizon - 1 \in Int /\ S \subseteq 0..(Horizon - 1)
    BY HorizonIsASlot DEF Timeline
<1> QED
    BY <1>1, MaxIs

\* The slot whose tariff stands in for an unknown one: of the slots with one,
\* the latest at its time of day; if none has that time, the latest at the
\* nearest earlier time, and if none is earlier, at the latest time of all.
\* A known tariff is its own (tariffs.py: TariffSchedule.at).
THEOREM TariffIsOfItsTime ==
    ASSUME NEW S \in SUBSET Timeline, S # {}, NEW s \in Timeline
    PROVE  LET k == TariffSlot(S, s)
               w(x) == WallTime(x)
               same == {x \in S : w(x) = w(s)}
               earlier == {x \in S : w(x) < w(s)}
           IN  /\ k \in S /\ (s \in S => k = s)
               /\ s \notin S => \A x \in S : w(x) = w(k) => x <= k
               /\ same # {} => w(k) = w(s)
               /\ same = {} /\ earlier # {} => k \in earlier /\ \A x \in earlier : w(x) <= w(k)
               /\ same = {} /\ earlier = {} => \A x \in S : w(x) <= w(k)
<1> DEFINE w(x) == WallTime(x)
           same == {x \in S : w(x) = w(s)}
           earlier == {x \in S : w(x) < w(s)}
           k == TariffSlot(S, s)
           among == IF earlier # {} THEN earlier ELSE S
           times == {w(x) : x \in among}
           of(t) == {x \in S : w(x) = t}
           known == k \in S /\ (s \in S => k = s)
           latest == s \notin S => \A x \in S : w(x) = w(k) => x <= k
           sameTime == same # {} => w(k) = w(s)
           before == (same = {} /\ earlier # {}) => (k \in earlier /\ \A x \in earlier : w(x) <= w(k))
           last == (same = {} /\ earlier = {}) => \A x \in S : w(x) <= w(k)
           Good == known /\ latest /\ sameTime /\ before /\ last
<1>1. k = IF s \in S THEN s ELSE IF same # {} THEN Max(same) ELSE Max(of(Max(times)))
    <2>1. times = IF {w(x) : x \in earlier} # {} THEN {w(x) : x \in earlier} ELSE {w(x) : x \in S}
        OBVIOUS
    <2> QED
        BY <2>1 DEF TariffSlot, SameTime
<1>2. \A x \in Timeline : w(x) \in 0..(DaySlots - 1) /\ w(x) \in Int
    BY TimesOfSlots, ClockAssumption
<1>3. ASSUME s \in S PROVE Good
    <2>1. k = s
        BY <1>1, <1>3
    <2>2. s \in same
        BY <1>3
    <2> HIDE DEF k, w
    <2> QED
        BY <2>1, <2>2, <1>3
<1>4. ASSUME s \notin S /\ same # {} PROVE Good
    <2>1. k = Max(same)
        BY <1>1, <1>4
    <2>2. k \in same /\ \A x \in same : x <= k
        <3> HIDE DEF k, w
        <3> QED
            BY <2>1, <1>4, LastSlot
    <2> HIDE DEF k, w
    <2> QED
        BY <2>2, <1>4
<1>5. ASSUME s \notin S /\ same = {} PROVE Good
    <2> DEFINE t == Max(times)
    <2>1. k = Max(of(t))
        BY <1>1, <1>5
    <2> HIDE DEF k, w
    <2>2. t \in times /\ \A u \in times : u <= t
        <3>1. 0 \in Int /\ DaySlots - 1 \in Int
            BY ClockAssumption
        <3>2. times \subseteq 0..(DaySlots - 1) /\ times # {}
            BY <1>2
        <3> HIDE DEF times
        <3> QED
            BY <3>1, <3>2, MaxIs
    <2> HIDE DEF t
    <2>3. PICK x0 \in among : w(x0) = t
        BY <2>2
    <2>4. of(t) # {} /\ of(t) \in SUBSET Timeline
        BY <2>3
    <2>5. k \in of(t) /\ \A x \in of(t) : x <= k
        <3> HIDE DEF of
        <3> QED
            BY <2>1, <2>4, LastSlot
    <2>6. k \in S /\ w(k) = t /\ \A x \in S : w(x) = w(k) => x <= k
        BY <2>5
    <2>7. \A x \in among : w(x) <= w(k)
        BY <2>2, <2>6
    <2>8. earlier # {} => k \in earlier
        BY <2>3, <2>6
    <2> QED
        BY <1>5, <2>6, <2>7, <2>8
<1>6. Good
    BY <1>3, <1>4, <1>5
<1> QED
    BY <1>6

\* A tariff that follows the time of day is right at every slot whose time is
\* that of some slot with both prices, on the days with a skipped or a repeated
\* hour too (tariffs.py: from_prices, at).
THEOREM ScheduleIsReproduced ==
    ASSUME NEW consumer, NEW spot, TariffSlots(consumer, spot) \in SUBSET Timeline,
           NEW schedule,
           \A k \in TariffSlots(consumer, spot) :
               TariffOf(consumer, spot, k) = schedule[WallTime(k)],
           NEW s \in Timeline, NEW k \in TariffSlots(consumer, spot), WallTime(k) = WallTime(s)
    PROVE  Tariff(consumer, spot, s) = schedule[WallTime(s)]
<1> DEFINE S == TariffSlots(consumer, spot)
           t == TariffSlot(S, s)
<1>1. S # {} /\ k \in {x \in S : WallTime(x) = WallTime(s)}
    OBVIOUS
<1>2. t \in S /\ WallTime(t) = WallTime(s)
    <2>1. LET same == {x \in S : WallTime(x) = WallTime(s)}
          IN  t \in S /\ (same # {} => WallTime(t) = WallTime(s))
        <3> HIDE DEF S
        <3>1. S \in SUBSET Timeline
            BY DEF S
        <3> QED
            BY <1>1, <3>1, TariffIsOfItsTime
    <2> HIDE DEF S, t
    <2> QED
        BY <1>1, <2>1
<1>3. Tariff(consumer, spot, s) = TariffOf(consumer, spot, t)
    BY <1>1 DEF Tariff
<1> HIDE DEF t
<1> QED
    BY <1>2, <1>3

LEMMA ProductKeepsOrder == ASSUME NEW a \in Int, NEW b \in Int, NEW v \in Nat, a <= b
                           PROVE  a * v \in Int /\ b * v \in Int /\ a * v <= b * v
OBVIOUS

LEMMA ProductReflectsOrder == ASSUME NEW a \in Int, NEW b \in Int, NEW v \in Nat, a * v < b * v
                              PROVE  a < b
<1>1. ~(b <= a)
    BY ProductKeepsOrder
<1> QED
    BY <1>1

\* Rounding to a hundredth: half of one off at most.
LEMMA ConvertRounds ==
    ASSUME NEW p \in Int
    PROVE  /\ Convert(p) \in Int /\ (p + Surcharge) * Vat \in Int
           /\ 100 * Convert(p) - 50 <= (p + Surcharge) * Vat
           /\ (p + Surcharge) * Vat <= 100 * Convert(p) + 50
<1> DEFINE x == (p + Surcharge) * Vat
           q == x \div 100
           r == x % 100
<1>1. x \in Int
    BY PriceAssumption
<1>2. Convert(p) = IF r > 50 \/ (r = 50 /\ q % 2 = 1) THEN q + 1 ELSE q
    BY DEF Convert
<1> HIDE DEF x
<1>3. q \in Int /\ r \in 0..99 /\ x = 100 * q + r
    BY <1>1
<1> HIDE DEF q, r
<1> QED
    BY <1>1, <1>2, <1>3 DEF x

\* What is paid follows the price.
LEMMA ConvertKeepsOrder ==
    ASSUME NEW p \in Int, NEW q \in Int, p <= q
    PROVE  Convert(p) <= Convert(q)
<1> DEFINE x == (p + Surcharge) * Vat
           y == (q + Surcharge) * Vat
<1>1. x \in Int /\ y \in Int /\ x <= y
    <2>1. p + Surcharge \in Int /\ q + Surcharge \in Int /\ p + Surcharge <= q + Surcharge
          /\ Vat \in Nat
        BY PriceAssumption
    <2> QED
        BY <2>1, ProductKeepsOrder
<1>2. /\ Convert(p) = IF x % 100 > 50 \/ (x % 100 = 50 /\ (x \div 100) % 2 = 1)
                      THEN (x \div 100) + 1 ELSE x \div 100
      /\ Convert(q) = IF y % 100 > 50 \/ (y % 100 = 50 /\ (y \div 100) % 2 = 1)
                      THEN (y \div 100) + 1 ELSE y \div 100
    BY DEF Convert
<1> HIDE DEF x, y
<1> QED
    BY <1>1, <1>2

\* The minimum and maximum that a user sees of a day's prices are those of the
\* prices he sees: surcharge, VAT and rounding keep them (sensor.py:
\* DayPriceStatSensor; price_output.py: convert).
THEOREM ExtremesAreOfShownPrices ==
    ASSUME NEW low \in Int, NEW high \in Int, NEW P \in SUBSET (low..high), P # {}
    PROVE  LET shown == {Convert(p) : p \in P}
           IN  /\ Convert(Min(P)) \in shown /\ \A c \in shown : Convert(Min(P)) <= c
               /\ Convert(Max(P)) \in shown /\ \A c \in shown : c <= Convert(Max(P))
<1>1. Min(P) \in P /\ Max(P) \in P /\ \A p \in P : Min(P) <= p /\ p <= Max(P)
    BY MinIs, MaxIs
<1>2. \A p \in P : p \in Int
    OBVIOUS
<1>3. \A p \in P : Convert(Min(P)) <= Convert(p) /\ Convert(p) <= Convert(Max(P))
    BY <1>1, <1>2, ConvertKeepsOrder
<1> QED
    BY <1>1, <1>3

LEMMA DivisionBounds ==
    ASSUME NEW n \in Int, NEW v \in Nat, v > 0
    PROVE  n \div v \in Int /\ (n \div v) * v <= n /\ n < (n \div v + 1) * v
OBVIOUS

\* What a source shows of a slot, with this entry's surcharge, VAT and tariff
\* on it, is stored as its raw spot price, up to the rounding of what it shows
\* (price_output.py: convert, to_spot; external_forecasts.py).
THEOREM ExternalPriceIsRaw ==
    ASSUME NEW p \in Int, NEW tariff \in Int, Vat >= 100
    PROVE  ToSpot(Convert(p + tariff), tariff) \in {p - 1, p}
<1> DEFINE x == p + tariff + Surcharge
           c == Convert(p + tariff)
           n == c * 100
           d == n \div Vat
<1>1. x \in Int /\ c \in Int /\ n \in Int /\ Vat \in Nat /\ Vat > 0 /\ Vat >= 100
    BY PriceAssumption, ConvertRounds
<1>2. x * Vat \in Int /\ n - 50 <= x * Vat /\ x * Vat <= n + 50
    <2>1. p + tariff \in Int
        OBVIOUS
    <2> QED
        BY <2>1, ConvertRounds
<1> HIDE DEF c, x
<1>3. d \in Int /\ d * Vat <= n /\ n < (d + 1) * Vat
    BY <1>1, DivisionBounds
<1> HIDE DEF n, d
<1>4. d < x + 1
    <2>1. (x + 1) * Vat = x * Vat + Vat
        BY <1>1
    <2>2. d * Vat < (x + 1) * Vat
        <3>1. d * Vat \in Int
            BY <1>1, <1>3
        <3> QED
            BY <3>1, <2>1, <1>1, <1>2, <1>3
    <2> QED
        BY <2>2, <1>1, <1>3, ProductReflectsOrder
<1>5. x - 1 < d + 1
    <2>1. (x - 1) * Vat = x * Vat - Vat
        BY <1>1
    <2>2. (x - 1) * Vat < (d + 1) * Vat
        <3>1. (d + 1) * Vat \in Int
            BY <1>1, <1>3
        <3> QED
            BY <3>1, <2>1, <1>1, <1>2, <1>3
    <2> QED
        BY <2>2, <1>1, <1>3, ProductReflectsOrder
<1>6. ToSpot(c, tariff) = d - Surcharge - tariff
    BY DEF ToSpot, d, n
<1>7. d \in {x - 1, x}
    BY <1>1, <1>3, <1>4, <1>5
<1>8. d - Surcharge - tariff \in {p - 1, p}
    BY <1>7, PriceAssumption DEF x
<1> QED
    BY <1>6, <1>8 DEF c
-----------------------------------------------------------------------------
(* Where the predictions start: spot_prices.py, time_slots.py *)

LEMMA CeilingIs ==
    ASSUME NEW t \in Int
    PROVE  /\ Slot(t) \in Int /\ CeilSlot(t) \in Int /\ CeilSlot(t + Ticks) = CeilSlot(t) + 1
           /\ Slot(t) <= CeilSlot(t)
<1> DEFINE q == (0 - t) \div Ticks
           f == t \div Ticks
<1>1. Ticks \in Nat /\ Ticks > 0
    BY TicksAssumption
<1>2. f \in Int /\ f * Ticks <= t /\ q \in Int /\ q * Ticks <= 0 - t
    BY <1>1, DivisionBounds
<1>3. (0 - (t + Ticks)) \div Ticks = q - 1
    <2>1. 0 - (t + Ticks) = (0 - t) - Ticks
        BY <1>1
    <2> QED
        BY <2>1, <1>1
<1>4. f + q <= 0
    <2>1. (f + q) * Ticks <= 0
        <3>1. (f + q) * Ticks = f * Ticks + q * Ticks
            BY <1>1, <1>2
        <3>2. f * Ticks \in Int /\ q * Ticks \in Int
            BY <1>1, <1>2
        <3> HIDE DEF f, q
        <3> QED
            BY <3>1, <3>2, <1>2
    <2> HIDE DEF f, q
    <2>2. CASE f + q >= 1
        <3>1. 1 * Ticks <= (f + q) * Ticks
            BY <2>2, <1>1, <1>2, ProductKeepsOrder
        <3> QED
            BY <3>1, <2>1, <1>1, <1>2
    <2> QED
        BY <2>2, <1>2
<1> HIDE DEF q, f
<1> QED
    BY <1>2, <1>3, <1>4 DEF Slot, CeilSlot, q, f

\* A prediction made now is for no slot in which a confirmed price starts nor
\* for one before such a slot or before now, and none is left out: the first is
\* the slot now, or the next one after the last confirmed price
\* (spot_prices.py: extract_latest_known_timestamp; time_slots.py:
\* first_prediction_slot).
THEOREM PredictionsFollowKnownPrices ==
    ASSUME NEW data, data.today # << >>,
           NEW end \in Nat, data.raw \subseteq 0..end, data.raw # {},
           NEW now \in Int
    PROVE  LET first == FirstPredictionSlot(now, KnownUntil(data))
           IN  /\ first >= Slot(now) /\ \A r \in data.raw : first > Slot(r)
               /\ \/ first = Slot(now)
                  \/ \E r \in data.raw : /\ first = CeilSlot(r) + 1
                                         /\ \A q \in data.raw : q <= r
<1> DEFINE m == Max(data.raw)
<1>1. m \in data.raw /\ \A r \in data.raw : r <= m
    <2>1. 0 \in Int /\ end \in Int
        OBVIOUS
    <2> QED
        BY <2>1, MaxIs
<1>2. m \in Nat /\ \A r \in data.raw : r \in Nat /\ r \in Int
    BY <1>1
<1>3. KnownUntil(data) = m + Ticks
    BY DEF KnownUntil
<1> HIDE DEF m
<1>4. KnownUntil(data) # None
    BY <1>2, <1>3, TicksAssumption DEF None
<1>5. /\ Slot(now) \in Int /\ Slot(m) \in Int /\ CeilSlot(m) \in Int
      /\ CeilSlot(m + Ticks) = CeilSlot(m) + 1 /\ Slot(m) <= CeilSlot(m)
    BY <1>2, CeilingIs, SlotsAreIntegers
<1> DEFINE c == CeilSlot(m) + 1
           first == FirstPredictionSlot(now, KnownUntil(data))
<1>6. first = Max({Slot(now), c})
    BY <1>3, <1>4, <1>5 DEF FirstPredictionSlot
<1>7. first \in {Slot(now), c} /\ first >= Slot(now) /\ first >= c
    <2>1. c \in Int
        BY <1>5
    <2> HIDE DEF c, first
    <2> QED
        BY <2>1, <1>5, <1>6, PairExtrema
<1>8. \A r \in data.raw : Slot(r) \in Int /\ Slot(r) <= Slot(m)
    BY <1>1, <1>2, SlotsInOrder
<1> HIDE DEF first
<1>9. \A r \in data.raw : first > Slot(r)
    BY <1>5, <1>7, <1>8
<1>10. first = Slot(now) \/ \E r \in data.raw : /\ first = CeilSlot(r) + 1
                                                /\ \A q \in data.raw : q <= r
    BY <1>1, <1>7
<1> QED
    BY <1>7, <1>9, <1>10 DEF first
-----------------------------------------------------------------------------
(* Stored predictions and their lead times: lead_time.py *)

\* A lead time is in a bucket exactly if it is not negative, and a later one is
\* in no earlier bucket (lead_time.py: lead_time_bucket).
THEOREM LeadTimesAreInBuckets ==
    ASSUME NEW l \in Int, NEW m \in Int, l <= m
    PROVE  /\ Bucket(l) \in Buckets <=> l >= 0
           /\ Bucket(l) <= Bucket(m)
<1> DEFINE below(x) == {i \in DOMAIN BucketEnds : BucketEnds[i] <= x}
           all == 1..Len(BucketEnds)
<1>0. Len(BucketEnds) \in Nat /\ DOMAIN BucketEnds = 1..Len(BucketEnds)
    BY LeadAssumption
<1>1. IsFiniteSet(all) /\ Cardinality(all) = Len(BucketEnds)
    <2>1. 1 \in Int /\ Len(BucketEnds) \in Int
        BY <1>0
    <2>2. CASE Len(BucketEnds) = 0
        <3>1. all = {}
            BY <2>2
        <3> QED
            BY <2>2, <3>1, FS_EmptySet
    <2>3. CASE Len(BucketEnds) # 0
        <3>1. 1 <= Len(BucketEnds) /\ (Len(BucketEnds) - 1) + 1 = Len(BucketEnds)
            BY <1>0, <2>3
        <3> QED
            BY <2>1, <3>1, FS_Interval
    <2> QED
        BY <2>1, <2>2, <2>3
<1>2. ASSUME NEW x \in Int
      PROVE  /\ IsFiniteSet(below(x)) /\ Cardinality(below(x)) \in 0..Len(BucketEnds)
             /\ Bucket(x) = IF x < 0 THEN 0 ELSE Cardinality(below(x)) + 1
    <2>1. below(x) \subseteq all
        BY <1>0
    <2>2. Bucket(x) = IF x < 0 THEN 0 ELSE Cardinality(below(x)) + 1
        BY DEF Bucket
    <2> HIDE DEF all, below
    <2>3. IsFiniteSet(below(x)) /\ Cardinality(below(x)) <= Cardinality(all)
          /\ Cardinality(below(x)) \in Nat
        BY <1>1, <2>1, FS_Subset, FS_CardinalityType
    <2> QED
        BY <1>0, <1>1, <2>2, <2>3
<1>3. Cardinality(below(l)) <= Cardinality(below(m))
    <2>1. \A i \in DOMAIN BucketEnds : BucketEnds[i] \in Int
        BY LeadAssumption
    <2>2. below(l) \subseteq below(m)
        BY <2>1
    <2> HIDE DEF below
    <2> QED
        BY <1>2, <2>2, FS_Subset
<1> HIDE DEF below, all
<1>4. /\ Cardinality(below(l)) \in 0..Len(BucketEnds) /\ Cardinality(below(m)) \in 0..Len(BucketEnds)
      /\ Bucket(l) = IF l < 0 THEN 0 ELSE Cardinality(below(l)) + 1
      /\ Bucket(m) = IF m < 0 THEN 0 ELSE Cardinality(below(m)) + 1
    BY <1>2
<1>5. Bucket(l) \in Buckets <=> l >= 0
    BY <1>0, <1>4 DEF Buckets
<1>6. Bucket(l) <= Bucket(m)
    BY <1>0, <1>3, <1>4
<1> QED
    BY <1>5, <1>6

\* A finite set of stored predictions, of whatever slots.
ArePredictions(P) == IsFiniteSet(P) /\ \A p \in P : p.start \in Int /\ p.stored \in Int

LEMMA LeadsAreIntegers == \A P : ArePredictions(P) => \A p \in P : Lead(p) \in Int
    BY TicksAssumption DEF ArePredictions, Lead

\* The one nearest to a lead time exists, and is nearest.
LEMMA NearestIs ==
    ASSUME NEW P, ArePredictions(P), P # {}, NEW target \in Int
    PROVE  /\ Nearest(P, target) \in P
           /\ \A q \in P : \/ Abs(Lead(Nearest(P, target)) - target) < Abs(Lead(q) - target)
                           \/ /\ Abs(Lead(Nearest(P, target)) - target) = Abs(Lead(q) - target)
                              /\ q.stored <= Nearest(P, target).stored
<1> DEFINE off(p) == Abs(Lead(p) - target)
           nearer(p, q) == off(p) < off(q) \/ (off(p) = off(q) /\ p.stored > q.stored)
           R == {pq \in P \X P : nearer(pq[1], pq[2])}
<1>1. \A p \in P : off(p) \in Int /\ p.stored \in Int
    BY LeadsAreIntegers DEF Abs, ArePredictions
<1>2. Nearest(P, target) = CHOOSE p \in P : \A q \in P :
          off(p) < off(q) \/ (off(p) = off(q) /\ q.stored <= p.stored)
    BY DEF Nearest
<1> HIDE DEF off
<1>3. \A x \in P : <<x, x>> \notin R
    BY <1>1
<1>4. \A x, y, z \in P : <<z, y>> \in R /\ <<y, x>> \in R => <<z, x>> \in R
    BY <1>1
<1>5. \E m \in P : \A k \in P : <<k, m>> \notin R
    <2> HIDE DEF R
    <2> QED
        BY <1>3, <1>4, Topmost DEF ArePredictions
<1>6. PICK m \in P : \A k \in P : ~nearer(k, m)
    BY <1>5
<1>7. \A q \in P : off(m) < off(q) \/ (off(m) = off(q) /\ q.stored <= m.stored)
    BY <1>1, <1>6
<1>8. /\ Nearest(P, target) \in P
      /\ \A q \in P : \/ off(Nearest(P, target)) < off(q)
                      \/ off(Nearest(P, target)) = off(q) /\ q.stored <= Nearest(P, target).stored
    BY <1>2, <1>7
<1> QED
    BY <1>8 DEF off

LEMMA AheadIs == ASSUME NEW P, ArePredictions(P)
                 PROVE  ArePredictions(Ahead(P)) /\ \A p \in Ahead(P) : p \in P /\ Lead(p) \in Nat
<1>1. Ahead(P) \subseteq P /\ \A p \in Ahead(P) : Lead(p) >= 0
    BY DEF Ahead
<1>2. IsFiniteSet(Ahead(P))
    BY <1>1, FS_Subset DEF ArePredictions
<1>3. \A p \in P : Lead(p) \in Int
    BY LeadsAreIntegers
<1>4. \A p \in Ahead(P) : Lead(p) \in Nat
    BY <1>1, <1>3
<1> QED
    BY <1>1, <1>2, <1>4 DEF ArePredictions

\* The prediction nearest to a longer lead time has the longer one.
LEMMA NearestInOrder ==
    ASSUME NEW P, ArePredictions(P), P # {}, NEW t \in Int, NEW u \in Int, t < u
    PROVE  Lead(Nearest(P, t)) <= Lead(Nearest(P, u))
<1> DEFINE a == Lead(Nearest(P, t))
           b == Lead(Nearest(P, u))
<1>1. Nearest(P, t) \in P /\ Nearest(P, u) \in P
    BY NearestIs
<1>2. Abs(a - t) <= Abs(b - t) /\ Abs(b - u) <= Abs(a - u)
    <2>1. a \in Int /\ b \in Int
        BY <1>1, LeadsAreIntegers
    <2>2. /\ Abs(a - t) < Abs(b - t) \/ Abs(a - t) = Abs(b - t)
          /\ Abs(b - u) < Abs(a - u) \/ Abs(b - u) = Abs(a - u)
        BY <1>1, NearestIs
    <2> HIDE DEF a, b
    <2> QED
        BY <2>1, <2>2 DEF Abs
<1>3. a \in Int /\ b \in Int
    BY <1>1, LeadsAreIntegers
<1> HIDE DEF a, b
<1>4. a <= b
    BY <1>2, <1>3 DEF Abs
<1> QED
    BY <1>4 DEF a, b

\* What is kept of a scored slot: only predictions made ahead of it, the one of
\* the day-ahead lead time whenever there is one, in the order of their lead
\* times; one stands in for two other lead times only if it is exactly midway
\* between them (lead_time.py: evaluation_snapshots, snapshot_tolerance).
THEOREM SnapshotsAreInOrder ==
    ASSUME NEW P, ArePredictions(P)
    PROVE  LET kept == Snapshots(P)
           IN  /\ Ahead(P) # {} => DayAheadLead \in DOMAIN kept
               /\ \A t \in DOMAIN kept : kept[t] \in P /\ Lead(kept[t]) >= 0
               /\ \A t, u \in DOMAIN kept : t < u => Lead(kept[t]) <= Lead(kept[u])
               /\ \A t, u \in DOMAIN kept \ {DayAheadLead} :
                     t < u /\ kept[t] = kept[u] => 2 * Lead(kept[t]) = t + u
<1> DEFINE A == Ahead(P)
           kept == Snapshots(P)
<1>1. ArePredictions(A) /\ \A p \in A : p \in P /\ Lead(p) \in Nat
    BY AheadIs
<1>2. Targets \subseteq Nat /\ DayAheadLead \in Targets
    BY LeadAssumption
<1>3. /\ DOMAIN kept = {t \in Targets : A # {} /\ Close(Nearest(A, t), t)}
      /\ \A t \in DOMAIN kept : kept[t] = Nearest(A, t)
    BY DEF Snapshots
<1> HIDE DEF A, kept
<1>4. A # {} => DayAheadLead \in DOMAIN kept
    BY <1>2, <1>3 DEF Close
<1>5. ASSUME NEW t \in DOMAIN kept
      PROVE  t \in Nat /\ t \in Targets /\ A # {} /\ kept[t] \in A /\ Close(kept[t], t)
    <2>1. t \in Targets /\ A # {} /\ t \in Nat /\ t \in Int
        <3>1. t \in Targets /\ A # {}
            BY <1>3
        <3>2. t \in Nat
            BY <1>2, <3>1
        <3> QED
            BY <3>1, <3>2
    <2>2. Nearest(A, t) \in A
        BY <1>1, <2>1, NearestIs
    <2> QED
        BY <1>3, <2>1, <2>2
<1>6. ASSUME NEW t \in DOMAIN kept, NEW u \in DOMAIN kept, t < u
      PROVE  Lead(kept[t]) <= Lead(kept[u])
    <2>1. t \in Int /\ u \in Int /\ A # {} /\ kept[t] = Nearest(A, t) /\ kept[u] = Nearest(A, u)
        BY <1>3, <1>5
    <2>2. Lead(Nearest(A, t)) <= Lead(Nearest(A, u))
        BY <1>1, <1>6, <2>1, NearestInOrder
    <2> QED
        BY <2>1, <2>2
\* A gap between two lead times bounds how far off a snapshot of either is.
<1>7. ASSUME NEW t \in DOMAIN kept, t # DayAheadLead, NEW u \in Targets, u # t
      PROVE  2 * Abs(Lead(kept[t]) - t) <= Abs(u - t)
    <2> DEFINE gaps == {Abs(v - t) : v \in Targets \ {t}}
    <2>1. 2 * Abs(Lead(kept[t]) - t) <= Min(gaps)
        BY <1>5, <1>7 DEF Close
    <2>2. gaps \in SUBSET Nat /\ Abs(u - t) \in gaps
        <3>1. \A v \in Targets : v \in Nat
            BY <1>2
        <3>2. t \in Nat
            BY <1>5
        <3>3. \A v \in Targets : Abs(v - t) \in Nat
            BY <3>1, <3>2 DEF Abs
        <3>4. \A g \in gaps : g \in Nat
            BY <3>3
        <3> QED
            BY <3>4, <1>7
    <2>3. Min(gaps) \in Nat /\ Min(gaps) <= Abs(u - t)
        <3> HIDE DEF gaps
        <3> QED
            BY <2>2, MinOfNats
    <2>4. Lead(kept[t]) \in Nat /\ t \in Nat /\ u \in Nat
        BY <1>1, <1>2, <1>5
    <2> HIDE DEF gaps
    <2> QED
        BY <2>1, <2>3, <2>4 DEF Abs
<1>8. ASSUME NEW t \in DOMAIN kept \ {DayAheadLead}, NEW u \in DOMAIN kept \ {DayAheadLead},
             t < u, kept[t] = kept[u]
      PROVE  2 * Lead(kept[t]) = t + u
    <2> DEFINE l == Lead(kept[t])
    <2>1. l \in Nat /\ t \in Nat /\ u \in Nat /\ t \in Targets /\ u \in Targets /\ t # u
        BY <1>1, <1>5, <1>8
    <2>2. 2 * Abs(l - t) <= Abs(u - t) /\ 2 * Abs(l - u) <= Abs(t - u)
        BY <1>7, <1>8, <2>1
    <2> HIDE DEF l
    <2>3. 2 * l = t + u
        BY <1>8, <2>1, <2>2 DEF Abs
    <2> QED
        BY <2>3 DEF l
<1>9. \A t \in DOMAIN kept : kept[t] \in P /\ Lead(kept[t]) >= 0
    BY <1>1, <1>5
<1> QED
    BY <1>4, <1>6, <1>8, <1>9 DEF A, kept
\* What is shown of a slot stays what it was: a forecast stored after the slot
\* began changes it neither while it is read from the stored predictions nor
\* once the slot is scored (learning.py: refresh_day_ahead_predictions,
\* day_ahead_prediction).
THEOREM ShownPriceStays ==
    ASSUME NEW pending, ArePredictions(pending), NEW more, ArePredictions(more),
           NEW now \in Int, NEW later \in Int, now <= later,
           NEW s \in DOMAIN DayAhead(pending, now), s >= Slot(later),
           \A p \in more : p.start = s => p.stored > s * Ticks
    PROVE  LET all == pending \union more
               scored == Snapshots({p \in all : p.start = s})
               price == DayAhead(pending, now)[s]
           IN  /\ s \in DOMAIN DayAhead(all, later) /\ DayAhead(all, later)[s] = price
               /\ DayAheadLead \in DOMAIN scored /\ scored[DayAheadLead].price = price
<1> DEFINE all == pending \union more
           of(P) == {p \in P : p.start = s}
           A == Ahead(of(pending))
           scored == Snapshots(of(all))
           until(t) == Slot(t + AheadTicks)
           coming(P, t) == {p \in P : p.start >= Slot(t) /\ p.start < until(t)}
           Slots(P, t) == {p.start : p \in Ahead(coming(P, t))}
<1>1. Ahead(of(all)) = A
    <2>1. ASSUME NEW p \in of(more) PROVE ~(Lead(p) >= 0)
        <3>1. p.start = s /\ p.stored > s * Ticks /\ p.start \in Int /\ p.stored \in Int
            BY DEF ArePredictions
        <3>2. s * Ticks \in Int
            BY <3>1, TicksAssumption
        <3>3. Lead(p) = s * Ticks - p.stored
            BY <3>1 DEF Lead
        <3> QED
            BY <3>1, <3>2, <3>3
    <2>2. of(all) = of(pending) \union of(more)
        OBVIOUS
    <2> HIDE DEF of
    <2> QED
        BY <2>1, <2>2 DEF Ahead
<1>2. \A P, t : DayAhead(P, t) =
          [x \in Slots(P, t) |-> Nearest(Ahead({p \in P : p.start = x}), DayAheadLead).price]
    BY DEF DayAhead
<1> HIDE DEF all, of, A
<1>3. PICK p \in Ahead(coming(pending, now)) : p.start = s
    <2>1. s \in Slots(pending, now)
        BY <1>2
    <2> QED
        BY <2>1
<1>4. p \in pending /\ Lead(p) >= 0 /\ s >= Slot(now) /\ s < until(now)
    BY <1>3 DEF Ahead
<1>5. p \in A
    BY <1>3, <1>4 DEF A, of, Ahead
<1>6. s < until(later) /\ s \in Int
    <2>1. s \in Int
        BY <1>3, <1>4 DEF ArePredictions
    <2>2. now + AheadTicks \in Int /\ later + AheadTicks \in Int
          /\ now + AheadTicks <= later + AheadTicks
        BY LeadAssumption
    <2>3. until(now) \in Int /\ until(later) \in Int /\ until(now) <= until(later)
        BY <2>2, SlotsInOrder
    <2> HIDE DEF until
    <2> QED
        BY <1>4, <2>1, <2>3
<1>7. p \in Ahead(coming(all, later))
    BY <1>3, <1>4, <1>6 DEF Ahead, all
<1>8. s \in Slots(all, later)
    BY <1>3, <1>7
<1>9. /\ s \in DOMAIN DayAhead(all, later)
      /\ DayAhead(all, later)[s] = Nearest(Ahead(of(all)), DayAheadLead).price
      /\ DayAhead(pending, now)[s] = Nearest(A, DayAheadLead).price
    <2>1. s \in Slots(pending, now)
        BY <1>2
    <2> HIDE DEF Slots
    <2> QED
        BY <1>2, <1>8, <2>1 DEF of, A
<1>10. /\ DayAheadLead \in DOMAIN scored
       /\ scored[DayAheadLead] = Nearest(A, DayAheadLead)
    <2>1. /\ DOMAIN scored = {t \in Targets : A # {} /\ Close(Nearest(A, t), t)}
          /\ \A t \in DOMAIN scored : scored[t] = Nearest(A, t)
        BY <1>1 DEF Snapshots
    <2>2. DayAheadLead \in Targets /\ Close(Nearest(A, DayAheadLead), DayAheadLead)
        BY LeadAssumption DEF Close
    <2> HIDE DEF scored
    <2> QED
        BY <1>5, <2>1, <2>2
<1> QED
    BY <1>1, <1>9, <1>10 DEF all, of
-----------------------------------------------------------------------------
(* Errors kept per slot: external_forecasts.py *)

\* The model's errors are only kept where a source's are.
Blendable(rows) == \A r \in rows : r.source = "model" =>
                      \E q \in rows : /\ q.start = r.start /\ q.bucket = r.bucket
                                      /\ q.source \in Sources

LEMMA ErrorsOfASlot ==
    ASSUME NEW c, NEW s, NEW P, NEW buckets, NEW actual, NEW r \in SlotErrors(c, s, P, buckets, actual)
    PROVE  r.source = c /\ r.start = s /\ r.bucket \in buckets
<1>1. PICK b \in buckets : r = MeanError(c, s, b, InBucket(P, b), actual)
    BY DEF SlotErrors
<1> QED
    BY <1>1 DEF MeanError, Total

LEMMA RecordedIsBlendable ==
    ASSUME NEW db, "slotErrors" \in DOMAIN db, Blendable(db.slotErrors),
           NEW s, NEW P, NEW actual, NEW now
    PROVE  Blendable(RecordExternal(db, s, P, actual, now).slotErrors)
<1> DEFINE found == {x \in db.external : x.start = s}
           of(c) == {x \in found : x.source = c}
           rows == UNION {SlotErrors(c, s, of(c), Buckets, actual) : c \in Sources}
           models == SlotErrors("model", s, P, Paired(rows), actual)
           new == rows \union models
           key(r) == <<r.start, r.bucket, r.source>>
           kept == {r \in db.slotErrors : \A q \in new : key(q) # key(r)} \union new
           pruned == {r \in kept : r.start >= Slot(now - WindowTicks)}
<1>1. CASE found = {}
    BY <1>1 DEF RecordExternal
<1>2. CASE found # {}
    <2>1. RecordExternal(db, s, P, actual, now).slotErrors = pruned
        <3> DEFINE sums == [c \in Sources |->
                        AddErrors(db.externalSums[c], DayOf(s), of(c), DayOf(Slot(now)),
                                  Errors(of(c), actual))]
                   rest == db.external \ found
        <3>1. RecordExternal(db, s, P, actual, now) =
                  [db EXCEPT !.external = rest, !.externalSums = sums, !.slotErrors = pruned]
            BY <1>2 DEF RecordExternal
        <3> HIDE DEF sums, rest, pruned
        <3> QED
            BY <3>1
    <2>2. ASSUME NEW r \in rows PROVE r.source \in Sources /\ r.start = s
        <3>1. PICK c \in Sources : r \in SlotErrors(c, s, of(c), Buckets, actual)
            OBVIOUS
        <3> HIDE DEF of
        <3> QED
            BY <3>1, ErrorsOfASlot
    <2>3. \A r \in models : r.start = s /\ \E q \in rows : r.bucket = q.bucket
        <3>1. \A r \in models : r.start = s /\ r.bucket \in Paired(rows)
            BY ErrorsOfASlot
        <3> HIDE DEF models, rows
        <3> QED
            BY <3>1 DEF Paired
    <2> HIDE DEF rows, models, found
    <2>4. \A r \in new : r.source = "model" =>
              \E q \in new : q.start = r.start /\ q.bucket = r.bucket /\ q.source \in Sources
        BY <2>2, <2>3, LeadAssumption
    <2>5. \A q \in db.slotErrors : \E x \in kept :
              x.start = q.start /\ x.bucket = q.bucket /\ x.source = q.source
        OBVIOUS
    <2>6. \A r \in kept : r.source = "model" =>
              \E q \in kept : q.start = r.start /\ q.bucket = r.bucket /\ q.source \in Sources
        <3> SUFFICES ASSUME NEW r \in kept, r.source = "model"
                     PROVE  \E q \in kept : q.start = r.start /\ q.bucket = r.bucket
                                            /\ q.source \in Sources
            OBVIOUS
        <3>1. CASE r \in new
            BY <2>4, <3>1
        <3>2. CASE r \in db.slotErrors
            <4>1. PICK q \in db.slotErrors : /\ q.start = r.start /\ q.bucket = r.bucket
                                             /\ q.source \in Sources
                BY <3>2 DEF Blendable
            <4> HIDE DEF kept
            <4> QED
                BY <4>1, <2>5
        <3> QED
            BY <3>1, <3>2
    <2> HIDE DEF kept
    <2>7. Blendable(pruned)
        BY <2>6 DEF Blendable
    <2> HIDE DEF pruned
    <2> QED
        BY <2>1, <2>7
<1> QED
    BY <1>1, <1>2

\* However slots are scored, one after the other, an error of the model is only
\* kept next to that of a source for the same slot and lead time, so that a
\* blend of the two can be scored: one scored again replaces it, and pruning
\* drops both (learning.py: learn_from_actual_price; external_forecasts.py:
\* record_external_accuracy).
THEOREM LearnedStaysBlendable ==
    ASSUME NEW db, "slotErrors" \in DOMAIN db, Blendable(db.slotErrors),
           NEW s, NEW actual, NEW now
    PROVE  Blendable(Learn(db, s, actual, now).slotErrors)
<1> DEFINE P == AtInstant(Found(db.pending, s), s)
           today == DayOf(Slot(now))
           windows == AddRawErrors(db.windows[WallTime(s)], P, actual, DayOf(s))
           scored == [db EXCEPT
                        !.pending = @ \ P,
                        !.windows[WallTime(s)] = windows,
                        !.sums = AddErrors(@, DayOf(s), P, today, Errors(P, actual)),
                        !.corrected = AddErrors(@, DayOf(s), Measured(P), today, Errors(P, actual)),
                        !.raw = AddErrors(@, DayOf(s), Measured(P), today, RawErrors(P, actual)),
                        !.evaluation = Evaluated(@, s, P, now)]
<1>1. Learn(db, s, actual, now) =
          IF P = {} THEN db ELSE RecordExternal(scored, s, P, actual, now)
    BY DEF Learn
<1>2. "slotErrors" \in DOMAIN scored /\ scored.slotErrors = db.slotErrors
    OBVIOUS
<1> HIDE DEF P, scored
<1>3. Blendable(RecordExternal(scored, s, P, actual, now).slotErrors)
    BY <1>2, RecordedIsBlendable
<1> QED
    BY <1>1, <1>3
-----------------------------------------------------------------------------
(* The days of a bias window: bias.py *)

Later(S, d) == {e \in S : e > d}
NewestOf(S, n) == {d \in S : Cardinality(Later(S, d)) < n}
AreDays(S) == IsFiniteSet(S) /\ \A d \in S : d \in Int
IsWindow(days) == /\ days = [d \in DOMAIN days |-> days[d]]
                  /\ AreDays(DOMAIN days)

LEMMA LaterDays ==
    ASSUME NEW S, AreDays(S), NEW T, T \subseteq S, NEW d
    PROVE  /\ IsFiniteSet(Later(S, d)) /\ Cardinality(Later(S, d)) \in Nat
           /\ Cardinality(Later(T, d)) \in Nat
           /\ Cardinality(Later(T, d)) <= Cardinality(Later(S, d))
<1>1. Later(S, d) \subseteq S /\ Later(T, d) \subseteq Later(S, d)
    BY DEF Later
<1>2. IsFiniteSet(Later(S, d)) /\ IsFiniteSet(Later(T, d))
    BY <1>1, FS_Subset DEF AreDays
<1> QED
    BY <1>1, <1>2, FS_Subset, FS_CardinalityType

\* What was dropped before is not among the newest of more days.
LEMMA NewestOfNewest ==
    ASSUME NEW S, AreDays(S), NEW E, AreDays(E), NEW n \in Nat
    PROVE  NewestOf(NewestOf(S, n) \union E, n) = NewestOf(S \union E, n)
<1> DEFINE K == NewestOf(S, n)
           all == S \union E
           some == K \union E
<1>1. K \subseteq S /\ some \subseteq all /\ S \subseteq all
    BY DEF NewestOf
<1>2. AreDays(all) /\ AreDays(some) /\ AreDays(K)
    <2>1. IsFiniteSet(all)
        BY FS_Union DEF AreDays
    <2>2. IsFiniteSet(some) /\ IsFiniteSet(K)
        BY <1>1, <2>1, FS_Subset
    <2> QED
        BY <1>1, <2>1, <2>2 DEF AreDays
<1>3. \A d \in S : d \in K <=> Cardinality(Later(S, d)) < n
    BY DEF NewestOf
<1> HIDE DEF K
<1>4. ASSUME NEW d \in NewestOf(all, n) PROVE d \in NewestOf(some, n)
    <2>1. d \in all /\ Cardinality(Later(all, d)) < n
        BY DEF NewestOf
    <2>2. Cardinality(Later(some, d)) < n
        <3>1. /\ Cardinality(Later(all, d)) \in Nat /\ Cardinality(Later(some, d)) \in Nat
              /\ Cardinality(Later(some, d)) <= Cardinality(Later(all, d))
            BY <1>1, <1>2, LaterDays
        <3> QED
            BY <2>1, <3>1
    <2>3. d \in some
        <3>1. CASE d \in S
            <4>1. /\ Cardinality(Later(all, d)) \in Nat /\ Cardinality(Later(S, d)) \in Nat
                  /\ Cardinality(Later(S, d)) <= Cardinality(Later(all, d))
                BY <1>1, <1>2, LaterDays
            <4>2. Cardinality(Later(S, d)) < n
                BY <2>1, <4>1
            <4> QED
                BY <1>3, <3>1, <4>2
        <3> QED
            BY <2>1, <3>1
    <2> QED
        BY <2>2, <2>3 DEF NewestOf
<1>5. ASSUME NEW d \in NewestOf(some, n) PROVE d \in NewestOf(all, n)
    <2>1. d \in some /\ d \in all /\ d \in Int /\ Cardinality(Later(some, d)) < n
        BY <1>1, <1>2 DEF NewestOf, AreDays
    <2>2. Later(S, d) \subseteq K
        <3> DEFINE dropped == {e \in S : e > d /\ e \notin K}
        <3>1. CASE dropped = {}
            BY <3>1 DEF Later
        <3>2. CASE dropped # {}
            <4> DEFINE R == {pq \in S \X S : pq[1] > pq[2]}
            <4>1. IsFiniteSet(dropped) /\ dropped \subseteq S
                BY FS_Subset DEF AreDays
            <4>2. \A x \in S : x \in Int
                BY DEF AreDays
            <4>3. /\ \A x \in dropped : <<x, x>> \notin R
                  /\ \A x, y, z \in dropped : <<z, y>> \in R /\ <<y, x>> \in R => <<z, x>> \in R
                BY <4>1, <4>2
            <4>4. PICK e \in dropped : \A x \in dropped : <<x, e>> \notin R
                <5> HIDE DEF R, dropped
                <5> QED
                    BY <3>2, <4>1, <4>3, Topmost
            <4>5. e \in S /\ e > d /\ ~(Cardinality(Later(S, e)) < n)
                BY <1>3, <4>4
            <4>6. Later(S, e) \subseteq Later(some, d)
                <5>1. ASSUME NEW x \in Later(S, e) PROVE x \in K /\ x > d
                    <6>1. x \in S /\ x > e /\ x \in Int /\ e \in Int
                        BY <4>2, <4>5 DEF Later
                    <6>2. x > d /\ <<x, e>> \in R
                        BY <2>1, <4>5, <6>1
                    <6>3. x \notin dropped
                        BY <4>4, <6>2
                    <6> QED
                        BY <6>1, <6>2, <6>3
                <5> QED
                    BY <5>1 DEF Later
            <4>7. /\ IsFiniteSet(Later(some, d)) /\ Cardinality(Later(some, d)) \in Nat
                  /\ Cardinality(Later(S, e)) \in Nat
                BY <1>2, LaterDays
            <4>8. Cardinality(Later(S, e)) <= Cardinality(Later(some, d))
                BY <4>6, <4>7, FS_Subset
            <4> QED
                BY <2>1, <4>5, <4>7, <4>8
        <3> QED
            BY <3>1, <3>2
    <2>3. Later(all, d) = Later(some, d)
        BY <1>1, <2>2 DEF Later
    <2> QED
        BY <2>1, <2>3 DEF NewestOf
<1> QED
    BY <1>4, <1>5 DEF K

LEMMA NewestIs ==
    ASSUME NEW days, NEW n
    PROVE  /\ Newest(days, n) = [d \in NewestOf(DOMAIN days, n) |-> days[d]]
           /\ DOMAIN Newest(days, n) = NewestOf(DOMAIN days, n)
           /\ NewestOf(DOMAIN days, n) \subseteq DOMAIN days
BY DEF Newest, NewestOf, Later

LEMMA WithDayIs ==
    ASSUME NEW days, NEW d, NEW sums
    PROVE  /\ DOMAIN WithDay(days, d, sums) = DOMAIN days \union {d}
           /\ \A e \in DOMAIN days \union {d} : WithDay(days, d, sums)[e] =
                 IF e # d THEN days[e]
                 ELSE IF d \in DOMAIN days THEN Plus(days[d], sums) ELSE sums
BY DEF WithDay

LEMMA WindowsStay ==
    ASSUME NEW days, IsWindow(days), NEW n \in Nat
    PROVE  /\ IsWindow(Newest(days, n))
           /\ \A d \in Int : \A sums : IsWindow(WithDay(days, d, sums))
<1>1. IsWindow(Newest(days, n))
    <2>1. AreDays(NewestOf(DOMAIN days, n))
        BY NewestIs, FS_Subset DEF IsWindow, AreDays
    <2>2. Newest(days, n) = [d \in DOMAIN Newest(days, n) |-> Newest(days, n)[d]]
        BY NewestIs
    <2> QED
        BY <2>1, <2>2, NewestIs DEF IsWindow
<1>2. ASSUME NEW d \in Int, NEW sums PROVE IsWindow(WithDay(days, d, sums))
    <2>1. AreDays(DOMAIN days \union {d})
        BY FS_AddElement DEF IsWindow, AreDays
    <2>2. WithDay(days, d, sums) = [e \in DOMAIN WithDay(days, d, sums) |-> WithDay(days, d, sums)[e]]
        BY DEF WithDay
    <2>3. DOMAIN WithDay(days, d, sums) = DOMAIN days \union {d}
        BY WithDayIs
    <2> QED
        BY <2>1, <2>2, <2>3 DEF IsWindow
<1> QED
    BY <1>1, <1>2
\* Trimming a window early loses nothing that the trimmed one would keep.
LEMMA TrimmingTwice ==
    ASSUME NEW days, IsWindow(days), NEW n \in Nat
    PROVE  /\ Newest(Newest(days, n), n) = Newest(days, n)
           /\ \A d \in Int : \A sums :
                 Newest(WithDay(Newest(days, n), d, sums), n) = Newest(WithDay(days, d, sums), n)
<1> DEFINE S == DOMAIN days
           K == NewestOf(S, n)
           N == Newest(days, n)
<1>1. AreDays(S) /\ AreDays({}) /\ \A d \in Int : AreDays({d})
    BY FS_EmptySet, FS_Singleton DEF IsWindow, AreDays
<1>2. N = [d \in K |-> days[d]] /\ DOMAIN N = K /\ K \subseteq S
    BY NewestIs
<1>3. Newest(N, n) = N
    <2>1. NewestOf(K \union {}, n) = NewestOf(S \union {}, n)
        BY <1>1, NewestOfNewest
    <2>2. NewestOf(K, n) = K
        <3>1. K \union {} = K /\ S \union {} = S
            OBVIOUS
        <3> QED
            BY <2>1, <3>1
    <2>3. Newest(N, n) = [d \in NewestOf(DOMAIN N, n) |-> N[d]]
        BY NewestIs
    <2> HIDE DEF K, N
    <2> QED
        BY <1>2, <2>2, <2>3
<1>4. ASSUME NEW d \in Int, NEW sums
      PROVE  Newest(WithDay(N, d, sums), n) = Newest(WithDay(days, d, sums), n)
    <2> DEFINE A == WithDay(N, d, sums)
               B == WithDay(days, d, sums)
               M == NewestOf(S \union {d}, n)
    <2>1. NewestOf(K \union {d}, n) = M
        <3>1. AreDays(S) /\ AreDays({d})
            BY <1>1
        <3> HIDE DEF S
        <3> QED
            BY <3>1, NewestOfNewest
    <2>2. /\ DOMAIN A = K \union {d}
          /\ \A e \in K \union {d} :
                A[e] = IF e # d THEN N[e] ELSE IF d \in K THEN Plus(N[d], sums) ELSE sums
        BY <1>2 DEF WithDay
    <2>3. /\ DOMAIN B = S \union {d}
          /\ \A e \in S \union {d} :
                B[e] = IF e # d THEN days[e] ELSE IF d \in S THEN Plus(days[d], sums) ELSE sums
        BY DEF WithDay
    <2>4. Newest(A, n) = [e \in M |-> A[e]] /\ Newest(B, n) = [e \in M |-> B[e]]
        <3>1. /\ Newest(A, n) = [e \in NewestOf(DOMAIN A, n) |-> A[e]]
              /\ Newest(B, n) = [e \in NewestOf(DOMAIN B, n) |-> B[e]]
            BY NewestIs
        <3>2. NewestOf(DOMAIN A, n) = M /\ NewestOf(DOMAIN B, n) = M
            BY <2>1, <2>2, <2>3
        <3> HIDE DEF A, B, M
        <3> QED
            BY <3>1, <3>2
    <2>5. M \subseteq K \union {d}
        BY <2>1 DEF NewestOf
\* A dropped day that is measured again is dropped again.
    <2>6. d \in M /\ d \in S => d \in K
        <3> SUFFICES ASSUME d \in M, d \in S PROVE d \in K
            OBVIOUS
        <3>1. S \union {d} = S
            OBVIOUS
        <3>2. M = NewestOf(S, n)
            BY <3>1
        <3> QED
            BY <3>2
    <2> HIDE DEF A, B, M, K, N
    <2>7. \A e \in M : A[e] = B[e]
        <3> SUFFICES ASSUME NEW e \in M PROVE A[e] = B[e]
            OBVIOUS
        <3>1. e \in K \union {d} /\ e \in S \union {d}
            BY <1>2, <2>5
        <3>2. CASE e # d
            BY <1>2, <2>2, <2>3, <3>1, <3>2
        <3>3. CASE e = d /\ d \in S
            BY <1>2, <2>2, <2>3, <2>6, <3>1, <3>3
        <3>4. CASE e = d /\ d \notin S
            BY <1>2, <2>2, <2>3, <3>1, <3>4
        <3> QED
            BY <3>2, <3>3, <3>4
    <2> QED
        BY <2>4, <2>7 DEF A, B
<1> QED
    BY <1>3, <1>4

LEMMA DaysCommute ==
    ASSUME NEW days, NEW d, NEW e, d # e, NEW x, NEW y
    PROVE  WithDay(WithDay(days, d, x), e, y) = WithDay(WithDay(days, e, y), d, x)
<1> DEFINE A == WithDay(days, d, x)
           B == WithDay(days, e, y)
           S == DOMAIN days
           all == S \union {d, e}
           value(f) == IF f = d THEN (IF d \in S THEN Plus(days[d], x) ELSE x)
                       ELSE IF f = e THEN (IF e \in S THEN Plus(days[e], y) ELSE y)
                       ELSE days[f]
<1>1. /\ DOMAIN A = S \union {d} /\ DOMAIN B = S \union {e}
      /\ \A f \in S \union {d} : A[f] =
            IF f # d THEN days[f] ELSE IF d \in S THEN Plus(days[d], x) ELSE x
      /\ \A f \in S \union {e} : B[f] =
            IF f # e THEN days[f] ELSE IF e \in S THEN Plus(days[e], y) ELSE y
    BY DEF WithDay
<1>2. /\ WithDay(A, e, y) = [f \in DOMAIN A \union {e} |->
            IF f # e THEN A[f] ELSE IF e \in DOMAIN A THEN Plus(A[e], y) ELSE y]
      /\ WithDay(B, d, x) = [f \in DOMAIN B \union {d} |->
            IF f # d THEN B[f] ELSE IF d \in DOMAIN B THEN Plus(B[d], x) ELSE x]
    BY DEF WithDay
<1>3. DOMAIN A \union {e} = all /\ DOMAIN B \union {d} = all
    BY <1>1
<1> HIDE DEF A, B, S
<1>4. \A f \in all :
          /\ value(f) = IF f # e THEN A[f] ELSE IF e \in DOMAIN A THEN Plus(A[e], y) ELSE y
          /\ value(f) = IF f # d THEN B[f] ELSE IF d \in DOMAIN B THEN Plus(B[d], x) ELSE x
    BY <1>1
<1> HIDE DEF value, all
<1>5. WithDay(A, e, y) = [f \in all |-> value(f)] /\ WithDay(B, d, x) = [f \in all |-> value(f)]
    BY <1>2, <1>3, <1>4
<1> QED
    BY <1>5 DEF A, B
\* The windows of a time of day: the days measured are in the calendar.
AreWindows(windows) == \A b \in Buckets : IsWindow(windows[b])

LEMMA AddedIs ==
    ASSUME NEW windows, AreWindows(windows), NEW P, NEW actual, NEW d \in Int, NEW b \in Buckets
    PROVE  LET S == InBucket(Measured(P), b)
               A == AddRawErrors(windows, P, actual, d)
           IN  /\ DOMAIN A = Buckets
               /\ A[b] = IF BiasWindow[b] = 0 THEN NoDays
                         ELSE IF S = {} THEN Newest(windows[b], BiasWindow[b])
                         ELSE Newest(WithDay(windows[b], d, Sums(S, RawErrors(P, actual))),
                                     BiasWindow[b])
               /\ BiasWindow[b] \in Nat /\ IsWindow(A[b])
<1> DEFINE S == InBucket(Measured(P), b)
           A == AddRawErrors(windows, P, actual, d)
           x == Sums(S, RawErrors(P, actual))
<1>1. DOMAIN A = Buckets
    BY DEF AddRawErrors
<1>2. A[b] = IF BiasWindow[b] = 0 THEN NoDays
             ELSE IF S = {} THEN Newest(windows[b], BiasWindow[b])
             ELSE Newest(WithDay(windows[b], d, x), BiasWindow[b])
    BY DEF AddRawErrors
<1>3. BiasWindow[b] \in Nat
    BY LeadAssumption DEF Buckets
<1>4. IsWindow(NoDays)
    <2>1. DOMAIN NoDays = {} /\ NoDays = [d1 \in DOMAIN NoDays |-> NoDays[d1]]
        BY DEF NoDays
    <2> QED
        BY <2>1, FS_EmptySet DEF IsWindow, AreDays
<1>5. IsWindow(windows[b]) /\ IsWindow(WithDay(windows[b], d, x))
    BY WindowsStay, <1>3 DEF AreWindows
<1> HIDE DEF A, S, x
<1>6. IsWindow(A[b])
    BY <1>2, <1>3, <1>4, <1>5, WindowsStay
<1> QED
    BY <1>1, <1>2, <1>3, <1>6 DEF A, S, x

\* The days that a bias window keeps, and the error sums of each, do not depend
\* on the order in which two days are measured: trimmed after each, it keeps
\* the newest of all of them, so a day scored late by the catch-up counts as
\* if it had been scored in time (bias.py: add_raw_errors).
THEOREM OrderOfScoringDoesNotMatter ==
    ASSUME NEW windows, AreWindows(windows),
           NEW P, NEW actual, NEW d \in Int, NEW Q, NEW price, NEW e \in Int, d # e
    PROVE  AddRawErrors(AddRawErrors(windows, P, actual, d), Q, price, e)
               = AddRawErrors(AddRawErrors(windows, Q, price, e), P, actual, d)
<1> DEFINE A == AddRawErrors(windows, P, actual, d)
           B == AddRawErrors(windows, Q, price, e)
           AB == AddRawErrors(A, Q, price, e)
           BA == AddRawErrors(B, P, actual, d)
<1>1. AB = [b \in Buckets |-> AB[b]] /\ BA = [b \in Buckets |-> BA[b]]
    BY DEF AddRawErrors
<1>2. AreWindows(A) /\ AreWindows(B)
    <2>1. \A b \in Buckets : IsWindow(A[b]) /\ IsWindow(B[b])
        BY AddedIs
    <2> QED
        BY <2>1 DEF AreWindows
<1>3. ASSUME NEW b \in Buckets PROVE AB[b] = BA[b]
    <2> DEFINE n == BiasWindow[b]
               w == windows[b]
               S == InBucket(Measured(P), b)
               T == InBucket(Measured(Q), b)
               x == Sums(S, RawErrors(P, actual))
               y == Sums(T, RawErrors(Q, price))
    <2>1. /\ A[b] = IF n = 0 THEN NoDays ELSE IF S = {} THEN Newest(w, n)
                    ELSE Newest(WithDay(w, d, x), n)
          /\ B[b] = IF n = 0 THEN NoDays ELSE IF T = {} THEN Newest(w, n)
                    ELSE Newest(WithDay(w, e, y), n)
          /\ n \in Nat
        BY AddedIs
    <2>2. /\ AB[b] = IF n = 0 THEN NoDays ELSE IF T = {} THEN Newest(A[b], n)
                     ELSE Newest(WithDay(A[b], e, y), n)
          /\ BA[b] = IF n = 0 THEN NoDays ELSE IF S = {} THEN Newest(B[b], n)
                     ELSE Newest(WithDay(B[b], d, x), n)
        <3> HIDE DEF A, B
        <3> QED
            BY <1>2, AddedIs
    <2>3. IsWindow(w) /\ IsWindow(WithDay(w, d, x)) /\ IsWindow(WithDay(w, e, y))
        BY <2>1, WindowsStay DEF AreWindows
    <2> HIDE DEF A, B, AB, BA, n, w, S, T, x, y
    <2>4. /\ Newest(Newest(w, n), n) = Newest(w, n)
          /\ Newest(WithDay(Newest(w, n), d, x), n) = Newest(WithDay(w, d, x), n)
          /\ Newest(WithDay(Newest(w, n), e, y), n) = Newest(WithDay(w, e, y), n)
        BY <2>1, <2>3, TrimmingTwice
    <2>5. /\ Newest(Newest(WithDay(w, d, x), n), n) = Newest(WithDay(w, d, x), n)
          /\ Newest(WithDay(Newest(WithDay(w, d, x), n), e, y), n)
                = Newest(WithDay(WithDay(w, d, x), e, y), n)
        BY <2>1, <2>3, TrimmingTwice
    <2>6. /\ Newest(Newest(WithDay(w, e, y), n), n) = Newest(WithDay(w, e, y), n)
          /\ Newest(WithDay(Newest(WithDay(w, e, y), n), d, x), n)
                = Newest(WithDay(WithDay(w, e, y), d, x), n)
        BY <2>1, <2>3, TrimmingTwice
    <2>7. WithDay(WithDay(w, d, x), e, y) = WithDay(WithDay(w, e, y), d, x)
        BY DaysCommute
    <2>8. CASE n = 0
        BY <2>2, <2>8
    <2>9. CASE n # 0 /\ S = {} /\ T = {}
        BY <2>1, <2>2, <2>9
    <2>10. CASE n # 0 /\ S = {} /\ T # {}
        BY <2>1, <2>2, <2>4, <2>6, <2>10
    <2>11. CASE n # 0 /\ S # {} /\ T = {}
        BY <2>1, <2>2, <2>4, <2>5, <2>11
    <2>12. CASE n # 0 /\ S # {} /\ T # {}
        BY <2>1, <2>2, <2>5, <2>6, <2>7, <2>12
    <2> QED
        BY <2>8, <2>9, <2>10, <2>11, <2>12
<1> HIDE DEF AB, BA
<1>4. AB = BA
    BY <1>1, <1>3
<1> QED
    BY <1>4 DEF AB, BA
-----------------------------------------------------------------------------
(* Scoring a slot: learning.py *)

\* What is kept of a slot are predictions of that slot, made ahead of it.
OfTheirSlots(evaluation) ==
    \A s \in DOMAIN evaluation : \A t \in DOMAIN evaluation[s] :
        evaluation[s][t].start = s /\ Lead(evaluation[s][t]) >= 0

LEMMA EvaluatedIsOfItsSlot ==
    ASSUME NEW evaluation, OfTheirSlots(evaluation), NEW s, NEW P, ArePredictions(P),
           \A p \in P : p.start = s, NEW now
    PROVE  OfTheirSlots(Evaluated(evaluation, s, P, now))
<1> DEFINE new == Snapshots(P)
           kept == Evaluated(evaluation, s, P, now)
           old(x) == evaluation[x]
           value(x) == IF x < Slot(now - KeepTicks) THEN << >>
                       ELSE IF x # s THEN old(x)
                       ELSE [t \in DOMAIN old(x) \union DOMAIN new |->
                                IF t \in DOMAIN new THEN new[t] ELSE old(x)[t]]
<1>1. \A t \in DOMAIN new : new[t].start = s /\ Lead(new[t]) >= 0
    <2>1. \A t \in DOMAIN new : new[t] \in P /\ Lead(new[t]) >= 0
        BY SnapshotsAreInOrder
    <2> HIDE DEF new
    <2> QED
        BY <2>1
<1>2. kept = IF new = << >> \/ s * Ticks < now - KeepTicks THEN evaluation
             ELSE [x \in DOMAIN evaluation |-> value(x)]
    BY DEF Evaluated
<1> HIDE DEF new, kept
<1>3. ASSUME NEW x \in DOMAIN evaluation, NEW t \in DOMAIN value(x)
      PROVE  value(x)[t].start = x /\ Lead(value(x)[t]) >= 0
    <2>1. CASE x < Slot(now - KeepTicks)
        <3>1. value(x) = << >>
            BY <2>1
        <3>2. DOMAIN << >> = {}
            OBVIOUS
        <3> HIDE DEF value
        <3> QED
            BY <1>3, <3>1, <3>2
    <2>2. CASE ~(x < Slot(now - KeepTicks)) /\ x # s
        BY <1>3, <2>2 DEF OfTheirSlots
    <2>3. CASE ~(x < Slot(now - KeepTicks)) /\ x = s
        <3> DEFINE both == [u \in DOMAIN old(x) \union DOMAIN new |->
                               IF u \in DOMAIN new THEN new[u] ELSE old(x)[u]]
        <3>1. value(x) = both
            BY <2>3
        <3>2. ASSUME NEW u \in DOMAIN both PROVE both[u].start = x /\ Lead(both[u]) >= 0
            <4>1. CASE u \in DOMAIN new
                <5>1. both[u] = new[u]
                    BY <4>1
                <5> QED
                    BY <1>1, <2>3, <4>1, <5>1
            <4>2. CASE u \notin DOMAIN new
                <5>1. u \in DOMAIN old(x) /\ both[u] = old(x)[u]
                    BY <4>2
                <5> QED
                    BY <5>1 DEF OfTheirSlots
            <4> QED
                BY <4>1, <4>2
        <3> HIDE DEF both, value
        <3> QED
            BY <1>3, <3>1, <3>2
    <2> QED
        BY <2>1, <2>2, <2>3
<1> HIDE DEF value
<1>4. OfTheirSlots([x \in DOMAIN evaluation |-> value(x)])
    BY <1>3 DEF OfTheirSlots
<1> QED
    BY <1>2, <1>4 DEF kept

\* Scoring a slot takes all its predictions and no other's, in the repeated hour
\* too, so none is scored twice; what is kept of any slot are predictions of
\* that slot, made ahead of it (learning.py: learn_from_actual_price,
\* predictions_at_instant; lead_time.py: evaluation_snapshots).
THEOREM ASlotScoresItsOwn ==
    ASSUME NEW db, {"pending", "evaluation"} \subseteq DOMAIN db,
           ArePredictions(db.pending), OfTheirSlots(db.evaluation),
           NEW s, NEW actual, NEW now
    PROVE  LET learned == Learn(db, s, actual, now)
           IN  /\ learned.pending = {p \in db.pending : p.start # s}
               /\ OfTheirSlots(learned.evaluation)
<1> DEFINE P == AtInstant(Found(db.pending, s), s)
           today == DayOf(Slot(now))
           windows == AddRawErrors(db.windows[WallTime(s)], P, actual, DayOf(s))
           scored == [db EXCEPT
                        !.pending = @ \ P,
                        !.windows[WallTime(s)] = windows,
                        !.sums = AddErrors(@, DayOf(s), P, today, Errors(P, actual)),
                        !.corrected = AddErrors(@, DayOf(s), Measured(P), today, Errors(P, actual)),
                        !.raw = AddErrors(@, DayOf(s), Measured(P), today, RawErrors(P, actual)),
                        !.evaluation = Evaluated(@, s, P, now)]
           recorded == RecordExternal(scored, s, P, actual, now)
           learned == Learn(db, s, actual, now)
<1>1. learned = IF P = {} THEN db ELSE recorded
    BY DEF Learn
<1>2. P = {p \in db.pending : p.start = s}
    BY DEF AtInstant, Found
<1>3. /\ {"pending", "evaluation"} \subseteq DOMAIN scored
      /\ scored.pending = db.pending \ P
      /\ scored.evaluation = Evaluated(db.evaluation, s, P, now)
    <2> HIDE DEF P, today, windows
    <2> QED
        OBVIOUS
<1> HIDE DEF scored
<1>4. recorded.pending = scored.pending /\ recorded.evaluation = scored.evaluation
    <2> DEFINE found == {x \in scored.external : x.start = s}
    <2>1. CASE found = {}
        BY <2>1 DEF RecordExternal
    <2>2. CASE found # {}
        <3> DEFINE of(c) == {x \in found : x.source = c}
                   rows == UNION {SlotErrors(c, s, of(c), Buckets, actual) : c \in Sources}
                   new == rows \union SlotErrors("model", s, P, Paired(rows), actual)
                   key(r) == <<r.start, r.bucket, r.source>>
                   kept == {r \in scored.slotErrors : \A q \in new : key(q) # key(r)} \union new
                   rest == scored.external \ found
                   sums == [c \in Sources |->
                               AddErrors(scored.externalSums[c], DayOf(s), of(c),
                                         DayOf(Slot(now)), Errors(of(c), actual))]
                   errors == {r \in kept : r.start >= Slot(now - WindowTicks)}
        <3> HIDE DEF P
        <3>1. recorded = [scored EXCEPT !.external = rest, !.externalSums = sums,
                                        !.slotErrors = errors]
            BY <2>2 DEF RecordExternal
        <3> HIDE DEF recorded, rest, sums, errors
        <3> QED
            BY <1>3, <3>1
    <2> QED
        BY <2>1, <2>2
<1>5. OfTheirSlots(Evaluated(db.evaluation, s, P, now))
    <2>1. ArePredictions(P) /\ \A p \in P : p.start = s
        BY <1>2, FS_Subset DEF ArePredictions
    <2> HIDE DEF P
    <2> QED
        BY <2>1, EvaluatedIsOfItsSlot
<1> HIDE DEF P, recorded, learned
<1>6. CASE P = {}
    BY <1>1, <1>2, <1>6 DEF learned
<1>7. CASE P # {}
    <2>1. learned.pending = db.pending \ P /\ OfTheirSlots(learned.evaluation)
        BY <1>1, <1>3, <1>4, <1>5, <1>7
    <2> QED
        BY <1>2, <2>1 DEF learned
<1> QED
    BY <1>6, <1>7
-----------------------------------------------------------------------------
(* Outage documents: entsoe_outages.py, nordpool_umm.py *)

LEMMA LeastIs == ASSUME NEW S \in SUBSET Nat, S # {}
                 PROVE  Least(S) \in S /\ \A k \in S : Least(S) <= k
<1>1. PICK m \in S : \A k \in S : m <= k
    BY LeastExists
<1> QED
    BY <1>1 DEF Least

LEMMA LargestIs == ASSUME NEW S, NEW a \in Int, NEW b \in Int, S \subseteq a..b, S # {}
                   PROVE  Largest(S) \in S /\ \A k \in S : k <= Largest(S)
<1>1. PICK m \in S : \A k \in S : k <= m
    BY Greatest
<1>2. \A k \in S : m >= k
    BY <1>1
<1>3. Largest(S) \in S /\ \A k \in S : Largest(S) >= k
    BY <1>2 DEF Largest
<1> QED
    BY <1>3

LEMMA StepsInOrder ==
    ASSUME NEW first \in Int, NEW step \in Nat, step > 0, NEW n \in Int, NEW m \in Int
    PROVE  /\ first + (n - 1) * step \in Int /\ first + (m - 1) * step \in Int
           /\ n < m <=> first + (n - 1) * step < first + (m - 1) * step
<1>1. n - 1 \in Int /\ m - 1 \in Int /\ (n - 1) * step \in Int /\ (m - 1) * step \in Int
    OBVIOUS
<1>2. n < m => (n - 1) * step < (m - 1) * step
    <2>1. n < m => n * step <= (m - 1) * step
        BY <1>1, ProductKeepsOrder
    <2>2. (n - 1) * step = n * step - step /\ n * step \in Int
        OBVIOUS
    <2> QED
        BY <1>1, <2>1, <2>2
<1>3. ~(n < m) => (m - 1) * step <= (n - 1) * step
    BY <1>1, ProductKeepsOrder
<1> QED
    BY <1>1, <1>2, <1>3

\* At any time before its end a curve says the quantity of the last point given
\* by then, whatever points it leaves out, and nothing before the first or from
\* its end on (entsoe_outages.py: the points of a curve by their positions).
THEOREM CurveHoldsUntilTheNextPoint ==
    ASSUME NEW curve, curve.start \in Int, curve.step \in Nat, curve.step > 0,
           curve.end \in Int, curve.end # Absent,
           NEW high \in Nat, DOMAIN curve.points \subseteq 1..high,
           NEW t \in Int, t < curve.end
    PROVE  LET given == {n \in DOMAIN curve.points : curve.start + (n - 1) * curve.step <= t}
               says == {s.available : s \in {s \in Segments(curve) : s.start <= t /\ t < s.stop}}
           IN  says = IF given = {} THEN {} ELSE {curve.points[Largest(given)]}
<1> DEFINE D == DOMAIN curve.points
           at(n) == curve.start + (n - 1) * curve.step
           next(n) == {m \in D : m > n}
           stop(n) == IF next(n) = {} THEN curve.end ELSE at(Least(next(n)))
           seg(n) == [start |-> at(n), stop |-> stop(n), available |-> curve.points[n]]
           given == {n \in D : at(n) <= t}
           over == {s \in Segments(curve) : s.start <= t /\ t < s.stop}
<1>1. Segments(curve) = {s \in {seg(n) : n \in D} : s.start < s.stop}
    BY DEF Segments
<1>2. \A n \in D : n \in Int /\ n \in Nat
    OBVIOUS
<1>3. \A n, m \in D : at(n) \in Int /\ (n < m <=> at(n) < at(m))
    BY <1>2, StepsInOrder
<1>4. \A n \in D : next(n) # {} => Least(next(n)) \in next(n) /\ \A m \in next(n) : Least(next(n)) <= m
    <2> SUFFICES ASSUME NEW n \in D, next(n) # {}
                 PROVE  Least(next(n)) \in next(n) /\ \A m \in next(n) : Least(next(n)) <= m
        OBVIOUS
    <2>1. next(n) \in SUBSET Nat
        BY <1>2
    <2> HIDE DEF next
    <2> QED
        BY <2>1, LeastIs
<1>5. \A n \in D : stop(n) \in Int /\ (next(n) # {} => stop(n) = at(Least(next(n))))
                   /\ (next(n) = {} => stop(n) = curve.end)
    BY <1>3, <1>4
<1> HIDE DEF at, stop
\* A point counts at t exactly if it is given by t and the next one is not.
<1>6. \A n \in D : at(n) <= t /\ t < stop(n) <=> n \in given /\ \A m \in given : m <= n
    <2> SUFFICES ASSUME NEW n \in D
                 PROVE  at(n) <= t /\ t < stop(n) <=> n \in given /\ \A m \in given : m <= n
        OBVIOUS
    <2>1. CASE next(n) = {}
        <3>1. \A m \in D : m <= n
            BY <1>2, <2>1
        <3> QED
            BY <1>5, <2>1, <3>1
    <2>2. CASE next(n) # {}
        <3> DEFINE x == Least(next(n))
        <3>1. x \in D /\ x > n /\ stop(n) = at(x) /\ \A m \in D : m > n => x <= m
            BY <1>4, <1>5, <2>2
        <3> HIDE DEF x
        <3>2. at(x) \in Int /\ at(n) \in Int /\ x \in Int /\ n \in Int
            BY <1>2, <1>3, <3>1
        <3>3. t < at(x) => \A m \in given : m <= n
            <4> SUFFICES ASSUME t < at(x), NEW m \in given, m > n PROVE FALSE
                BY <1>2
            <4>1. m \in D /\ x <= m /\ at(m) <= t /\ at(m) \in Int /\ m \in Int
                BY <1>2, <1>3, <3>1
            <4>2. at(x) <= at(m)
                BY <1>3, <3>1, <3>2, <4>1
            <4> QED
                BY <3>2, <4>1, <4>2
        <3>4. (\A m \in given : m <= n) => t < at(x)
            BY <3>1, <3>2
        <3> QED
            BY <3>1, <3>3, <3>4
    <2> QED
        BY <2>1, <2>2
<1>7. \A n \in D : seg(n).start = at(n) /\ seg(n).stop = stop(n) /\ seg(n).available = curve.points[n]
    OBVIOUS
<1>8. over = {seg(n) : n \in {n \in D : at(n) <= t /\ t < stop(n)}}
    <2>1. ASSUME NEW n \in D, at(n) <= t, t < stop(n) PROVE at(n) < stop(n)
        <3>1. at(n) \in Int /\ stop(n) \in Int
            BY <1>3, <1>5
        <3> QED
            BY <2>1, <3>1
    <2> HIDE DEF seg
    <2> QED
        BY <1>1, <1>7, <2>1
<1> HIDE DEF over, seg
<1>9. CASE given = {}
    <2>1. over = {}
        BY <1>6, <1>8, <1>9
    <2> QED
        BY <1>9, <2>1 DEF over, at
<1>10. CASE given # {}
    <2> DEFINE g == Largest(given)
    <2>1. g \in given /\ \A m \in given : m <= g
        <3>1. given \subseteq 1..high /\ 1 \in Int /\ high \in Int
            OBVIOUS
        <3> HIDE DEF given
        <3> QED
            BY <1>10, <3>1, LargestIs
    <2> HIDE DEF g
    <2>2. {n \in D : at(n) <= t /\ t < stop(n)} = {g}
        <3>1. \A n \in given : (\A m \in given : m <= n) <=> n = g
            BY <1>2, <2>1
        <3> QED
            BY <1>6, <2>1, <3>1
    <2>3. over = {seg(g)}
        BY <1>8, <2>2
    <2>4. {s.available : s \in over} = {curve.points[g]}
        BY <1>7, <2>1, <2>3
    <2> QED
        BY <1>10, <2>4 DEF over, at, g
<1> QED
    BY <1>9, <1>10
\* A listing is read whole or the request has failed, unless it is longer than
\* the most pages that are read or its total is missing or too low; a page that
\* fails fails all (nordpool_umm.py: NordPoolOutageSource._fetch).
THEOREM ListingIsWhole ==
    ASSUME NEW count \in Nat, NEW total \in Nat \union {Absent}, NEW failing \in Nat
    PROVE  LET got == NordpoolPages(count, total, failing)
           IN  \/ got = Failed \/ got = 1..count
               \/ total < count \/ count > MaxPages * PageSize
<1> DEFINE got(page) == IF page * PageSize < count THEN page * PageSize ELSE count
           ends == {p \in 1..MaxPages : \/ p = MaxPages
                                        \/ got(p) = got(p - 1)
                                        \/ total = Absent \/ got(p) >= total}
           e == Least(ends)
<1>1. NordpoolPages(count, total, failing) = IF failing <= e THEN Failed ELSE 1..got(e)
    BY DEF NordpoolPages
<1>2. MaxPages \in Nat /\ MaxPages >= 1 /\ PageSize \in Nat /\ PageSize >= 1
    BY PageAssumption
<1>3. e \in ends
    <2>1. MaxPages \in ends /\ ends \in SUBSET Nat
        BY <1>2
    <2> HIDE DEF ends
    <2> QED
        BY <2>1, LeastIs
<1>4. /\ e \in 1..MaxPages
      /\ e = MaxPages \/ got(e) = got(e - 1) \/ total = Absent \/ got(e) >= total
    BY <1>3
<1> HIDE DEF e, ends
<1> DEFINE x == e * PageSize
           y == (e - 1) * PageSize
<1>5. x \in Int /\ y \in Int /\ x = y + PageSize
    <2>1. e \in Int
        BY <1>2, <1>4
    <2> QED
        BY <1>2, <2>1
<1>6. got(e) = (IF x < count THEN x ELSE count) /\ got(e - 1) = (IF y < count THEN y ELSE count)
    OBVIOUS
<1>7. e = MaxPages => x = MaxPages * PageSize
    OBVIOUS
<1> HIDE DEF got, x, y
<1>8. SUFFICES ASSUME ~(total < count), ~(count > MaxPages * PageSize) PROVE got(e) = count
    BY <1>1
<1>9. total \in Int /\ (total = Absent => total < count)
    BY DEF Absent
<1>10. MaxPages * PageSize \in Int
    BY <1>2
<1> QED
    BY <1>2, <1>4, <1>5, <1>6, <1>7, <1>8, <1>9, <1>10

\* Windows, as long as n at most, that a window may be halved into.
SpansUpTo(window, n) == {w \in Spans(window) : w[2] - w[1] <= n}
Middle(w) == w[1] + (w[2] - w[1]) \div 2
EarlierHalf(w) == <<w[1], Middle(w)>>
LaterHalf(w) == <<Middle(w), w[2]>>
\* What a window's request returns, when its halves return a and b.
WindowReturns(events, failing, w, a, b) ==
    LET D == InWindowOf(events, w) IN
    IF w \in failing THEN Failed
    ELSE IF Cardinality(D) < PageSize * MaxPages THEN D
    ELSE IF w[2] - w[1] <= MinWindow THEN First(D, PageSize * MaxPages)
    ELSE IF \E h \in {a, b} : h = Failed THEN Failed
    ELSE UNION {a, b}
Answered(events, failing, window, n, f) ==
    f = [w \in SpansUpTo(window, n) |->
            WindowReturns(events, failing, w, f[EarlierHalf(w)], f[LaterHalf(w)])]

\* A window that is halved has shorter halves, that meet in between.
LEMMA HalvesAreShorter ==
    ASSUME NEW window \in Int \X Int, NEW w \in Spans(window), w[2] - w[1] > MinWindow
    PROVE  /\ EarlierHalf(w) \in Spans(window) /\ LaterHalf(w) \in Spans(window)
           /\ Middle(w) \in Int /\ w[1] < Middle(w) /\ Middle(w) < w[2]
           /\ w[1] \in Int /\ w[2] \in Int
<1>1. /\ w[1] \in Int /\ w[2] \in Int /\ window[1] <= w[1] /\ w[2] <= window[2]
      /\ window[1] \in Int /\ window[2] \in Int
    BY DEF Spans
<1>2. MinWindow \in Int /\ MinWindow >= 1
    BY PageAssumption
<1> DEFINE a == w[1]
           b == w[2]
           m == a + (b - a) \div 2
<1>3. a \in Int /\ b \in Int /\ b - a > 1
    BY <1>1, <1>2
<1> HIDE DEF a, b
<1>4. m \in Int /\ a < m /\ m < b
    BY <1>3
<1>5. Middle(w) = m
    BY DEF Middle, a, b
<1> HIDE DEF m
<1>6. w[1] < Middle(w) /\ Middle(w) < w[2] /\ Middle(w) \in Int
    BY <1>4, <1>5 DEF a, b
<1>7. /\ w[1] \in window[1]..window[2] /\ w[2] \in window[1]..window[2]
      /\ Middle(w) \in window[1]..window[2]
    BY <1>1, <1>6
<1>8. /\ EarlierHalf(w)[1] = w[1] /\ EarlierHalf(w)[2] = Middle(w)
      /\ LaterHalf(w)[1] = Middle(w) /\ LaterHalf(w)[2] = w[2]
    BY DEF EarlierHalf, LaterHalf
<1>9. /\ EarlierHalf(w) \in (window[1]..window[2]) \X (window[1]..window[2])
      /\ LaterHalf(w) \in (window[1]..window[2]) \X (window[1]..window[2])
    BY <1>7 DEF EarlierHalf, LaterHalf
<1> QED
    BY <1>1, <1>6, <1>8, <1>9 DEF Spans
LEMMA ShortWindowsAskOnce ==
    ASSUME NEW events, NEW failing, NEW w, w[2] - w[1] <= MinWindow,
           NEW a, NEW b, NEW c, NEW d
    PROVE  WindowReturns(events, failing, w, a, b) = WindowReturns(events, failing, w, c, d)
BY DEF WindowReturns

LEMMA SpansAreNumbers ==
    ASSUME NEW window \in Int \X Int, NEW w \in Spans(window)
    PROVE  w[1] \in Int /\ w[2] \in Int /\ w[1] < w[2] /\ w[2] - w[1] \in Nat
           /\ w[2] - w[1] <= window[2] - window[1]
BY DEF Spans

\* The halving ends: by the least length of a window for which it did not.
LEMMA HalvingEnds ==
    ASSUME NEW events, NEW failing, NEW window \in Int \X Int
    PROVE  \A n \in Nat : \E f : Answered(events, failing, window, n, f)
<1> DEFINE B == {n \in Nat : \A f : ~Answered(events, failing, window, n, f)}
<1>1. SUFFICES ASSUME B # {} PROVE FALSE
    OBVIOUS
<1>2. PICK m \in B : \A k \in B : m <= k
    <2>1. B \in SUBSET Nat
        OBVIOUS
    <2> HIDE DEF B
    <2> QED
        BY <1>1, <2>1, LeastExists
<1>3. m \in Nat /\ MinWindow \in Nat
    BY <1>2, PageAssumption
<1>4. CASE m = 0
    <2>1. SpansUpTo(window, 0) = {}
        BY SpansAreNumbers DEF SpansUpTo
    <2> DEFINE f == [w \in {} |-> 0]
    <2>2. Answered(events, failing, window, 0, f)
        BY <2>1 DEF Answered
    <2> HIDE DEF f
    <2> QED
        BY <1>2, <1>4, <2>2
<1>5. CASE m # 0
    <2>1. m - 1 \in Nat /\ m - 1 \notin B
        BY <1>2, <1>3, <1>5
    <2>2. PICK f : Answered(events, failing, window, m - 1, f)
        BY <2>1
    <2> DEFINE T(w, g) == WindowReturns(events, failing, w, g[EarlierHalf(w)], g[LaterHalf(w)])
               g == [w \in SpansUpTo(window, m) |-> IF w[2] - w[1] = m THEN T(w, f) ELSE f[w]]
    <2>3. \A w \in SpansUpTo(window, m - 1) : f[w] = T(w, f) /\ w \in SpansUpTo(window, m) /\ g[w] = f[w]
        <3> SUFFICES ASSUME NEW w \in SpansUpTo(window, m - 1)
                     PROVE  f[w] = T(w, f) /\ w \in SpansUpTo(window, m) /\ g[w] = f[w]
            OBVIOUS
        <3>1. f[w] = T(w, f)
            BY <2>2 DEF Answered
        <3>2. w \in Spans(window) /\ w[2] - w[1] <= m - 1 /\ w[2] - w[1] \in Nat
            BY SpansAreNumbers DEF SpansUpTo
        <3>3. w \in SpansUpTo(window, m) /\ w[2] - w[1] # m
            BY <1>3, <3>2 DEF SpansUpTo
        <3> HIDE DEF T
        <3> QED
            BY <3>1, <3>3
    <2>4. ASSUME NEW w \in SpansUpTo(window, m) PROVE g[w] = T(w, g)
        <3>1. w \in Spans(window) /\ w[2] - w[1] <= m /\ w[2] - w[1] \in Nat
            BY SpansAreNumbers DEF SpansUpTo
        <3>2. g[w] = T(w, f)
            <4>1. CASE w[2] - w[1] = m
                BY <4>1
            <4>2. CASE w[2] - w[1] # m
                <5>1. w \in SpansUpTo(window, m - 1)
                    BY <1>3, <3>1, <4>2 DEF SpansUpTo
                <5> HIDE DEF T, g
                <5> QED
                    BY <2>3, <5>1
            <4> QED
                BY <4>1, <4>2
        <3>3. CASE w[2] - w[1] > MinWindow
            <4>1. EarlierHalf(w) \in SpansUpTo(window, m - 1) /\ LaterHalf(w) \in SpansUpTo(window, m - 1)
                <5>1. /\ EarlierHalf(w) \in Spans(window) /\ LaterHalf(w) \in Spans(window)
                      /\ Middle(w) \in Int /\ w[1] < Middle(w) /\ Middle(w) < w[2]
                      /\ w[1] \in Int /\ w[2] \in Int
                    BY <3>1, <3>3, HalvesAreShorter
                <5>2. /\ EarlierHalf(w)[2] - EarlierHalf(w)[1] = Middle(w) - w[1]
                      /\ LaterHalf(w)[2] - LaterHalf(w)[1] = w[2] - Middle(w)
                    BY DEF EarlierHalf, LaterHalf
                <5>3. Middle(w) - w[1] <= m - 1 /\ w[2] - Middle(w) <= m - 1
                    BY <1>3, <3>1, <5>1
                <5> QED
                    BY <5>1, <5>2, <5>3 DEF SpansUpTo
            <4>2. g[EarlierHalf(w)] = f[EarlierHalf(w)] /\ g[LaterHalf(w)] = f[LaterHalf(w)]
                BY <2>3, <4>1
            <4> HIDE DEF g
            <4> QED
                BY <3>2, <4>2
        <3>4. CASE w[2] - w[1] <= MinWindow
            <4> HIDE DEF g
            <4>1. T(w, f) = T(w, g)
                BY <3>4, ShortWindowsAskOnce
            <4> QED
                BY <3>2, <4>1
        <3> QED
            BY <1>3, <3>1, <3>3, <3>4
    <2>5. g = [w \in SpansUpTo(window, m) |-> g[w]]
        OBVIOUS
    <2>6. Answered(events, failing, window, m, g)
        <3> HIDE DEF g
        <3> QED
            BY <2>4, <2>5 DEF Answered
    <2> HIDE DEF g
    <2> QED
        BY <1>2, <2>6
<1> QED
    BY <1>4, <1>5

\* What the halving of a window returns: of each part what its request does.
LEMMA HalvingIs ==
    ASSUME NEW events, NEW failing, NEW window \in Int \X Int, window[1] < window[2]
    PROVE  \E f : /\ EntsoeDocuments(events, window, failing) = f[window]
                  /\ window \in Spans(window)
                  /\ \A w \in Spans(window) :
                        f[w] = WindowReturns(events, failing, w, f[EarlierHalf(w)], f[LaterHalf(w)])
<1> DEFINE n == window[2] - window[1]
           eq(f) == f = [w \in Spans(window) |->
                            LET D == InWindowOf(events, w)
                                middle == w[1] + (w[2] - w[1]) \div 2
                                halves == {f[<<w[1], middle>>], f[<<middle, w[2]>>]}
                            IN  IF w \in failing THEN Failed
                                ELSE IF Cardinality(D) < PageSize * MaxPages THEN D
                                ELSE IF w[2] - w[1] <= MinWindow
                                THEN First(D, PageSize * MaxPages)
                                ELSE IF \E h \in halves : h = Failed THEN Failed
                                ELSE UNION halves]
           f == CHOOSE f : eq(f)
<1>1. EntsoeDocuments(events, window, failing) = f[window]
    BY DEF EntsoeDocuments
<1>2. n \in Nat /\ SpansUpTo(window, n) = Spans(window)
    BY SpansAreNumbers DEF SpansUpTo
<1>3. window \in Spans(window)
    BY DEF Spans
<1>4. \A h : eq(h) <=> h = [w \in Spans(window) |->
                  WindowReturns(events, failing, w, h[EarlierHalf(w)], h[LaterHalf(w)])]
    BY DEF WindowReturns, EarlierHalf, LaterHalf, Middle
<1>5. \E h : eq(h)
    <2>1. PICK h : Answered(events, failing, window, n, h)
        BY <1>2, HalvingEnds
    <2> HIDE DEF eq, n
    <2> QED
        BY <1>2, <1>4, <2>1 DEF Answered
<1>6. eq(f)
    <2> HIDE DEF eq
    <2> QED
        BY <1>5
<1>7. f = [w \in Spans(window) |->
               WindowReturns(events, failing, w, f[EarlierHalf(w)], f[LaterHalf(w)])]
    <2> HIDE DEF eq, f
    <2> QED
        BY <1>4, <1>6
<1> HIDE DEF f
<1>8. \A w \in Spans(window) :
          f[w] = WindowReturns(events, failing, w, f[EarlierHalf(w)], f[LaterHalf(w)])
    <2> DEFINE V(w) == WindowReturns(events, failing, w, f[EarlierHalf(w)], f[LaterHalf(w)])
    <2>1. f = [w \in Spans(window) |-> V(w)]
        BY <1>7
    <2> HIDE DEF V
    <2>2. \A w \in Spans(window) : f[w] = V(w)
        BY <2>1
    <2> QED
        BY <2>2 DEF V
<1> QED
    BY <1>1, <1>3, <1>8
\* An event that meets a window meets one of its halves, and the other way round.
LEMMA EventsOfHalves ==
    ASSUME NEW events, \A d \in DOMAIN events : /\ events[d][1] \in Int /\ events[d][2] \in Int
                                                /\ events[d][1] < events[d][2],
           NEW window \in Int \X Int, NEW w \in Spans(window), w[2] - w[1] > MinWindow
    PROVE  InWindowOf(events, w) =
               InWindowOf(events, EarlierHalf(w)) \union InWindowOf(events, LaterHalf(w))
<1>1. /\ Middle(w) \in Int /\ w[1] < Middle(w) /\ Middle(w) < w[2]
      /\ w[1] \in Int /\ w[2] \in Int
    BY HalvesAreShorter
<1>2. /\ EarlierHalf(w)[1] = w[1] /\ EarlierHalf(w)[2] = Middle(w)
      /\ LaterHalf(w)[1] = Middle(w) /\ LaterHalf(w)[2] = w[2]
    BY DEF EarlierHalf, LaterHalf
<1>3. ASSUME NEW d \in DOMAIN events
      PROVE  Meets(events[d], w) <=>
                 Meets(events[d], EarlierHalf(w)) \/ Meets(events[d], LaterHalf(w))
    <2> DEFINE a == events[d][1]
               b == events[d][2]
    <2>1. a \in Int /\ b \in Int /\ a < b
        OBVIOUS
    <2>2. /\ Meets(events[d], w) <=> a < w[2] /\ w[1] < b
          /\ Meets(events[d], EarlierHalf(w)) <=> a < Middle(w) /\ w[1] < b
          /\ Meets(events[d], LaterHalf(w)) <=> a < w[2] /\ Middle(w) < b
        BY <1>2 DEF Meets
    <2> HIDE DEF a, b
    <2> QED
        BY <1>1, <2>1, <2>2
<1> QED
    BY <1>3 DEF InWindowOf

\* The documents of a window: all that meet it and no other, or the request has
\* failed.  Only a part that is not halved further and has more than an answer
\* can hold may lack some, and those are documents of that part
\* (entsoe_outages.py: EntsoeOutageSource._documents).
THEOREM HalvingLosesNothing ==
    ASSUME NEW events, IsFiniteSet(DOMAIN events),
           \A d \in DOMAIN events : /\ events[d][1] \in Int /\ events[d][2] \in Int
                                    /\ events[d][1] < events[d][2],
           NEW window \in Int \X Int, window[1] < window[2], NEW failing
    PROVE  LET got == EntsoeDocuments(events, window, failing)
           IN  \/ got = Failed
               \/ /\ got \subseteq InWindowOf(events, window)
                  /\ \A d \in InWindowOf(events, window) \ got : \E w \in Spans(window) :
                        /\ w[2] - w[1] <= MinWindow /\ d \in InWindowOf(events, w)
                        /\ Cardinality(InWindowOf(events, w)) >= PageSize * MaxPages
<1>1. PICK f : /\ EntsoeDocuments(events, window, failing) = f[window]
               /\ window \in Spans(window)
               /\ \A w \in Spans(window) :
                     f[w] = WindowReturns(events, failing, w, f[EarlierHalf(w)], f[LaterHalf(w)])
    BY HalvingIs
<1> DEFINE In(w) == InWindowOf(events, w)
           most == PageSize * MaxPages
           Full(w) == w[2] - w[1] <= MinWindow /\ Cardinality(In(w)) >= most
           Excused(d) == \E w \in Spans(window) : Full(w) /\ d \in In(w)
           Whole(w) == f[w] = Failed \/ (f[w] \subseteq In(w) /\ \A d \in In(w) \ f[w] : Excused(d))
           length(w) == w[2] - w[1]
           B == {length(w) : w \in {w \in Spans(window) : ~Whole(w)}}
<1>2. most \in Nat /\ MinWindow \in Nat /\ \A w : Cardinality(In(w)) \in Nat
    <2>1. \A w : In(w) \subseteq DOMAIN events
        BY DEF InWindowOf
    <2> HIDE DEF In
    <2>2. \A w : Cardinality(In(w)) \in Nat
        BY <2>1, FS_Subset, FS_CardinalityType
    <2> QED
        BY <2>2, PageAssumption
<1>3. \A w \in Spans(window) : length(w) \in Nat
    BY SpansAreNumbers
<1> HIDE DEF In, most
<1>4. ASSUME NEW w \in Spans(window), \A v \in Spans(window) : length(v) < length(w) => Whole(v)
      PROVE  Whole(w)
    <2> DEFINE a == f[EarlierHalf(w)]
               b == f[LaterHalf(w)]
    <2>1. f[w] = IF w \in failing THEN Failed
                 ELSE IF Cardinality(In(w)) < most THEN In(w)
                 ELSE IF length(w) <= MinWindow THEN First(In(w), most)
                 ELSE IF a = Failed \/ b = Failed THEN Failed
                 ELSE a \union b
        <3>1. f[w] = WindowReturns(events, failing, w, a, b)
            BY <1>1
        <3>2. UNION {a, b} = a \union b /\ ((\E h \in {a, b} : h = Failed) <=> a = Failed \/ b = Failed)
            OBVIOUS
        <3> HIDE DEF a, b
        <3> QED
            BY <3>1, <3>2 DEF WindowReturns, In, most
    <2>2. CASE w \in failing
        BY <2>1, <2>2
    <2>3. CASE w \notin failing /\ Cardinality(In(w)) < most
        BY <2>1, <2>3
    <2>4. CASE w \notin failing /\ ~(Cardinality(In(w)) < most) /\ length(w) <= MinWindow
        <3>1. f[w] \subseteq In(w)
            BY <2>1, <2>4 DEF First
        <3>2. Full(w)
            BY <1>2, <2>4
        <3> HIDE DEF Full
        <3> QED
            BY <3>1, <3>2
    <2>5. CASE w \notin failing /\ ~(Cardinality(In(w)) < most) /\ ~(length(w) <= MinWindow)
        <3>1. length(w) > MinWindow
            BY <1>2, <1>3, <2>5
        <3>2. /\ EarlierHalf(w) \in Spans(window) /\ LaterHalf(w) \in Spans(window)
              /\ Middle(w) \in Int /\ w[1] < Middle(w) /\ Middle(w) < w[2]
              /\ w[1] \in Int /\ w[2] \in Int
            BY <3>1, HalvesAreShorter
        <3>3. length(EarlierHalf(w)) < length(w) /\ length(LaterHalf(w)) < length(w)
            BY <3>2 DEF EarlierHalf, LaterHalf
        <3>4. Whole(EarlierHalf(w)) /\ Whole(LaterHalf(w))
            <4> HIDE DEF Whole, length
            <4> QED
                BY <1>4, <3>2, <3>3
        <3>5. In(w) = In(EarlierHalf(w)) \union In(LaterHalf(w))
            BY <3>1, EventsOfHalves DEF In
        <3> HIDE DEF Excused
        <3>6. CASE a = Failed \/ b = Failed
            BY <2>1, <2>5, <3>6
        <3>7. CASE a # Failed /\ b # Failed
            <4>1. f[w] = a \union b
                BY <2>1, <2>5, <3>7
            <4>2. /\ a \subseteq In(EarlierHalf(w)) /\ \A d \in In(EarlierHalf(w)) \ a : Excused(d)
                  /\ b \subseteq In(LaterHalf(w)) /\ \A d \in In(LaterHalf(w)) \ b : Excused(d)
                BY <3>4, <3>7
            <4> HIDE DEF a, b
            <4> QED
                BY <3>5, <4>1, <4>2
        <3> QED
            BY <3>6, <3>7
    <2> QED
        BY <2>2, <2>3, <2>4, <2>5
<1> HIDE DEF Whole
<1>5. B = {}
    <2> SUFFICES ASSUME B # {} PROVE FALSE
        OBVIOUS
    <2>1. B \in SUBSET Nat
        <3> HIDE DEF length
        <3> QED
            BY <1>3
    <2>2. PICK m \in B : \A k \in B : m <= k
        <3> HIDE DEF B
        <3> QED
            BY <2>1, LeastExists
    <2>3. PICK w \in Spans(window) : ~Whole(w) /\ m = length(w)
        BY <2>2
    <2>4. \A v \in Spans(window) : length(v) < length(w) => Whole(v)
        <3> SUFFICES ASSUME NEW v \in Spans(window), length(v) < length(w), ~Whole(v) PROVE FALSE
            OBVIOUS
        <3>1. length(v) \in B
            OBVIOUS
        <3>2. m <= length(v) /\ length(v) \in Nat /\ length(w) \in Nat
            BY <1>3, <2>2, <3>1
        <3> HIDE DEF length
        <3> QED
            BY <2>3, <3>2
    <2> QED
        BY <1>4, <2>3, <2>4
<1>6. Whole(window)
    BY <1>1, <1>5
<1> QED
    BY <1>1, <1>6 DEF Whole, In, most
=============================================================================
