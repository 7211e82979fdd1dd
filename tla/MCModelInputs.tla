--------------------------- MODULE MCModelInputs ---------------------------
(***************************************************************************)
(* ModelInputs for TLC, added to MCOutageDocuments: an input is a stored   *)
(* price history, or what one of the smaller operations is given.          *)
(***************************************************************************)
EXTENDS MCOutageDocuments, ModelInputs

\* A history of some days; the last is known up to some slot, another has a
\* hole.  What is stored besides is the same throughout.
HistoryInputs ==
    [op : {"history"}, days : {D \in SUBSET {1, 2, 3, 4} : D # {}}, known : {2, 6, 8},
     hole : {{}, {1}, {3, 4}}, gas : {{1}, {1, 2, 3, 4}, {2, 4}}]
HistoryOf(x) ==
    LET days == Ascending(x.days)
        whole(k) == Pick(RightList(days[k]), 1..SlotsIn(days[k]) \ x.hole)
    IN  [k \in DOMAIN days |->
            [day |-> days[k],
             prices |-> IF k = Len(days) THEN SubSeq(whole(k), 1, Min({x.known, Len(whole(k))}))
                        ELSE whole(k)]]
StoredInputs(days) ==
    [consumption |-> [h \in 0..11 |-> 10 * h], solar |-> [h \in 0..5 |-> h], wind |-> [h \in 2..11 |-> h],
     load |-> [s \in 0..19 |-> 3 * s], gas |-> [d \in days |-> 100 + d],
     zone |-> [p \in {1, 2} |-> [s \in 0..23 |-> IF s % 3 = p THEN None ELSE p * s]]]
\* Forecasts run with the prices known before a slot, and the gas prices of
\* earlier days.
Cuts == {0, 3, 6, 8, 10, 13, 18, 20}
HistoryResult(x) ==
    LET K == LagPrices(HistoryOf(x))
        known(c) == Restrict(K, {s \in DOMAIN K : s < c})
        inputs(c) == StoredInputs({d \in x.gas : d < DayOf(c)})
    IN  [op |-> "history", rows |-> TrainingRows(HistoryOf(x), StoredInputs(x.gas)),
         served |-> [c \in Cuts |-> PredictionRows(known(c), inputs(c), c, 3)]]

\* Prices that depend on the local hour alone
HourPrice(d, i) == 10 + Wall[d][i] \div SlotsPerHour
PatternInputs == [op : {"pattern"}, day : {1, 2, 3}, hole : {{}, {1}, {3, 4, 5}}, both : BOOLEAN]
PatternPrices(x) ==
    LET list(d) == [i \in 1..SlotsIn(d) |-> HourPrice(d, i)]
        all == list(x.day) \o (IF x.both THEN list(x.day + 1) ELSE << >>)
    IN  Pick(all, DOMAIN all \ x.hole)

SplitInputs == [op : {"split"}, known : UNION {[1..n -> BOOLEAN] : n \in 0..8}]
BandInputs ==
    {x \in [op : {"bands"}, days : 0..9, gap : 0..9, apart : {1, 5}] : x.gap <= x.days}
\* Each day's price counts once for each of its slots, here twice.
DayPrice(x, d) == d + (IF d > x.gap THEN x.apart ELSE 0)
BandPrices(x) == [i \in 1..(2 * x.days) |-> DayPrice(x, (i + 1) \div 2)]

ConfidenceInputs ==
    [op : {"confidence"}, count : {4, 5}, scale : {0, 10}, mae : {0, 4, 9, 20},
     volatility : {0, 5, 30}, temp : {0, 2, 4}, wind : {0, 6}, wf : BOOLEAN, sf : BOOLEAN,
     weekend : BOOLEAN, ahead : {0 - 1, 0, 3, 8}]
ConfidenceOf(x, more) ==
    Confidence([count |-> x.count, scale |-> x.scale, mae |-> x.mae + more,
                volatility |-> x.volatility + more, temp |-> x.temp + more, wind |-> x.wind + more],
               [wind |-> x.wf, solar |-> x.sf, weekend |-> x.weekend], x.ahead + more)

CrossInputs ==
    [op : {"cross"}, days : SUBSET {1, 2, 3, 4}, hole : {{}, {0, 1, 2}, {6, 7}}]
Priced(x) == UNION {SlotsOf(d) : d \in x.days} \ x.hole

InputsInit ==
    /\ input \in HistoryInputs \union PatternInputs \union SplitInputs \union BandInputs
                 \union ConfidenceInputs \union CrossInputs
    /\ result = NoResult
ReadHistory == Compute("history", HistoryResult(input))
FindPattern == Compute("pattern",
    [op |-> "pattern", of |-> Pattern(PatternPrices(input), input.day)])
SplitRows == Compute("split",
    [op |-> "split",
     got |-> Split([i \in DOMAIN input.known |-> [start |-> i, known |-> input.known[i]]])])
FindBands ==
    LET edges == GasEdges(BandPrices(input), input.days)
    IN  Compute("bands",
            [op |-> "bands", bands |-> Len(edges) + 1,
             of |-> [d \in 1..input.days |->
                        GasBand(DayPrice(input, d), edges, GasBands(input.days))]])
Estimate == Compute("confidence",
    [op |-> "confidence", value |-> ConfidenceOf(input, 0), worse |-> ConfidenceOf(input, 1)])
FitCross ==
    LET models == FitZone(Priced(input))
    IN  Compute("cross",
            [op |-> "cross", models |-> models, ahead |-> InSample(models),
             column |-> [s \in 0..(Horizon - 1) |-> OutOfSample(models, s)]])
InputsNext == ReadHistory \/ FindPattern \/ SplitRows \/ FindBands \/ Estimate \/ FitCross
-----------------------------------------------------------------------------
\* A training row holds what a prediction row for its slot held when the
\* prices were known to its day's midnight; with the prices known a day less,
\* or ending in its day, the lagged price is the same or unknown.
TrainingMatchesServing ==
    result.op = "history" =>
        \A r \in result.rows : \A c \in Cuts : \A q \in result.served[c] :
            LET day == DayOf(r.start)
                recent == \E k \in result.rows : k.start < c /\ DayOf(k.start) >= day - 1
            IN  q.start = r.start =>
                    /\ c >= Midnight[day] => q.inputs = r.inputs
                    /\ recent => q.lag \in {r.lag, None}
                    /\ recent /\ c >= Midnight[day] => q.lag = r.lag

\* A lagged price is that of the same time of day on an earlier day, known at
\* the time; where the clocks skip the time, or repeat it, of the hour next to it.
LagIsOfTheSameTime ==
    result.op = "history" =>
        \A c \in DOMAIN result.served : \A r \in result.rows \union {
                [start |-> q.start, lag |-> q.lag] : q \in result.served[c]} :
            r.lag # None =>
                LET s == r.lag - 1 IN
                /\ DayOf(s) < DayOf(r.start)
                /\ \/ WallTime(s) = WallTime(r.start)
                   \/ /\ \A i \in DOMAIN Wall[DayOf(s)] : Wall[DayOf(s)][i] # WallTime(r.start)
                      /\ Abs(WallTime(s) - WallTime(r.start)) = SlotsPerHour

\* The near-term model serves the days it was chosen for, to their last slot:
\* on a day with a skipped or repeated hour neither more nor less.
NearTermIsNear ==
    result.op = "history" =>
        \A c \in DOMAIN result.served :
            LET known == {DayOf(r.start) : r \in {r \in result.rows : r.start < c}}
                near(s) == \E d \in known : DayOf(s) <= d + NearTermDays
            IN  \A q \in result.served[c] : (q.model = "near") = near(q.start)

\* Prices that depend on the local hour alone give each hour its own price,
\* whatever is missing and whatever hours the day lacks or repeats.
PatternKeepsHours ==
    result.op = "pattern" =>
        \A h \in DOMAIN result.of : result.of[h].sum = (10 + h) * result.of[h].n

\* The rows the holdout error is measured on are newer than the fitted ones,
\* and the copy of a row without its prognosis is on the row's side.
SplitIsClean ==
    result.op = "split" =>
        LET train == ToSet(result.got.train)
            test  == ToSet(result.got.test)
        IN  /\ \A r \in train, q \in test : r.start < q.start
            /\ {r.start : r \in train \union test} = DOMAIN input.known
            /\ \A i \in DOMAIN input.known :
                  Cardinality({r \in train \union test : r.start = i}) =
                      IF input.known[i] THEN 2 ELSE 1

\* If every day of the window has a price of its own, every level the model
\* can split on covers the days it should, and the levels are in the order
\* of the prices.
BandsAreEven ==
    result.op = "bands" =>
        /\ \A d, e \in DOMAIN result.of : d < e => result.of[d] <= result.of[e]
        /\ result.bands > 1 =>
              \A b \in 0..(result.bands - 1) :
                  Cardinality({d \in DOMAIN result.of : result.of[d] = b}) >= GasBandDays

\* A confidence is between 10 and 100 percent, and larger errors or a more
\* distant slot never raise it.
ConfidenceIsBounded ==
    result.op = "confidence" => result.value \in 10..100 /\ result.worse <= result.value

\* The neighbour's price in a training row comes from a model that saw no
\* price of the row's local day; the models together saw all there were.
NoRowSeesItsDay ==
    result.op = "cross" =>
        /\ \A s \in DOMAIN result.column : \A k \in result.column[s] : DayOf(k) # DayOf(s)
        /\ (\A f \in DOMAIN result.models : result.models[f] # {}) => result.ahead = Priced(input)

\* The model's inputs: a row is trained with what a prediction for its slot
\* would have known, its error is measured on rows it was not fitted to, and
\* what is derived of prices follows the local time (price_lags.py, models.py,
\* gas_price.py, cross_border.py).
InputsAreOfTheirTime ==
    /\ TrainingMatchesServing /\ NoRowSeesItsDay /\ SplitIsClean
    /\ LagIsOfTheSameTime /\ NearTermIsNear /\ PatternKeepsHours
    /\ BandsAreEven /\ ConfidenceIsBounded
=============================================================================
