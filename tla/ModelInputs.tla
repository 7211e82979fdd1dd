---------------------------- MODULE ModelInputs ----------------------------
(***************************************************************************)
(* What the price models are fed: the lagged price of the near-term model  *)
(* (price_lags.py), the gas price and its bands (gas_price.py), the stored *)
(* inputs of a slot (training_inputs.py, features.py, zone_weather.py),    *)
(* the neighbours' prices (cross_border.py), and what models.py does with  *)
(* the rows.                                                               *)
(*                                                                         *)
(* Slots and days are those of PriceSlots.  A model is what it was fitted  *)
(* on: its answers are right as far as its rows may be used for them.      *)
(***************************************************************************)
EXTENDS PriceSlots

CONSTANTS
    NearTermDays,   \* NEAR_TERM_DAYS
    GasLookback,    \* GAS_LOOKBACK_DAYS
    GasBandDays,    \* GAS_BAND_DAYS
    GasMaxBands,    \* GAS_MAX_BANDS
    MinRows,        \* MIN_STAGE1_ROWS
    Folds           \* STAGE1_FOLDS

ASSUME ModelAssumption ==
    /\ NearTermDays \in Nat \ {0} /\ GasLookback \in Nat /\ GasBandDays \in Nat \ {0}
    /\ GasMaxBands \in Nat /\ MinRows \in Nat /\ Folds \in Nat \ {0}

NoDay == 0 - 1
Values(f) == {f[x] : x \in DOMAIN f}
-----------------------------------------------------------------------------
(* price_lags.py: the known prices are a function of the slots that have one *)

\* PriceLagIndex.from_days: a day's list may reach into the next day, whose
\* own entry then counts
LagPrices(history) ==
    LET entry(s) == {k \in DOMAIN history :
                        LET i == s - Midnight[history[k].day] + 1
                        IN  i \in DOMAIN history[k].prices}
        price(s) == LET k == Max(entry(s))
                    IN  history[k].prices[s - Midnight[history[k].day] + 1]
    IN  [s \in {s \in 0..(Midnight[Len(Wall) + 1] - 1) : entry(s) # {} /\ price(s) # None} |->
            price(s)]
LastKnownDay(K) == IF DOMAIN K = {} THEN NoDay ELSE DayOf(Max(DOMAIN K))

\* Mutant: a training row too looks back from the last known day.
ReferenceLast(K, s) ==
    IF DayOf(s) > 1 /\ DayOf(s) = LastKnownDay(K) THEN DayOf(s) - 1 ELSE LastKnownDay(K)
ReferenceDay(K, s) ==
    IF LastKnownDay(K) = NoDay THEN NoDay
    ELSE IF DayOf(s) > LastKnownDay(K) THEN LastKnownDay(K) ELSE DayOf(s) - 1

\* Mutant: in whole days' worth of slots.
LagDaysElapsed(K, s) ==
    IF ReferenceDay(K, s) <= 0 THEN 1
    ELSE (s - Midnight[ReferenceDay(K, s)]) \div SlotsIn(1)
LagDays(K, s) ==
    IF ReferenceDay(K, s) = NoDay THEN NoDay ELSE DayOf(s) - ReferenceDay(K, s)

\* A slot's time of day on another day.  Of a repeated time it is the first
\* or the second as the slot's own is (datetime.fold); a skipped one is read
\* with the offset before or after the gap.
Repeats(s) == \E i \in 1..(IndexIn(s) - 1) : Wall[DayOf(s)][i] = WallTime(s)
\* Mutant: so many slots after midnight.
SlotOnByIndex(s, day) == Midnight[day] + IndexIn(s) - 1
SlotOn(s, day) ==
    LET at == {i \in 1..SlotsIn(day) : Wall[day][i] = WallTime(s)}
    IN  IF at = {} THEN Midnight[day] + WallTime(s) - (IF Repeats(s) THEN SlotsPerHour ELSE 0)
        ELSE Midnight[day] - 1 + (IF Repeats(s) THEN Max(at) ELSE Min(at))
SameSlot(K, s, day) ==
    IF day \in DOMAIN Wall /\ SlotOn(s, day) \in DOMAIN K THEN K[SlotOn(s, day)] ELSE None
LagColumn(K, s) ==
    IF ReferenceDay(K, s) = NoDay THEN None ELSE SameSlot(K, s, ReferenceDay(K, s))

\* Which model's price a slot gets: _near_term, _generate_predictions
Server(K, s, trained) ==
    IF trained /\ ReferenceDay(K, s) # NoDay /\ LagDays(K, s) <= NearTermDays
    THEN "near" ELSE "price"
-----------------------------------------------------------------------------
(* gas_price.py: daily prices, and the bands the model sees them as *)

GasBefore(gas, day) ==
    LET older == {d \in DOMAIN gas : d < day}
    IN  IF older = {} \/ Max(older) < day - GasLookback THEN None ELSE gas[Max(older)]

\* gas_band_edges: quantile number b of the known prices, in order, times the
\* number of bands
\* Mutant: the number of bands is rounded up.
GasBandsUp(days) == Min({GasMaxBands, (days + GasBandDays - 1) \div GasBandDays})
GasBands(days) == Min({GasMaxBands, days \div GasBandDays})
GasEdges(prices, days) ==
    LET bands == GasBands(days)
        edge(b) == LET at == (Len(prices) - 1) * b
                       k  == at \div bands + 1
                       part == at % bands
                   IN  bands * prices[k]
                       + (IF part = 0 THEN 0 ELSE part * (prices[k + 1] - prices[k]))
    IN  IF prices = << >> \/ bands < 2 THEN << >> ELSE [b \in 1..(bands - 1) |-> edge(b)]
GasBand(price, edges, bands) == Cardinality({b \in DOMAIN edges : edges[b] <= bands * price})
-----------------------------------------------------------------------------
(* features.py, zone_weather.py, training_inputs.py *)

Stored(f, key) == IF key \in DOMAIN f THEN f[key] ELSE None
\* zone_aggregates: over the points that have a value
ZoneMean(zone, s) ==
    LET V == {p \in DOMAIN zone : zone[p][s] # None}
    IN  IF V = {} THEN None ELSE MapThenSumSet(LAMBDA p : zone[p][s], V) \div Cardinality(V)
\* TrainingInputs.for_slot: prognoses by the slot's hour, the load by the slot
\* itself, the gas price known before its day
SlotInputs(in, s) ==
    [consumption |-> Stored(in.consumption, Hour(s)), solar |-> Stored(in.solar, Hour(s)),
     wind |-> Stored(in.wind, Hour(s)), load |-> Stored(in.load, s),
     gas |-> GasBefore(in.gas, DayOf(s)), zone |-> ZoneMean(in.zone, s)]
\* build_feature_row: the demand that sun and wind leave and the wind's share
\* are derived, when what they need is known
FeatureRow(x) ==
    [inputs |-> x,
     netDemand |-> IF None \in {x.consumption, x.solar, x.wind} THEN None
                   ELSE x.consumption - x.solar - x.wind,
     windShare |-> IF None \in {x.consumption, x.wind} \/ x.consumption <= 0 THEN None
                   ELSE (100 * x.wind) \div x.consumption]

\* get_all_historical_prices, _near_term: a row for each slot that has a price
TrainingRows(history, in) ==
    LET K == LagPrices(history)
        slots(k) == {i \in DOMAIN history[k].prices : history[k].prices[i] # None}
        row(k, i) == LET s == Midnight[history[k].day] + i - 1
                     IN  [start |-> s, price |-> history[k].prices[i],
                          inputs |-> FeatureRow(SlotInputs(in, s)), lag |-> LagColumn(K, s)]
    IN  {row(e[1], e[2]) : e \in UNION {{k} \X slots(k) : k \in DOMAIN history}}
\* _generate_time_features, _combine_features, _near_term
PredictionRows(K, in, first, days) ==
    {[start |-> s, inputs |-> FeatureRow(SlotInputs(in, s)), lag |-> LagColumn(K, s),
      model |-> Server(K, s, TRUE)] :
        s \in {s \in first..(first + days * SlotsIn(1) - 1) : s < Midnight[Len(Wall) + 1]}}
-----------------------------------------------------------------------------
(* models.py *)

\* with_masked_nordpool: the rows, then a copy without the prognoses of each
\* that has one
Masked(rows) ==
    rows \o [i \in 1..Len(SelectSeq(rows, LAMBDA r : r.known)) |->
                [SelectSeq(rows, LAMBDA r : r.known)[i] EXCEPT !.known = FALSE]]
\* Mutant: the copies are split with the rows.
SplitMasked(rows) ==
    LET all == Masked(rows)
        at  == (8 * Len(all)) \div 10
    IN  [train |-> SubSeq(all, 1, at), test |-> SubSeq(all, at + 1, Len(all))]
Split(rows) ==
    LET at == (8 * Len(rows)) \div 10
    IN  [train |-> Masked(SubSeq(rows, 1, at)), test |-> Masked(SubSeq(rows, at + 1, Len(rows)))]

\* _extract_hourly_pattern: each hour's total, how many prices it has, and
\* the hours the mean is taken over
HourOf(s) == WallTime(s) \div SlotsPerHour
\* Mutant: so many hours after midnight.
PatternBySlots(prices, first) ==
    LET of(h) == {i \in DOMAIN prices : prices[i] # None
                     /\ ((i - 1) % SlotsIn(1)) \div SlotsPerHour = h}
    IN  [h \in {h \in 0..(SlotsIn(1) \div SlotsPerHour - 1) : of(h) # {}} |->
            [sum |-> MapThenSumSet(LAMBDA i : prices[i], of(h)), n |-> Cardinality(of(h))]]
Pattern(prices, first) ==
    LET of(h) == {i \in DOMAIN prices : prices[i] # None
                     /\ HourOf(Midnight[first] + i - 1) = h}
    IN  [h \in {h \in 0..(SlotsIn(1) \div SlotsPerHour - 1) : of(h) # {}} |->
            [sum |-> MapThenSumSet(LAMBDA i : prices[i], of(h)), n |-> Cardinality(of(h))]]

\* _estimate_confidence, in percent: errors relative to the slot's price
\* scale when enough were measured, else what is known of the slot
AtMost(x, y) == Min({x, y})
\* Mutant: the learned confidence is not bounded again after its deductions.
ConfidenceUnbounded(e, known, ahead) ==
    IF e.count >= 5 /\ e.scale > 0
    THEN Max({10, 100 - (100 * e.mae) \div e.scale}) - AtMost(25, (30 * e.volatility) \div e.scale)
         - AtMost(15, 5 * e.temp) - AtMost(15, 3 * e.wind)
    ELSE Max({30, 80 - (IF known.wind THEN 0 ELSE 20) - (IF known.solar THEN 0 ELSE 10)
                  - (IF known.weekend THEN 5 ELSE 0) - 5 * Max({0, ahead})})
Confidence(e, known, ahead) ==
    IF e.count >= 5 /\ e.scale > 0
    THEN Max({10, Max({10, 100 - (100 * e.mae) \div e.scale})
                  - AtMost(25, (30 * e.volatility) \div e.scale)
                  - AtMost(15, 5 * e.temp) - AtMost(15, 3 * e.wind)})
    ELSE Max({30, 80 - (IF known.wind THEN 0 ELSE 20) - (IF known.solar THEN 0 ELSE 10)
                  - (IF known.weekend THEN 5 ELSE 0) - 5 * Max({0, ahead})})
-----------------------------------------------------------------------------
(* cross_border.py: a stage-1 model is the set of slots it was fitted on *)

\* Mutant: folds of days that are all as long as the first.
FoldByLength(s) == (s \div SlotsIn(1)) % Folds
Fold(s) == DayOf(s) % Folds
FitZone(priced) ==
    [f \in 0..(Folds - 1) |->
        LET train == {s \in priced : Fold(s) # f}
        IN  IF Cardinality(priced) < MinRows \/ Cardinality(train) < MinRows THEN {} ELSE train]
\* What a training row's column was learned from, and a prediction row's
OutOfSample(models, s) == models[Fold(s)]
InSample(models) == UNION Values(models)
=============================================================================
