---------------------------- MODULE MCPriceSlots ----------------------------
(***************************************************************************)
(* PriceSlots for TLC: an initial state is an operation's input, the one   *)
(* step computes its result, and the properties say what the result owes   *)
(* the input.  Days 1 and 4 are ordinary, day 2 skips an hour and day 3    *)
(* repeats one; an hour has two slots.                                     *)
(***************************************************************************)
EXTENDS PriceSlots

VARIABLES input, result

WallDays == << <<0, 1, 2, 3, 4, 5>>, <<0, 1, 4, 5>>, <<0, 1, 2, 3, 2, 3, 4, 5>>,
               <<0, 1, 2, 3, 4, 5>> >>
NoResult == [op |-> "none"]
Pick(s, S) == [i \in DOMAIN s |-> IF i \in S THEN s[i] ELSE None]

\* Samples of any start, length and overlap
Samples == [start : 0..12, end : {None, 4, 8}, price : {1, 2}]
GridInputs ==
    [op : {"grid"}, day : {3}, samples : {
        [i \in DOMAIN x |-> [x[i] EXCEPT !.start = @ + Midnight[3] * Ticks - 1,
                     !.end = IF @ = None THEN None ELSE @ + x[i].start + Midnight[3] * Ticks - 1]] :
            x \in [1..2 -> Samples] \union
                  [1..3 -> [start : 0..8, end : {None}, price : {1, 2}]]}]

\* The price that is right for a slot is its number and one.
Right(s) == s + 1
RightList(d) == [i \in 1..SlotsIn(d) |-> Right(Midnight[d] + i - 1)]
RightSamples(S) ==
    LET s == Ascending(S)
    IN  [i \in DOMAIN s |-> [start |-> s[i] * Ticks, end |-> None, price |-> Right(s[i])]]
SlotsOf(d) == Midnight[d]..(Midnight[d + 1] - 1)

\* Reads of the day before or of this one, some slots of it missing
Holes(d) == {{}} \union {{Midnight[d] + 1}, {Midnight[d], Midnight[d] + 1, Midnight[d] + 2}}
KnownLists(d) == {<< >>} \union
    {Pick(RightList(d), {i \in 1..SlotsIn(d) : Midnight[d] + i - 1 \notin h}) : h \in Holes(d)}
Previous(d) == UNION {{Lists(e, a, b) : a \in KnownLists(e), b \in KnownLists(e + 1)} :
                         e \in {d - 1, d}}
\* The sensor has timestamped prices, some of them missing; or a list a day,
\* perhaps that of the day before; all zeros; or only the current price.
Sensors(d) ==
    [prices : {RightSamples((SlotsOf(d) \union later) \ h) :
                  h \in Holes(d) \union {SlotsOf(d)}, later \in {{}, SlotsOf(d + 1)}},
     today : {<< >>}, tomorrow : {<< >>}, current : {Right(Midnight[d]), None}]
    \union
    [prices : {<< >>},
     today : {<< >>, RightList(d), RightList(d - 1), [i \in 1..SlotsIn(d) |-> 0]},
     tomorrow : {<< >>, RightList(d + 1), RightList(d)}, current : {Right(Midnight[d]), None}]
Stale(i) == \/ i.sensor.today = RightList(i.day - 1)
            \/ i.sensor.tomorrow = RightList(i.day)
ReadInputs(d) == [op : {"read"}, day : {d}, previous : Previous(d), sensor : Sensors(d),
                  on : BOOLEAN]

\* Stored rows of two days at a resolution, with a hole in them and an end
RowInputs ==
    {x \in [op : {"rows"}, day : {1, 2, 3}, each : {1, 2}, hole : {{}, {0, 1}, {2, 3, 4, 5}},
            until : 1..14, now : {0, 3, 11}, made : {0, 3}, rate : {0, 2}, hourly : BOOLEAN] :
        /\ x.made <= x.now /\ x.now < SlotsIn(x.day) * Ticks
        /\ x.until <= SlotsIn(x.day) + SlotsIn(x.day + 1)}
\* The prices are multiples of the slots of an hour, so its mean is exact.
RowPrice(s) == s * s * SlotsPerHour
Rows(x) ==
    LET slots == {s \in Midnight[x.day]..(Midnight[x.day] + x.until - 1) :
                     s % x.each = 0 /\ s - Midnight[x.day] \notin x.hole}
    IN  [i \in 1..Cardinality(slots) |->
            [start |-> Ascending(slots)[i] * Ticks, end |-> None,
             price |-> RowPrice(Ascending(slots)[i])]]
RateOf(x) == [d \in DOMAIN Wall |-> IF d = x.day + 1 THEN x.rate ELSE 1]
Horizon == Midnight[Len(Wall) + 1]
Predictions(from) ==
    [i \in 1..(Horizon - from) |-> Entry(from + i - 1, 7 * SlotsPerHour, "predicted")]
\* What a consumer pays: a tariff that depends on the time of day is added.
Schedule(w) == (w * w + 3) * SlotsPerHour
Consumer(list, d) == [i \in DOMAIN list |-> IF list[i] = None THEN None
                                            ELSE list[i] + Schedule(Wall[d][i])]
RowsResult(x) ==
    LET data   == DayaheadSpotData(Rows(x), RateOf(x), x.day)
        shown  == Lists(x.day, Consumer(data.today, x.day), Consumer(data.tomorrow, x.day + 1))
        now    == Midnight[x.day] * Ticks + x.now
        first  == FirstPredictionSlot(Midnight[x.day] * Ticks + x.made, KnownUntil(data))
        from(t) == WithTariffs(WithKnownPrices(data, Predictions(first), t), shown, data)
        series == ForecastResponse(from(now), now, Horizon, x.hourly)
        all    == ForecastResponse(from(Midnight[x.day] * Ticks), Midnight[x.day] * Ticks,
                                   Horizon, x.hourly)
    IN  [op |-> "rows", data |-> data, days |-> SplitLocalDays(MlPrices(data), x.day),
         first |-> first, now |-> now,
         series |-> series,
         predbat |-> [today \in BOOLEAN |-> PredbatSeries(all, x.day, today)],
         prices |-> Shown(DaySeries(shown.today, x.hourly)),
         stats |-> Stats(shown.today, x.hourly),
         complete |-> TomorrowComplete(data.tomorrow, x.day),
         shown |-> [s \in SlotsOf(x.day) |-> PriceAt(shown, s * Ticks, x.hourly)]]

\* Tariffs known of some slots
TariffInputs(d) ==
    [op : {"tariff"}, day : {d}, spot : KnownLists(d + 1), lacks : Holes(d),
     slot : 0..(Horizon - 1)]
TariffResult(x) ==
    LET spot == Lists(x.day, Pick(RightList(x.day), {i \in 1..SlotsIn(x.day) :
                         Midnight[x.day] + i - 1 \notin x.lacks}), x.spot)
        consumer == Lists(x.day, Consumer(RightList(x.day), x.day),
                                 Consumer(RightList(x.day + 1), x.day + 1))
    IN  [op |-> "tariff", known |-> TariffSlots(consumer, spot),
         tariff |-> Tariff(consumer, spot, x.slot)]

FitInputs == [op : {"fit"}, count : 0..9, fixed : {0, 3, 10}, each : 1..4, budget : 0..30]

SlotsInit ==
    /\ \/ input \in GridInputs \/ input \in RowInputs \/ input \in FitInputs
       \/ \E d \in {2, 3} : input \in ReadInputs(d)
       \/ \E d \in {1, 2, 3} : input \in TariffInputs(d)
    /\ result = NoResult

Compute(op, value) == input.op = op /\ result = NoResult /\ result' = value /\ UNCHANGED input

Grid == Compute("grid", [op |-> "grid", values |-> AlignToGrid(input.samples, input.day)])
Read ==
    LET now == Midnight[input.day] * Ticks
        next == RightSamples(SlotsOf(input.day + 1))
    IN  Compute("read", [op |-> "read",
            lists |-> CarryOver(input.previous, ReadSensor(input.sensor, now, input.day)),
            spot  |-> ReadSpot(input.sensor, input.on, next, now, input.day)])
ReadRows == Compute("rows", RowsResult(input))
FindTariff == Compute("tariff", TariffResult(input))
FitBudget == Compute("fit", [op |-> "fit", kept |-> Fit(input.count, input.fixed, input.each, input.budget)])

SlotsNext == Grid \/ Read \/ ReadRows \/ FindTariff \/ FitBudget
-----------------------------------------------------------------------------
\* A slot shows the price of a sample that has begun by the slot's end, the
\* last of those, and an undated end keeps it for an hour at most, or a filled
\* hole longer: a source that stops leaves the rest of the day missing.
NoPriceOutlasts ==
    result.op = "grid" =>
        \A i \in DOMAIN result.values :
            LET s == Midnight[input.day] + i - 1
                p == result.values[i]
                by(k) == Slot(input.samples[k].start) <= s
                stop(x) == IF x.end = None THEN x.start + SlotsPerHour * Ticks ELSE x.end
                begun == {k \in DOMAIN input.samples : by(k)}
            IN  p # None =>
                  \E k \in begun :
                     /\ input.samples[k].price = p
                     /\ s < Max({Slot(stop(input.samples[k])), Slot(input.samples[k].start) + 1})
                            + MaxFill

\* An hourly series (or any even one of at most an hour) has no hole.
EvenSeriesIsWhole ==
    (result.op = "grid" /\ Len(input.samples) = 3) =>
        LET at(k) == input.samples[k].start IN
        (/\ at(2) - at(1) = at(3) - at(2)
         /\ at(2) - at(1) \in 1..(SlotsPerHour * Ticks))
          => \A s \in Slot(at(1))..(Slot(at(3) + Max({at(2) - at(1), Ticks})) - 1) :
                s \in SlotsOf(input.day) =>
                    /\ result.values # << >>
                    /\ result.values[s - Midnight[input.day] + 1] # None

\* Whatever the sensor does at midnight, every price kept or read is the price
\* of the slot it is shown at (or of one a short hole before it); except that a
\* list without timestamps that was not rotated is taken to be today's.
OnlyUndatedListsMisdate ==
    result.op = "read" =>
        \/ Stale(input)
        \/ \A d \in {input.day, input.day + 1} :
              \A list \in {DayList(result.lists, d), DayList(result.spot, d)} :
                  \A i \in DOMAIN list :
                      list[i] = None \/ Right(Midnight[d] + i - 1) - list[i] \in 0..MaxFill

\* A price that was known of a day the read covers stays known.
NothingIsForgotten ==
    result.op = "read" =>
        \A d \in {input.day, input.day + 1} :
            LET before == DayList(input.previous, d)
                after  == DayList(result.lists, d)
            IN  \A i \in DOMAIN before :
                    before[i] # None => i \in DOMAIN after /\ after[i] # None

\* The one list the model is given of today and tomorrow is taken apart at
\* the same midnights it was put together at, on a DST day too.
DaysComeApart ==
    (result.op = "rows" /\ result.data.today # << >>) =>
        result.days = SelectSeq(<< [day |-> input.day, prices |-> result.data.today],
                                   [day |-> input.day + 1, prices |-> result.data.tomorrow] >>,
                                LAMBDA e : e.prices # << >>)

\* The forecast a user sees has each slot once, in order, the confirmed ones
\* first, and no slot is lost between the last confirmed one and the forecast,
\* although the forecast was made earlier and its start is not the boundary of
\* an hourly series.  (A hole among the confirmed slots stays.)
SeriesIsSeamless ==
    result.op = "rows" =>
        LET x == result.series
            step == IF input.hourly THEN SlotsPerHour ELSE 1
            known == {s \in KnownSlots(result.data) : s >= Slot(result.now)}
        IN  /\ \A i \in 1..(Len(x) - 1) :
                  /\ x[i].start < x[i + 1].start
                  /\ x[i + 1].source = "actual" => x[i].source = "actual"
                  /\ \/ x[i + 1].start = x[i].start + step
                     \/ \E s \in known : x[i + 1].start <= s
            /\ x # << >> /\ Last(x).start + step = Horizon

\* No confirmed slot is predicted, unless today has none, or the source's
\* prices are hourly: these are taken to end a quarter into their last hour.
OnlyHourlyIsPredictedAgain ==
    (result.op = "rows" /\ result.data.today # << >>) =>
        \/ result.first > Max(KnownSlots(result.data))
        \/ input.each > 1 /\ result.first + SlotsPerHour > Max(KnownSlots(result.data)) + 1

\* What the price sensor shows of a slot or an hour and what the forecast
\* entity shows of it as confirmed are the same price, except of an hour that
\* has begun: the forecast's mean then leaves out the slots that are over.
OnePrice ==
    result.op = "rows" =>
        \A i \in DOMAIN result.series :
            LET e == result.series[i] IN
            (e.source = "actual" /\ e.start \in SlotsOf(input.day)) =>
                \/ e.price = result.shown[e.start]
                \/ input.hourly /\ e.start < Slot(result.now)

\* The minimum and maximum a user sees are those of the prices he sees.
StatsAreOfShown ==
    (result.op = "rows" /\ Known(result.prices) # << >>) =>
        /\ result.stats.min = Min(ToSet(Known(result.prices)))
        /\ result.stats.max = Max(ToSet(Known(result.prices)))

\* Predbat's two lists hold each interval of the local day in one of them:
\* together they are seamless, and today's ends at the midnight of its day.
TwoListsOneSeries ==
    result.op = "rows" =>
        LET today == result.predbat[TRUE]
            later == result.predbat[FALSE]
            step  == IF input.hourly THEN SlotsPerHour ELSE 1
        IN  /\ \A i \in DOMAIN today : today[i].start \in SlotsOf(input.day)
            /\ \A i \in 1..(Len(later) - 1) :
                  later[i + 1].source = "predicted" /\ later[i].source = "predicted"
                      => later[i + 1].start = later[i].start + step
            /\ \A s \in SlotsOf(input.day + 1) :
                  \A e \in ToSet(result.series) :
                      e.start = s => \E f \in ToSet(later) : f.start = s /\ f.price = e.price

\* A tariff with a fixed daily schedule is right at every slot, on the days
\* with a skipped or a repeated hour too, if its time of day was ever known.
ScheduleIsKept ==
    result.op = "tariff" =>
        \/ result.tariff = Schedule(WallTime(input.slot))
        \/ \A k \in result.known : WallTime(k) # WallTime(input.slot)

\* Tomorrow counts as complete when every slot of it has a price, however
\* long today is.
CompleteIsWhole ==
    result.op = "rows" =>
        result.complete = (SlotsOf(input.day + 1) \subseteq KnownSlots(result.data))

\* The attributes fit, only whole hours are dropped, and none that would fit.
FitsAndNoLess ==
    (result.op = "fit" /\ result.kept < input.count) =>
        LET size(n) == input.fixed + input.each * n IN
        /\ result.kept = 0 \/ size(result.kept) <= input.budget
        /\ (input.count - result.kept) % SlotsPerHour = 0 \/ result.kept = 0
        /\ size(Min({result.kept + SlotsPerHour, input.count})) > input.budget

\* Taking prices from a source: whatever it lacks, repeats or cuts differently,
\* on days with a skipped or repeated hour as on others, a slot has its own
\* price or none (price_series.py, time_slots.py).
PricesKeepTheirSlots ==
    /\ NoPriceOutlasts /\ EvenSeriesIsWhole
    /\ OnlyUndatedListsMisdate /\ NothingIsForgotten
    /\ DaysComeApart /\ CompleteIsWhole

\* Giving prices on: the model and every entity read one series, without a
\* slot twice or left out, and make the same of it (spot_prices.py,
\* price_output.py, tariffs.py, sensor.py, predbat_sensor.py).
ShownPricesAgree ==
    /\ SeriesIsSeamless /\ OnlyHourlyIsPredictedAgain
    /\ OnePrice /\ StatsAreOfShown /\ TwoListsOneSeries
    /\ ScheduleIsKept /\ FitsAndNoLess
=============================================================================
