----------------------------- MODULE PriceSlots -----------------------------
(***************************************************************************)
(* Price series on the slot grid: placing a source's prices on local days  *)
(* (price_series.py, time_slots.py, sensor_reader.py), what the model and  *)
(* the entities read of them (spot_prices.py, price_output.py, tariffs.py, *)
(* sensor.py).                                                             *)
(*                                                                         *)
(* Time is in ticks, Ticks to a slot, from the midnight of day 1.  A local *)
(* day has as many slots as Wall has wall-clock times for it, so a DST day *)
(* is shorter or longer than the others.  A day's list has one price per   *)
(* slot; None is a missing one, and << >> a day without prices.  Prices    *)
(* are integers; a mean is taken of multiples of what it divides by.       *)
(***************************************************************************)
EXTENDS Integers, Sequences, FiniteSets, SequencesExt

CONSTANTS
    Wall,           \* the wall-clock time of each slot of each local day
    Ticks,          \* ticks of a slot: where between two slots a time may be
    SlotsPerHour,   \* SLOTS_PER_HOUR
    DaySlots,       \* 24 hours
    MaxFill,        \* MAX_FILL_SLOTS
    Surcharge,      \* added per unit before VAT, in the unit shown
    Vat             \* the factor (1 + VAT), in percent

ASSUME WallAssumption ==
    /\ Wall \in Seq(Seq(Nat))
    /\ \A d \in DOMAIN Wall : Len(Wall[d]) > 0 /\ Len(Wall[d]) % SlotsPerHour = 0
\* The clocks change by an hour: a day has each time once, or lacks an hour's
\* times from some time on, or has those of such an hour twice.
ASSUME ClockAssumption ==
    /\ DaySlots \in Nat \ {0}
    /\ \A d \in DOMAIN Wall :
          \/ Wall[d] = [i \in 1..DaySlots |-> i - 1]
          \/ \E g \in SlotsPerHour..(DaySlots - 2 * SlotsPerHour) :
                \/ Wall[d] = [i \in 1..(DaySlots - SlotsPerHour) |->
                                 IF i <= g THEN i - 1 ELSE i - 1 + SlotsPerHour]
                \/ Wall[d] = [i \in 1..(DaySlots + SlotsPerHour) |->
                                 IF i <= g + SlotsPerHour THEN i - 1
                                 ELSE i - 1 - SlotsPerHour]
ASSUME TicksAssumption == Ticks \in Nat \ {0}
ASSUME HourAssumption == SlotsPerHour \in Nat \ {0} /\ MaxFill \in Nat
ASSUME PriceAssumption == Surcharge \in Int /\ Vat \in Nat

None == 0 - 1000
Ascending(S) == [i \in 1..Cardinality(S) |->
                    CHOOSE x \in S : Cardinality({y \in S : y < x}) = i - 1]
Known(s) == SelectSeq(s, LAMBDA p : p # None)
-----------------------------------------------------------------------------
(* time_slots.py *)

Slot(t) == t \div Ticks                   \* floor_to_slot
CeilSlot(t) == 0 - ((0 - t) \div Ticks)   \* ceil_to_slot
Hour(s) == s \div SlotsPerHour            \* floor_to_slot with 60 minutes

Midnight[d \in 1..(Len(Wall) + 1)] ==
    IF d = 1 THEN 0 ELSE Midnight[d - 1] + Len(Wall[d - 1])
SlotsIn(d) == Midnight[d + 1] - Midnight[d]
DayOf(s) == CHOOSE d \in DOMAIN Wall : Midnight[d] <= s /\ s < Midnight[d + 1]
IndexIn(s) == s - Midnight[DayOf(s)] + 1
WallTime(s) == Wall[DayOf(s)][IndexIn(s)]

\* known is the end of the confirmed prices, a tick, or None.
FirstPredictionSlot(now, known) ==
    IF known = None THEN Slot(now) ELSE Max({Slot(now), CeilSlot(known)})

\* Mutant: tomorrow is taken to be as long as today.
TomorrowAsLong(prices, d) == Len(Known(prices)) >= SlotsIn(d)
\* Whether tomorrow has a price for each slot of the day after d.
TomorrowComplete(prices, d) == Len(Known(prices)) >= SlotsIn(d + 1)
-----------------------------------------------------------------------------
(* price_series.py *)

\* Mutant: a sample without an end lasts a slot.
ResolutionSlot(starts) == Ticks
\* How long a sample without an end lasts: the least gap between two starts.
Resolution(starts) ==
    LET gaps == {p[2] - p[1] : p \in {p \in starts \X starts : p[1] < p[2]}}
    IN  IF gaps = {} THEN Ticks
        ELSE Min({Max({Min(gaps), Ticks}), SlotsPerHour * Ticks})

\* The slots a sample fills, one at least.
Covers(x, resolution) ==
    LET end == IF x.end = None THEN x.start + resolution ELSE x.end
    IN  Slot(x.start)..Max({Slot(end) - 1, Slot(x.start)})

\* Mutant: a hole is filled whatever its length.
FilledAll(values) ==
    [i \in DOMAIN values |->
        LET before == {j \in DOMAIN values : j <= i /\ values[j] # None}
            after  == {j \in DOMAIN values : j >= i /\ values[j] # None}
        IN  IF before # {} /\ after # {} THEN values[Max(before)] ELSE None]

\* Holes of at most MaxFill slots between two prices take the earlier price.
Filled(values) ==
    [i \in DOMAIN values |->
        LET before == {j \in DOMAIN values : j <= i /\ values[j] # None}
            after  == {j \in DOMAIN values : j >= i /\ values[j] # None}
        IN  IF /\ before # {} /\ after # {}
               /\ Min(after) - Max(before) - 1 <= MaxFill
            THEN values[Max(before)] ELSE values[i]]

\* align_to_grid: of the samples that cover a slot, the one that starts last
\* is written last; of two that start together, the later in the list.
AlignToGrid(samples, d) ==
    LET resolution == Resolution({samples[i].start : i \in DOMAIN samples})
        over(s) == {i \in DOMAIN samples : s \in Covers(samples[i], resolution)}
        last(S) == CHOOSE i \in S : \A j \in S :
                      \/ samples[j].start < samples[i].start
                      \/ samples[j].start = samples[i].start /\ j <= i
        values  == [i \in 1..SlotsIn(d) |->
                      LET S == over(Midnight[d] + i - 1)
                      IN  IF S = {} THEN None ELSE samples[last(S)].price]
    IN  IF Known(values) = << >> THEN << >> ELSE Filled(values)

\* Mutant: every day is as long as the first.
SplitEvenly(prices, first) ==
    LET n == SlotsIn(first)
        part(k) == SubSeq(prices, k * n + 1, Min({(k + 1) * n, Len(prices)}))
    IN  [k \in 1..((Len(prices) + n - 1) \div n) |->
            [day |-> first + k - 1, prices |-> part(k - 1)]]

\* split_local_days
SplitLocalDays(prices, first) ==
    LET from(d) == Midnight[d] - Midnight[first]
        days    == {d \in DOMAIN Wall : d >= first /\ from(d) < Len(prices)}
        part(d) == SubSeq(prices, from(d) + 1, Min({from(d + 1), Len(prices)}))
    IN  [k \in 1..Cardinality(days) |->
            [day |-> first + k - 1, prices |-> part(first + k - 1)]]

\* is_invalid_price_series
Invalid(prices) == Known(prices) # << >> /\ \A i \in DOMAIN prices : prices[i] \in {0, None}

Lists(d, today, tomorrow) == [day |-> d, today |-> today, tomorrow |-> tomorrow]
DayList(data, d) == IF d = data.day THEN data.today
                    ELSE IF d = data.day + 1 THEN data.tomorrow ELSE << >>

\* Mutant: a read that has any price replaces the whole list.
MergedWhole(new, old) == IF old # << >> /\ new = << >> THEN old ELSE new

\* A price the new list has wins; it keeps the old one's where it has none.
Merged(new, old) ==
    IF old # << >> /\ new = << >> THEN old
    ELSE IF Len(new) # Len(old) THEN new
    ELSE [i \in DOMAIN new |-> IF new[i] = None THEN old[i] ELSE new[i]]

\* carry_over_day_prices
CarryOver(previous, read) ==
    Lists(read.day, Merged(read.today, DayList(previous, read.day)),
                    Merged(read.tomorrow, DayList(previous, read.day + 1)))
-----------------------------------------------------------------------------
(* sensor_reader.py: a price sensor's attributes are a list of prices with *)
(* timestamps, a list per day without, and the current price.              *)

\* _positional_day: used if it has a price for every slot, or every hour.
PositionalDay(values, d) ==
    LET n == IF Len(values) = SlotsIn(d) THEN 1
             ELSE IF Len(values) = SlotsIn(d) \div SlotsPerHour THEN SlotsPerHour ELSE 0
        from(i) == (Midnight[d] + i * n) * Ticks
        samples == [i \in DOMAIN values |->
                      [start |-> from(i - 1), end |-> from(i), price |-> values[i]]]
    IN  IF n = 0 THEN << >>
        ELSE AlignToGrid(SelectSeq(samples, LAMBDA x : x.price # None), d)

\* Mutant: a day of zeros is not rejected.
AcceptedAll(prices) == prices
\* _reject_invalid_day
Accepted(prices) == IF Invalid(prices) THEN << >> ELSE prices

\* read_stromligning_sensor, at the tick now of the day d
ReadSensor(sensor, now, d) ==
    LET dated(e)   == AlignToGrid(sensor.prices, e)
        placed(e, values) == IF dated(e) # << >> THEN dated(e) ELSE PositionalDay(values, e)
        today == placed(d, sensor.today)
        current == << [start |-> Slot(now) * Ticks, end |-> None, price |-> sensor.current] >>
    IN  Lists(d,
              Accepted(IF today = << >> /\ sensor.current # None
                       THEN AlignToGrid(current, d) ELSE today),
              Accepted(placed(d + 1, sensor.tomorrow)))

\* read_stromligning_tomorrow_sensor and read_spot_prices: the tomorrow
\* sensor's list replaces the price sensor's if it is on and has prices.
ReadSpot(sensor, on, tomorrow, now, d) ==
    LET read == ReadSensor(sensor, now, d)
        next == Accepted(AlignToGrid(tomorrow, d + 1))
    IN  IF on /\ next # << >> THEN [read EXCEPT !.tomorrow = next] ELSE read
-----------------------------------------------------------------------------
(* spot_prices.py *)

\* dayahead_spot_data and dayahead_prices_by_day: stored rows become a list
\* per local day, in the currency if its rate is known.
RowsOf(rows, d) == SelectSeq(rows, LAMBDA r : DayOf(Slot(r.start)) = d)
DayPrices(rows, rate, d) ==
    LET converted == [i \in DOMAIN RowsOf(rows, d) |->
                        [RowsOf(rows, d)[i] EXCEPT !.price = @ * rate[d]]]
    IN  IF rate[d] = 0 THEN << >> ELSE Accepted(AlignToGrid(converted, d))
DayaheadSpotData(rows, rate, d) ==
    LET raw(e) == IF DayPrices(rows, rate, e) = << >> THEN {}
                  ELSE {r.start : r \in ToSet(RowsOf(rows, e))}
    IN  [day |-> d, today |-> DayPrices(rows, rate, d),
         tomorrow |-> DayPrices(rows, rate, d + 1), raw |-> raw(d) \union raw(d + 1)]

\* Mutant: the known prices end where the last one starts.
KnownUntilLastStart(data) ==
    IF data.today = << >> \/ data.raw = {} THEN None ELSE Max(data.raw)
\* ml_price_inputs, extract_latest_known_timestamp: the model's prices, and a
\* quarter past the start of the last raw item.
MlPrices(data) == IF data.today = << >> THEN << >> ELSE data.today \o data.tomorrow
KnownUntil(data) ==
    IF data.today = << >> \/ data.raw = {} THEN None ELSE Max(data.raw) + Ticks

\* slot_prices: the price of each known slot of today and tomorrow.
KnownSlots(data) ==
    {s \in Midnight[data.day]..(Midnight[data.day + 2] - 1) :
        LET list == DayList(data, DayOf(s))
        IN  IndexIn(s) \in DOMAIN list /\ list[IndexIn(s)] # None}
SlotPrice(data, s) == DayList(data, DayOf(s))[IndexIn(s)]

Entry(s, price, source) == [start |-> s, price |-> price, source |-> source]

\* Mutant: the predictions follow whatever is known, from the first on.
WithKnownPricesOverlap(data, predictions, since) ==
    LET actual == Ascending({s \in KnownSlots(data) : s >= Slot(since)})
    IN  [i \in DOMAIN actual |-> Entry(actual[i], SlotPrice(data, actual[i]), "actual")]
        \o SelectSeq(predictions, LAMBDA p : p.start >= Slot(since))

\* with_known_prices
WithKnownPrices(data, predictions, since) ==
    LET actual   == Ascending({s \in KnownSlots(data) : s >= Slot(since)})
        boundary == IF actual = << >> THEN Slot(since) ELSE Last(actual) + 1
    IN  [i \in DOMAIN actual |-> Entry(actual[i], SlotPrice(data, actual[i]), "actual")]
        \o SelectSeq(predictions, LAMBDA p : p.start >= boundary)
-----------------------------------------------------------------------------
(* price_output.py, tariffs.py, sensor.py, services.py *)

Mean(s) == IF s = << >> THEN None ELSE SumFunction(s) \div Len(s)

\* hourly_averages: of a day's list, per hour from midnight.
HourlyAverages(prices) ==
    [h \in 1..(Len(prices) \div SlotsPerHour) |->
        Mean(Known(SubSeq(prices, (h - 1) * SlotsPerHour + 1, h * SlotsPerHour)))]

\* Mutant: an hour is confirmed if any of its slots is.
SourceOfAny(slots) ==
    IF \E i \in DOMAIN slots : slots[i].source = "actual" THEN "actual" ELSE "predicted"
SourceOf(slots) ==
    IF \A i \in DOMAIN slots : slots[i].source = "actual" THEN "actual" ELSE "predicted"

\* hourly_forecast: of a series, per hour on the UTC timeline.
HourlyForecast(series) ==
    LET hours == Ascending({Hour(series[i].start) : i \in DOMAIN series})
        of(h) == SelectSeq(series, LAMBDA p : Hour(p.start) = h)
    IN  [k \in DOMAIN hours |->
            Entry(hours[k] * SlotsPerHour,
                  Mean([i \in DOMAIN of(hours[k]) |-> of(hours[k])[i].price]),
                  SourceOf(of(hours[k])))]

\* price_at: what the price sensor shows at the tick t of data.day
PriceAt(data, t, hourly) ==
    LET list == IF hourly THEN HourlyAverages(data.today) ELSE data.today
        i    == IF hourly THEN (IndexIn(Slot(t)) - 1) \div SlotsPerHour + 1
                ELSE IndexIn(Slot(t))
    IN  IF i \in DOMAIN list THEN list[i] ELSE None

\* convert: what is paid for a price, Vat in percent, rounded half to even.
Convert(p) ==
    LET x == (p + Surcharge) * Vat
        q == x \div 100
        r == x % 100
    IN  IF r > 50 \/ (r = 50 /\ q % 2 = 1) THEN q + 1 ELSE q

\* day_series, day_prices
DaySeries(list, hourly) == IF hourly THEN HourlyAverages(list) ELSE list
Shown(list) == [i \in DOMAIN list |-> IF list[i] = None THEN None ELSE Convert(list[i])]

\* Mutant: an hourly entity's statistics are of the quarters.
StatsOfSlots(list, hourly) ==
    LET known == Known(list)
    IN  IF known = << >> THEN [min |-> None, max |-> None]
        ELSE [min |-> Convert(Min(ToSet(known))), max |-> Convert(Max(ToSet(known)))]
\* DayPriceStatSensor: the day's minimum and maximum
Stats(list, hourly) ==
    LET known == Known(DaySeries(list, hourly))
    IN  IF known = << >> THEN [min |-> None, max |-> None]
        ELSE [min |-> Convert(Min(ToSet(known))), max |-> Convert(Max(ToSet(known)))]

\* Mutant: the day is split in UTC days of the usual length.
PredbatSeriesUtc(entries, d, today) ==
    SelectSeq(entries, LAMBDA e : (e.start < Midnight[d] + Len(Wall[1])) = today)
\* PredbatRateSensor._series: of a series from midnight, today's entries or
\* those of tomorrow and the days after.
PredbatSeries(entries, d, today) ==
    SelectSeq(entries, LAMBDA e : (e.start < Midnight[d + 1]) = today)

\* forecast_response: the window of the series that get_forecast returns.
ForecastResponse(series, start, hours, hourly) ==
    LET entries == IF hourly THEN HourlyForecast(series) ELSE series
        first   == IF hourly THEN Hour(Slot(start)) * SlotsPerHour ELSE Slot(start)
    IN  SelectSeq(entries, LAMBDA e : /\ e.start >= first
                                      /\ e.start < first + hours * SlotsPerHour)

\* TariffSchedule.from_prices: the slots both prices are known of.
TariffSlots(consumer, spot) == KnownSlots(consumer) \intersect KnownSlots(spot)
TariffOf(consumer, spot, s) == SlotPrice(consumer, s) - SlotPrice(spot, s)

\* Mutant: the latest known day's slot at the same position in its day.
SameTimeByIndex(S, s) == {k \in S : IndexIn(k) = IndexIn(s)}
SameTime(S, s) == {k \in S : WallTime(k) = WallTime(s)}

\* TariffSchedule.at: a slot that is not known takes the latest known one at
\* the same time of day; else at the latest earlier time, else (by wrapping
\* round) at the latest time of all.
TariffSlot(S, s) ==
    LET earlier == {WallTime(k) : k \in {k \in S : WallTime(k) < WallTime(s)}}
        times   == IF earlier # {} THEN earlier ELSE {WallTime(k) : k \in S}
    IN  IF s \in S THEN s
        ELSE IF SameTime(S, s) # {} THEN Max(SameTime(S, s))
        ELSE Max({k \in S : WallTime(k) = Max(times)})
Tariff(consumer, spot, s) ==
    LET S == TariffSlots(consumer, spot)
    IN  IF S = {} THEN 0 ELSE TariffOf(consumer, spot, TariffSlot(S, s))

\* with_tariffs
WithTariffs(series, consumer, spot) ==
    [i \in DOMAIN series |->
        [series[i] EXCEPT !.price = @ + Tariff(consumer, spot, series[i].start)]]

\* Mutant: entries are dropped until the rest fits, whole hours or not.
FitSlots(count, fixed, each, budget) ==
    Max({n \in 0..count : n = 0 \/ fixed + each * n <= budget})
\* fit_compact, fit_entries: how many of count entries of a size are kept in a
\* budget.  Each round drops whole hours, as many as the mean size suggests.
Fit(count, fixed, each, budget) ==
    LET ceil(a, b) == (a + b - 1) \div b
        size(n)    == fixed + each * n
        drop(n)    == ceil(ceil(size(n) - budget, Max({1, size(n) \div n})),
                           SlotsPerHour) * SlotsPerHour
        fit[n \in 0..count] ==
            IF n = 0 \/ size(n) <= budget THEN n ELSE fit[Max({0, n - drop(n)})]
    IN  fit[count]
=============================================================================
