------------------------- MODULE MCSeriesDocuments -------------------------
(***************************************************************************)
(* SeriesDocuments for TLC, added to MCModelInputs: an input is what a     *)
(* source published, written in one of the forms it uses.                  *)
(***************************************************************************)
EXTENDS MCModelInputs, SeriesDocuments

\* The prices of four slots, the first two and the last two each an hour,
\* as a curve or as energy-charts' lists.  A curve leaves out what it lacks,
\* and the form with blocks what is as before: it has no hole.
FormInputs ==
    {x \in [op : {"form"}, prices : [1..4 -> {None, 1, 2}],
            form : {"points", "blocks", "hours", "hour_blocks", "charts", "chart_hours"}] :
        /\ x.form \in {"blocks", "hour_blocks"} => \A i \in 1..4 : x.prices[i] # None
        /\ x.form \in {"hours", "hour_blocks", "chart_hours"} =>
              x.prices[1] = x.prices[2] /\ x.prices[3] = x.prices[4]}
Hours(prices) == <<prices[1], prices[3]>>
CurveOf(list, step, blocks) ==
    LET kept == {i \in DOMAIN list : list[i] # None /\ (blocks /\ i > 1 => list[i] # list[i - 1])}
    IN  [start |-> 1, step |-> step, end |-> 1 + step * Len(list), blocks |-> blocks,
         points |-> [i \in kept |-> list[i]]]
FormRows(x) ==
    CASE x.form = "points"      -> EntsoePrices({CurveOf(x.prices, 1, FALSE)})
      [] x.form = "blocks"      -> EntsoePrices({CurveOf(x.prices, 1, TRUE)})
      [] x.form = "hours"       -> EntsoePrices({CurveOf(Hours(x.prices), 2, FALSE)})
      [] x.form = "hour_blocks" -> EntsoePrices({CurveOf(Hours(x.prices), 2, TRUE)})
      [] x.form = "charts"      -> ChartsAnswer("ok", <<1, 2, 3, 4>>, x.prices).rows
      [] x.form = "chart_hours" -> ChartsAnswer("ok", <<1, 3>>, Hours(x.prices)).rows

\* energy-charts' price of a slot is even, ENTSO-E's odd.
PriceInputs ==
    [op : {"fetch"}, charts : SUBSET (1..4), status : {"ok", "no_content", "failed"},
     entsoe : SUBSET (1..4), ok : BOOLEAN, key : BOOLEAN]
ChartsOf(x) ==
    ChartsAnswer(x.status, [i \in 1..4 |-> i],
                 [i \in 1..4 |-> IF i \in x.charts THEN 2 * i ELSE None])
EntsoeOf(x) ==
    IF x.ok THEN Answer({[slot |-> s, price |-> 2 * s + 1] : s \in x.entsoe}) ELSE NoAnswer

\* The extremes of some days: a value a day, or one a slot.
LoadInputs ==
    {x \in [op : {"load"}, first : 1..4, last : 1..4, low : [1..4 -> {0, 1, 2}],
            high : [1..4 -> {1, 2}], daily : BOOLEAN, blocks : BOOLEAN] :
        /\ x.first <= x.last
        /\ \A d \in 1..4 : d \notin x.first..x.last => x.low[d] = 0 /\ x.high[d] = 1}
LoadSeries(x, low) ==
    LET days == x.first..x.last
        start == Midnight[x.first]
        of(d) == IF low THEN x.low[d] ELSE x.high[d]
        other(d) == IF low THEN of(d) + 1 ELSE of(d) - 1
        value(n) == IF x.daily THEN of(x.first + n - 1)
                    ELSE LET s == start + n - 1
                         IN  IF s = Midnight[DayOf(s)] + 1 THEN other(DayOf(s)) ELSE of(DayOf(s))
        count == IF x.daily THEN x.last - x.first + 1 ELSE Midnight[x.last + 1] - start
    IN  [low |-> low, blocks |-> x.blocks, start |-> start, end |-> Midnight[x.last + 1],
         step |-> IF x.daily THEN DaySlots ELSE 1,
         points |-> [n \in {n \in 1..count : x.blocks /\ n > 1 => value(n) # value(n - 1)} |-> value(n)]]

\* Week 1 is days 2 and 3, the weeks about it are cut to a day each.
CurveInputs ==
    [op : {"curve"}, week : 0..2, published : SUBSET (1..4), cached : SUBSET (0..2),
     failing : SUBSET (0..2)]
CachedWeeks(x) == [w \in x.cached |-> {d \in x.published : Week(d) = w}]

PrognosisInputs ==
    [op : {"prognosis"}, consumption : UNION {[S -> {None, 1}] : S \in SUBSET (1..4)},
     production : UNION {[S -> {None, 5}] : S \in SUBSET (1..4)}]
\* Two updates; the bank has published the rates of some days, the day's own
\* only if it is late enough.
Updates == [first : 1..3, today : 3..4, late : BOOLEAN, ok : BOOLEAN]
RateInputs ==
    {x \in [op : {"rate"}, published : SUBSET (0..4), u : [1..2 -> Updates]] :
        x.u[1].today <= x.u[2].today}
Published(x, u) ==
    [d \in {d \in x.published : u.ok /\ (d < u.today \/ (u.late /\ d = u.today))} |-> 10 + d]
RatesOf(x) ==
    LET one == UpdateRates(NoRates, x.u[1].first, x.u[1].today, Published(x, x.u[1]))
    IN  UpdateRates(one, x.u[2].first, x.u[2].today, Published(x, x.u[2]))

SeriesInit ==
    /\ \/ input \in FormInputs \/ input \in PriceInputs \/ input \in LoadInputs
       \/ input \in CurveInputs \/ input \in PrognosisInputs \/ input \in RateInputs
    /\ result = NoResult
ReadForm == Compute("form", [op |-> "form", rows |-> FormRows(input)])
FetchPrices == Compute("fetch",
    [op |-> "fetch", got |-> DayAheadFetch(ChartsOf(input), EntsoeOf(input), 1..4, input.key)])
ReadLoad == Compute("load",
    [op |-> "load", days |-> LoadDays({LoadSeries(input, TRUE), LoadSeries(input, FALSE)})])
FetchLoad == Compute("curve",
    [op |-> "curve", got |-> LoadFetch(WeekChunk(input.week), CachedWeeks(input),
                                       input.published, input.failing)])
PairPrognoses == Compute("prognosis",
    [op |-> "prognosis",
     of |-> ForecastPrognoses(PrognosisRows(input.consumption, input.production))])
UpdateTwice == Compute("rate",
    [op |-> "rate", of |-> [d \in 1..4 |-> Rate(RatesOf(input), d, 0)]])
SeriesNext == ReadForm \/ FetchPrices \/ ReadLoad \/ FetchLoad \/ PairPrognoses \/ UpdateTwice
-----------------------------------------------------------------------------
\* Whatever form a source writes its prices in, by the slot or by the hour,
\* with or without what repeats, the same slots get the same prices.
FormsAgree ==
    result.op = "form" =>
        result.rows = {[slot |-> i, price |-> input.prices[i]] : i \in {i \in 1..4 : input.prices[i] # None}}

\* No slot for which a source that was asked has a price goes without, the
\* first source's counts where both have one, and the request has failed
\* only if there is no answer at all.
FallbackFills ==
    result.op = "fetch" =>
        LET charts == IF input.status = "ok" THEN input.charts ELSE {}
            entsoe == IF input.ok /\ input.key THEN input.entsoe ELSE {}
        IN  /\ result.got.rows = {[slot |-> s, price |-> 2 * s] : s \in charts}
                                 \union {[slot |-> s, price |-> 2 * s + 1] : s \in entsoe \ charts}
            /\ result.got.ok <=> input.status # "failed" \/ (input.ok /\ input.key)

\* A day has the extremes published for it, whether by the day or by the slot
\* and whatever repeats, unless it has no forecast.  Only the last day of a
\* period an hour shorter than its days, when left out as a repetition, has none.
OnlyShortPeriodsLoseADay ==
    result.op = "load" =>
        \A d \in 1..4 :
            LET low == input.low[d]  high == input.high[d]
                short == Midnight[input.last + 1] - Midnight[input.first]
                            < DaySlots * (input.last - input.first + 1)
            IN  IF d \in input.first..input.last /\ 0 < low /\ low <= high
                THEN \/ d \in DOMAIN result.days /\ result.days[d] = [low |-> low, high |-> high]
                     \/ d = input.last /\ short /\ input.blocks /\ input.daily /\ d \notin DOMAIN result.days
                ELSE d \notin DOMAIN result.days

\* What is stored of the load forecast does not depend on the week that was
\* asked for: each slot between the anchors of days that follow each other
\* has its row, shaped by the days about it, and no other slot has one.
CurveHasNoSeam ==
    result.op = "curve" /\ result.got.ok =>
        LET chunk == WeekChunk(input.week)
            whole == LoadCurve(input.published)
        IN  /\ {r.slot : r \in result.got.rows} =
                  {r.slot : r \in whole} \intersect (chunk[1]..(chunk[2] - 1))
            /\ \A r \in result.got.rows :
                  LET d == DayOf(r.slot)
                  IN  RunOf(d, input.published) \intersect {d - 1, d, d + 1} \subseteq r.days

\* The features read a production prognosis only beside the consumption
\* prognosis of its own slot, and what is not published is unknown.
PrognosesArePaired ==
    result.op = "prognosis" =>
        /\ result.of.consumption = Restrict(input.consumption,
              {s \in DOMAIN input.consumption : input.consumption[s] # None})
        /\ result.of.production = Restrict(input.production,
              {s \in DOMAIN input.production \intersect DOMAIN input.consumption :
                  input.production[s] # None})

\* After an update that was answered, a day's rate is the last published on
\* or before it; only today's may be the one before, if its own came later.
RateIsOfTheDay ==
    result.op = "rate" =>
        LET u == input.u[2]
            last(n) == {e \in input.published : e <= n /\ \A f \in input.published : f <= n => f <= e}
            today == last(u.today - 1) \union {u.today}
        IN  \A d \in u.first..u.today :
                /\ result.of[d] = 0 \/ result.of[d] - 10 <= d
                /\ u.ok /\ (\E e \in last(d - 1) : u.first - Lookback <= e) =>
                      result.of[d] - 10 \in IF d = u.today THEN today ELSE last(d)

\* Reading answers: whatever form, pages, windows or weeks a source's answer
\* comes in, what is stored is what was published, whole or not at all
\* (entsoe_outages.py, nordpool_umm.py, dayahead_prices.py, entsoe_load.py,
\* nordpool_prognoses.py, exchange_rates.py).
AnswersAreFollowed ==
    /\ CurveIsFollowed /\ EveryVersionCounts /\ AnswerIsWhole
    /\ FormsAgree /\ FallbackFills /\ OnlyShortPeriodsLoseADay
    /\ CurveHasNoSeam /\ PrognosesArePaired /\ RateIsOfTheDay
=============================================================================
