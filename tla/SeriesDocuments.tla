-------------------------- MODULE SeriesDocuments --------------------------
(***************************************************************************)
(* What the series sources make of their answers: day-ahead prices of two  *)
(* sources (dayahead_prices.py), the load forecast's daily extremes and    *)
(* the curve through them (entsoe_load.py), Nord Pool's two prognoses      *)
(* (nordpool_prognoses.py) and the exchange rate of a day                  *)
(* (exchange_rates.py).                                                    *)
(*                                                                         *)
(* Times are slots.  A curve is a period of an ENTSO-E series: its start,  *)
(* step and end, the points given by position, and whether a point equal   *)
(* to the one before it is left out (curveType A03).  The curves of a      *)
(* price document do not overlap.                                          *)
(***************************************************************************)
EXTENDS PriceSlots

CONSTANTS
    WeekDays,       \* days of an ISO week; week 1 starts on day WeekDays
    FirstAnchor,    \* 03:00, the wall-clock time of a day's first anchor
    LastAnchor,     \* 19:00, that of its last
    Lookback        \* _LOOKBACK, in days

ASSUME SeriesAssumption ==
    /\ {WeekDays, Lookback} \subseteq Nat \ {0}
    /\ \A d \in DOMAIN Wall : {FirstAnchor, LastAnchor} \subseteq ToSet(Wall[d])

Answer(rows) == [ok |-> TRUE, rows |-> rows]
NoAnswer == [ok |-> FALSE, rows |-> {}]
SlotsOfRows(answer) == {r.slot : r \in answer.rows}

\* The positions of a curve up to some last one with the quantity each has.
Held(curve, last) ==
    LET given(n) == {m \in DOMAIN curve.points : m <= n}
        has(n) == IF curve.blocks THEN given(n) # {} ELSE n \in DOMAIN curve.points
    IN  {[position |-> n, value |-> curve.points[Max(given(n))]] : n \in {n \in 1..last : has(n)}}
-----------------------------------------------------------------------------
(* dayahead_prices.py *)

\* The slots of a price that lasts some span.
Quarters(start, span) == start..(start + Max({1, Min({span, SlotsPerHour})}) - 1)

\* A price lasts until the next one, the last as long as the one before it.
ChartPrices(starts, prices) ==
    LET span(i) == IF i < Len(starts) THEN starts[i + 1] - starts[i]
                   ELSE IF i > 1 THEN starts[i] - starts[i - 1] ELSE 1
    IN  UNION {[slot : Quarters(starts[i], span(i)), price : {prices[i]}] :
                  i \in {i \in DOMAIN starts : prices[i] # None}}
ChartsAnswer(status, starts, prices) ==
    IF status = "no_content" THEN Answer({})
    ELSE IF status # "ok" \/ Len(starts) # Len(prices) THEN NoAnswer
    ELSE Answer(ChartPrices(starts, prices))

CurvePrices(curve, last) ==
    UNION {[slot : Quarters(curve.start + (q.position - 1) * curve.step, curve.step),
            price : {q.value}] : q \in Held(curve, last)}
\* Mutant: a curve ends at the last point given.
EntsoePricesGiven(document) ==
    UNION {CurvePrices(c, Max(DOMAIN c.points \union {0})) :
              c \in {c \in document : c.end # None /\ c.step <= SlotsPerHour}}
EntsoePrices(document) ==
    UNION {CurvePrices(c, (c.end - c.start) \div c.step) :
              c \in {c \in document : c.end # None /\ c.step <= SlotsPerHour}}

\* Mutant: the fallback is asked only when the first source has nothing.
DayAheadFetchOfFirst(charts, entsoe, window, key) ==
    IF charts.rows # {} \/ ~key \/ ~entsoe.ok THEN charts ELSE entsoe
DayAheadFetch(charts, entsoe, window, key) ==
    LET uncovered == window \ SlotsOfRows(charts)
    IN  IF (charts.rows # {} /\ uncovered = {}) \/ ~key \/ ~entsoe.ok THEN charts
        ELSE Answer(charts.rows \union {r \in entsoe.rows : r.slot \notin SlotsOfRows(charts)})
-----------------------------------------------------------------------------
(* entsoe_load.py *)

LastPosition(curve) ==
    IF DOMAIN curve.points = {} THEN 0
    ELSE Max(DOMAIN curve.points \union
             IF curve.blocks /\ curve.end # None
             THEN {(curve.end - curve.start) \div curve.step} ELSE {})

\* Mutant: a day is taken to be 24 hours long.
DayOfPositionElapsed(curve, n) == DayOf(curve.start + (n - 1) * curve.step)
DayOfPosition(curve, n) ==
    IF curve.step >= DaySlots THEN DayOf(curve.start) + ((n - 1) * curve.step) \div DaySlots
    ELSE DayOf(curve.start + (n - 1) * curve.step)

\* The lowest minimum and the highest maximum of each day that has both.
LoadDays(document) ==
    LET values(low, d) ==
            UNION {{q.value : q \in {q \in Held(c, LastPosition(c)) : DayOfPosition(c, q.position) = d}} :
                      c \in {c \in document : c.low = low}}
        usable(d) == /\ values(TRUE, d) # {} /\ values(FALSE, d) # {}
                     /\ 0 < Min(values(TRUE, d)) /\ Min(values(TRUE, d)) <= Max(values(FALSE, d))
    IN  [d \in {d \in DOMAIN Wall : usable(d)} |->
            [low |-> Min(values(TRUE, d)), high |-> Max(values(FALSE, d))]]

\* The first slot of a day with some wall-clock time (fold 0).
SlotAt(d, w) == Midnight[d] + Min({i \in DOMAIN Wall[d] : Wall[d][i] = w}) - 1
RunOf(d, days) == {e \in days : \A f \in Min({d, e})..Max({d, e}) : f \in days}
\* The slots of the curve, each with the days whose extremes shape it.
LoadCurve(days) ==
    UNION {[slot : SlotAt(Min(run), FirstAnchor)..SlotAt(Max(run), LastAnchor), days : {run}] :
              run \in {RunOf(d, days) : d \in days}}

\* Requests are of whole weeks.
Week(d) == d \div WeekDays
WeekChunk(w) ==
    LET days == {d \in DOMAIN Wall : Week(d) = w}
    IN  <<Midnight[Min(days)], Midnight[Max(days) + 1]>>
WeeksOf(from, to) ==
    {w \in {Week(d) : d \in DOMAIN Wall} : WeekChunk(w)[1] < to /\ from < WeekChunk(w)[2]}
\* A week read before is used again; the days of another are asked for.
WeekRead(week, cached, published, failing) ==
    IF week \in DOMAIN cached THEN [ok |-> TRUE, days |-> cached[week]]
    ELSE IF week \in failing THEN [ok |-> FALSE, days |-> {}]
    ELSE [ok |-> TRUE, days |-> {d \in published : Week(d) = week}]
CurveOfWeeks(weeks, chunk, cached, published, failing) ==
    LET read(w) == WeekRead(w, cached, published, failing)
    IN  IF \E w \in weeks : ~read(w).ok THEN NoAnswer
        ELSE Answer({r \in LoadCurve(UNION {read(w).days : w \in weeks}) :
                        chunk[1] <= r.slot /\ r.slot < chunk[2]})
\* Mutant: only the week itself is read.
LoadFetchAlone(chunk, cached, published, failing) ==
    CurveOfWeeks(WeeksOf(chunk[1], chunk[2]), chunk, cached, published, failing)
LoadFetch(chunk, cached, published, failing) ==
    CurveOfWeeks(WeeksOf(chunk[1] - DaySlots, chunk[2] + DaySlots), chunk,
                 cached, published, failing)
-----------------------------------------------------------------------------
(* nordpool_prognoses.py: a prognosis maps slots to what was published *)

\* Mutant: the two prognoses are paired by their places.
PrognosisRowsByIndex(consumption, production) ==
    LET c == Ascending(DOMAIN consumption)  p == Ascending(DOMAIN production)
    IN  {[slot |-> c[i], consumption |-> consumption[c[i]],
          produced |-> IF i \in DOMAIN p THEN production[p[i]] ELSE None] : i \in DOMAIN c}
PrognosisRows(consumption, production) ==
    {[slot |-> s, consumption |-> consumption[s],
      produced |-> IF s \in DOMAIN production THEN production[s] ELSE None] :
        s \in DOMAIN consumption}
\* What the prediction features read of the stored rows.
ForecastPrognoses(rows) ==
    LET of(s) == CHOOSE r \in rows : r.slot = s
    IN  [consumption |-> [s \in {r.slot : r \in {r \in rows : r.consumption # None}} |->
                             of(s).consumption],
         production |-> [s \in {r.slot : r \in {r \in rows : r.produced # None}} |->
                             of(s).produced]]
-----------------------------------------------------------------------------
(* exchange_rates.py: the rates by day, the day and the start of the fetch *)

NoRates == [rates |-> [d \in {} |-> 0], on |-> None, from |-> None]
Extended(R, rates, from, today) ==
    LET got == Restrict(rates, {d \in DOMAIN rates : d >= from})
    IN  IF DOMAIN got = {} THEN R
        ELSE [rates |-> [d \in DOMAIN got \union DOMAIN R.rates |->
                            IF d \in DOMAIN got THEN got[d] ELSE R.rates[d]],
              on |-> today, from |-> from]
\* Mutant: one fetch a day, from wherever it started.
UpdateRatesOnceADay(R, first, today, rates) ==
    IF R.on = today THEN R ELSE Extended(R, rates, first - Lookback, today)
\* rates is what the bank has published, or nothing if it does not answer.
UpdateRates(R, first, today, rates) ==
    IF R.on = today /\ R.from <= first - Lookback THEN R
    ELSE Extended(R, rates, first - Lookback, today)
Rate(R, d, peg) ==
    LET earlier == {e \in DOMAIN R.rates : e <= d}
    IN  IF earlier = {} THEN peg ELSE R.rates[Max(earlier)]
=============================================================================
