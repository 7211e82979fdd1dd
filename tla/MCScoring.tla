----------------------------- MODULE MCScoring -----------------------------
(***************************************************************************)
(* Scoring for TLC, added to MCPriceSlots: an input is a history of a few  *)
(* days, in which forecasts run and slots are scored, some of them late,   *)
(* by the catch-up at the end; the one step replays it.                    *)
(***************************************************************************)
EXTENDS MCPriceSlots, Scoring

Ends == <<8, 16, 24>>
Windows == <<2, 1, 0, 2>>

\* The predicted slots: one time of day on days 1, 3 (twice) and 4, another
\* on days 3 and 4.
Predictable == {2, 12, 14, 16, 20, 22}
End == 45
Actual(s) == IF s = 22 THEN 0 ELSE 10 + (s % 5)
Raw(s, t) == 3 * (s % 4) + (t % 7)
OldRow == [start |-> 14, stored |-> 6, price |-> 9, offset |-> None]
History == [d \in DOMAIN Wall |-> [i \in 1..SlotsIn(d) |->
                IF d = 1 THEN None ELSE Actual(Midnight[d] + i - 1)]]

\* late: slots without a price when their time came
ScoreInputs ==
    [op : {"score"}, runs : {R \in SUBSET {1, 9, 14, 20, 25, 33, 41, 45} : Cardinality(R) <= 4},
     late : {{}, {2, 12}, {14}, {12, 14, 16}, {20}, Predictable}, old : BOOLEAN]

Shows(t) == IF t % 2 = 0 THEN {"a", "b"} ELSE {"a"}
SourcePrice(c, s, t) == IF c = "a" THEN s + (t % 3) ELSE 2 * s
ReadSource(db, c, slots, t) ==
    [db EXCEPT !.external = StoreExternal(@, c,
        {[start |-> s, price |-> SourcePrice(c, s, t)] : s \in slots}, t, t - 100)]

RunForecast(acc, t) ==
    LET slots == {s \in Predictable : s >= Slot(t)}
        made  == Predicted(acc.db.windows, slots, [s \in slots |-> Raw(s, t)], t)
        db    == [acc.db EXCEPT !.pending = @ \union made]
        read  == ReadSource(IF "b" \in Shows(t) THEN ReadSource(db, "b", slots, t) ELSE db, "a", slots, t)
    IN  [acc EXCEPT !.db = read, !.made = @ \union made, !.cached = DayAhead(read.pending, t)]
Scored(x, acc, t) ==
    IF t % Ticks = 0 /\ Slot(t) \in Predictable \ x.late
    THEN [acc EXCEPT !.db = Learn(@, Slot(t), Actual(Slot(t)), t)] ELSE acc
Seen(acc, s) ==
    IF s \in Predictable
    THEN [acc EXCEPT !.shown = @ \union {<<s, ShownDayAhead(acc.cached, acc.db.evaluation, s)>>}]
    ELSE acc
Instant(x, acc, t) ==
    Seen(Scored(x, IF t \in x.runs THEN RunForecast(acc, t) ELSE acc, t), Slot(t))
ScoreResult(acc, db) ==
    [op |-> "score", made |-> acc.made, shown |-> acc.shown, db |-> db,
     today |-> DayOf(Slot(End)), summary |-> Summary(db.sums, DayOf(Slot(End)))]
Restarted(acc) == ScoreResult(acc, CatchUp(acc.db, History, End))
Replay(x) ==
    LET old == IF x.old THEN {OldRow} ELSE {}
    IN  Restarted(FoldLeft(LAMBDA acc, t : Instant(x, acc, t),
                           [db |-> EmptyDb(old, {}), made |-> old, cached |-> << >>, shown |-> {}],
                           [i \in 1..(End + 1) |-> i - 1]))

\* A source that shows this entry's own prices of the coming days
ExternalInputs(d) == [op : {"external"}, day : {d}, lacks : Holes(d), first : 0..(Horizon - 1)]
ExternalResult(x) ==
    LET spot == Lists(x.day, Pick(RightList(x.day), {i \in 1..SlotsIn(x.day) :
                         Midnight[x.day] + i - 1 \notin x.lacks}), << >>)
        consumer == Lists(x.day, Consumer(RightList(x.day), x.day), << >>)
        shown == [i \in 1..(Horizon - Midnight[x.day]) |->
                    LET s == Midnight[x.day] + i - 1
                    IN  [start |-> s, price |-> Convert(Right(s) + Schedule(WallTime(s)))]]
    IN  [op |-> "external", known |-> TariffSlots(consumer, spot),
         stored |-> ExternalSpot(shown, consumer, spot, x.first)]

ScoringInit ==
    /\ input \in ScoreInputs \/ \E d \in {1, 2, 3} : input \in ExternalInputs(d)
    /\ result = NoResult
Score == Compute("score", Replay(input))
ReadExternal == Compute("external", ExternalResult(input))
ScoringNext == Score \/ ReadExternal
-----------------------------------------------------------------------------
\* The slots whose predictions ahead of them were scored: in time, or late by
\* the catch-up, which leaves out a price of zero and a day without prices.
ScoredSlots ==
    {s \in Predictable : s \notin input.late \/ (Actual(s) # 0 /\ DayOf(s) # 1)}
ScoredPredictions == {p \in result.made : p.start \in ScoredSlots /\ Lead(p) >= 0}
InWindow(P) == {p \in P : DayOf(p.start) > result.today - AccuracyDays}

\* Each prediction made ahead of a slot counts once in the accuracy of its
\* lead time, whether its slot was scored in time or late, and one made for a
\* slot under way never does; the rest stay for a later catch-up.
EveryForecastCounts ==
    result.op = "score" =>
        /\ \A b \in Buckets :
              result.summary[b] = Sums(InBucket(InWindow(ScoredPredictions), b),
                                       [p \in ScoredPredictions |-> Error(p, Actual(p.start))])
        /\ \A p \in result.made :
              p \in result.db.pending => p \notin ScoredPredictions

\* In the repeated hour each pass is scored against its own price: what is
\* kept of a slot is a prediction of that slot.
RightPassIsScored ==
    result.op = "score" =>
        \A s \in DOMAIN result.db.evaluation : \A t \in DOMAIN result.db.evaluation[s] :
            LET p == result.db.evaluation[s][t]
            IN  p.start = s /\ p \in ScoredPredictions

\* The kept predictions of a slot are in the order of their lead times, the
\* day-ahead one is always among them, and no other stands in for two.
SnapshotsAreOrdered ==
    result.op = "score" =>
        \A s \in DOMAIN result.db.evaluation :
            LET kept == result.db.evaluation[s]
                others == DOMAIN kept \ {DayAheadLead}
            IN  /\ kept # << >> => DayAheadLead \in DOMAIN kept
                /\ \A t, u \in DOMAIN kept : t < u => Lead(kept[t]) <= Lead(kept[u])
                /\ \A t, u \in others : kept[t] = kept[u] => t = u

\* The day-ahead price shown of a slot is the same whenever one is shown: a
\* forecast that runs in the slot and its being scored change nothing.
ShownStays ==
    result.op = "score" =>
        \A a, b \in result.shown : a[1] = b[1] => a[2] = b[2] \/ None \in {a[2], b[2]}

\* What a slot's time of day is corrected by is the mean error of the model
\* alone on the newest measured days, none of them before the window, in
\* whatever order the days were scored and however they had been corrected.
OffsetIsOfRecentDays ==
    result.op = "score" =>
        \A w \in {2, 4} : \A b \in Buckets :
            LET of(d) == {p \in InBucket(Measured(ScoredPredictions), b) :
                             WallTime(p.start) = w /\ DayOf(p.start) = d}
                measured == {d \in Days : of(d) # {}}
                newest == {d \in measured :
                             /\ Cardinality({e \in measured : e > d}) < BiasWindow[b]
                             /\ d >= result.today - BiasWindow[b]}
                P == UNION {of(d) : d \in newest}
                offsets == Offsets(result.db.windows[w], result.today)
            IN  IF Cardinality(P) < MinSamples THEN b \notin DOMAIN offsets
                ELSE /\ b \in DOMAIN offsets
                     /\ offsets[b].n = Cardinality(P)
                     /\ offsets[b].sum = Total(P, LAMBDA p : Raw(p.start, p.stored) - Actual(p.start))

\* The errors kept of a scored slot are those of the forecasts ahead of it,
\* and the model's are kept in the lead times a source has, so a blend of the
\* two can be scored.
BlendIsScorable ==
    result.op = "score" =>
        LET rows == result.db.slotErrors
            kept == Slot(End - WindowTicks)        \* the older ones are pruned
            read(c, s) == {[start |-> s, stored |-> t, price |-> SourcePrice(c, s, t)] :
                              t \in {t \in input.runs : c \in Shows(t)}}
            expected(S) == UNION {SlotErrors(c, s, read(c, s), Buckets, Actual(s)) :
                                     c \in Sources, s \in S}
            scored == {p.start : p \in ScoredPredictions}
            shown  == {r \in rows : r.source # "model"}
        IN  /\ shown \subseteq expected(scored)
            /\ expected({s \in scored : s >= kept}) \subseteq shown
            /\ \A r \in rows : r.source = "model" =>
                  \E q \in rows : q.start = r.start /\ q.bucket = r.bucket /\ q.source # "model"

\* What a source shows of a slot that is predicted is stored as its raw spot
\* price, whatever tariff, surcharge and VAT this entry shows (up to the
\* rounding), so it is scored in the model's terms; no confirmed slot is.
ExternalIsComparable ==
    result.op = "external" =>
        /\ {x.start : x \in result.stored}
              = Max({input.first, Midnight[input.day]})..(Horizon - 1)
        /\ \A x \in result.stored :
              \/ Abs(x.price - Right(x.start)) <= 1
              \/ \A k \in result.known : WallTime(k) # WallTime(x.start)

\* Scoring: every forecast counts once, for the slot and the lead time it was
\* made for, and what is compared is comparable (catch_up.py, learning.py,
\* lead_time.py, bias.py, external_forecasts.py).
ForecastsAreScored ==
    /\ EveryForecastCounts /\ RightPassIsScored
    /\ SnapshotsAreOrdered /\ ShownStays /\ OffsetIsOfRecentDays
    /\ BlendIsScorable /\ ExternalIsComparable
=============================================================================
