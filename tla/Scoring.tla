------------------------------ MODULE Scoring ------------------------------
(***************************************************************************)
(* Scoring stored predictions and external forecasts against the actual    *)
(* price of their slot: lead times and their buckets, the error sums, the  *)
(* snapshots kept per lead time, the bias windows (ml/lead_time.py,        *)
(* ml/bias.py, ml/learning.py, ml/catch_up.py, ml/external_forecasts.py    *)
(* and their tables).                                                      *)
(*                                                                         *)
(* db is what the learning database keeps of it.  A stored prediction is   *)
(* [start, stored, price, offset]: its slot, the tick it was stored, the   *)
(* price and the bias offset subtracted from it, None in an old row.  An   *)
(* external forecast has a source too.  A bucket is the position of its    *)
(* lead times among BucketEnds; 0 is that of a negative lead time.         *)
(***************************************************************************)
EXTENDS PriceSlots

CONSTANTS
    BucketEnds,      \* LEAD_TIME_BUCKETS: the first lead time of each bucket but one
    Targets,         \* EVALUATION_LEAD_TIMES
    DayAheadLead,    \* EVALUATION_LEAD_HOURS
    KeepTicks,       \* EVALUATION_KEEP_DAYS
    AheadTicks,      \* DAY_AHEAD_PREDICTION_HOURS
    BiasWindow,      \* BIAS_WINDOW_DAYS of each bucket, 0 if it is not listed
    MinSamples,      \* MIN_BIAS_SAMPLES
    AccuracyDays,    \* LEAD_TIME_WINDOW_DAYS
    WindowTicks,     \* and in ticks, each day of 24 hours
    Sources          \* the configured external forecast sensors

ASSUME LeadAssumption ==
    /\ BucketEnds \in Seq(Nat \ {0})
    /\ Targets \subseteq Nat /\ DayAheadLead \in Targets
    /\ BiasWindow \in [1..(Len(BucketEnds) + 1) -> Nat]
    /\ "model" \notin Sources
    /\ {KeepTicks, AheadTicks, MinSamples, AccuracyDays, WindowTicks} \subseteq Nat \ {0}

Buckets == 1..(Len(BucketEnds) + 1)
Days == DOMAIN Wall
Abs(x) == IF x < 0 THEN 0 - x ELSE x
Total(S, f(_)) == SumFunction([x \in S |-> f(x)])
-----------------------------------------------------------------------------
(* lead_time.py *)

Lead(p) == p.start * Ticks - p.stored       \* lead_time_hours

\* lead_time_bucket
Bucket(lead) == IF lead < 0 THEN 0
                ELSE Cardinality({i \in DOMAIN BucketEnds : BucketEnds[i] <= lead}) + 1
\* prediction_bucket: the bucket whose offset a prediction made now is given.
PredictionBucket(s, now) == Max({Bucket(s * Ticks - now), 1})
InBucket(P, b) == {p \in P : Bucket(Lead(p)) = b}

\* bucket_errors, raw_bucket_errors: as the sums the tables keep of them.
Sums(S, error) ==
    [n |-> Cardinality(S), sum |-> Total(S, LAMBDA p : error[p]),
     abs |-> Total(S, LAMBDA p : Abs(error[p])),
     square |-> Total(S, LAMBDA p : error[p] * error[p])]
NoSums == [n |-> 0, sum |-> 0, abs |-> 0, square |-> 0]
Plus(a, b) == [f \in DOMAIN a |-> a[f] + b[f]]
Error(p, actual) == p.price - actual
Errors(P, actual) == [p \in P |-> Error(p, actual)]

\* The raw model's error: the offset had been subtracted from its price.
RawError(p, actual) == p.price + p.offset - actual
Measured(P) == {p \in P : p.offset # None}
RawErrors(P, actual) == [p \in Measured(P) |-> RawError(p, actual)]

\* evaluation_prediction: of predictions ahead of their slot the one made
\* nearest to target before it; ties go to the later.
Nearest(P, target) ==
    CHOOSE p \in P : \A q \in P :
        \/ Abs(Lead(p) - target) < Abs(Lead(q) - target)
        \/ Abs(Lead(p) - target) = Abs(Lead(q) - target) /\ q.stored <= p.stored
Ahead(P) == {p \in P : Lead(p) >= 0}

\* Mutant: the snapshot of a lead time is the nearest, however far off.
CloseAlways(p, target) == TRUE
\* snapshot_tolerance: the day-ahead snapshot has none; half a gap otherwise.
Close(p, target) ==
    \/ target = DayAheadLead
    \/ 2 * Abs(Lead(p) - target) <= Min({Abs(t - target) : t \in Targets \ {target}})

\* evaluation_snapshots: the prediction of each lead time that has one.
Snapshots(P) ==
    LET kept == {t \in Targets : Ahead(P) # {} /\ Close(Nearest(Ahead(P), t), t)}
    IN  [t \in kept |-> Nearest(Ahead(P), t)]

\* Mutant: one made for the slot under way is shown too.
DayAheadUnderWay(pending, now) ==
    LET slots == {p.start : p \in {p \in pending : p.start >= Slot(now)}}
    IN  [s \in slots |-> Nearest({p \in pending : p.start = s}, DayAheadLead).price]
\* refresh_day_ahead_predictions: per coming slot with a prediction ahead.
DayAhead(pending, now) ==
    LET slots == {p.start : p \in Ahead(
                    {p \in pending : /\ p.start >= Slot(now)
                                     /\ p.start < Slot(now + AheadTicks)})}
    IN  [s \in slots |-> Nearest(Ahead({p \in pending : p.start = s}), DayAheadLead).price]
\* day_ahead_prediction: what is shown of the slot s.
ShownDayAhead(cached, evaluation, s) ==
    IF s \in DOMAIN cached THEN cached[s]
    ELSE IF DayAheadLead \in DOMAIN evaluation[s] THEN evaluation[s][DayAheadLead].price
    ELSE None
-----------------------------------------------------------------------------
(* bias.py: a window keeps, per measured day, the number of raw errors and *)
(* their sum.                                                              *)

NoDays == [d \in {} |-> NoSums]
Newest(days, n) ==
    LET kept == {d \in DOMAIN days : Cardinality({e \in DOMAIN days : e > d}) < n}
    IN  [d \in kept |-> days[d]]
WithDay(days, d, sums) ==
    [e \in DOMAIN days \union {d} |->
        IF e # d THEN days[e] ELSE IF d \in DOMAIN days THEN Plus(days[d], sums) ELSE sums]

\* Mutant: a measured day drops the days before the window, as of that day.
AddRawErrorsByDate(windows, P, actual, d) ==
    [b \in Buckets |->
        LET S == InBucket(Measured(P), b)
            days == IF S = {} THEN windows[b]
                    ELSE WithDay(windows[b], d, Sums(S, RawErrors(P, actual)))
        IN  [e \in {e \in DOMAIN days : e > d - BiasWindow[b]} |-> days[e]]]
\* add_raw_errors
AddRawErrors(windows, P, actual, d) ==
    [b \in Buckets |->
        LET S == InBucket(Measured(P), b)
        IN  IF BiasWindow[b] = 0 THEN NoDays
            ELSE Newest(IF S = {} THEN windows[b]
                        ELSE WithDay(windows[b], d, Sums(S, RawErrors(P, actual))),
                        BiasWindow[b])]

\* window_offset: the window as of today,
Recent(days, today, n) ==
    LET recent == {d \in DOMAIN days : today - n <= d /\ d <= today}
    IN  Newest([d \in recent |-> days[d]], n)
\* slot_offsets: and of each bucket with errors enough, their number and sum:
\* the offset is the mean.
Offsets(windows, today) ==
    LET recent(b) == Recent(windows[b], today, BiasWindow[b])
        n(b)      == SumFunction([d \in DOMAIN recent(b) |-> recent(b)[d].n])
        listed    == {b \in Buckets : BiasWindow[b] > 0 /\ n(b) >= MinSamples}
    IN  [b \in listed |->
            [n |-> n(b), sum |-> SumFunction([d \in DOMAIN recent(b) |-> recent(b)[d].sum])]]
\* _bias_offset: no bucket uses another's.
Offset(offsets, b) == IF b \in DOMAIN offsets THEN offsets[b].sum \div offsets[b].n ELSE 0
\* _generate_predictions: of the model's raw prices, corrected with the
\* offsets as of today and stored with them.
Predicted(windows, slots, raw, now) ==
    LET offset(s) == Offset(Offsets(windows[WallTime(s)], DayOf(Slot(now))),
                            PredictionBucket(s, now))
    IN  {[start |-> s, stored |-> now, price |-> raw[s] - offset(s), offset |-> offset(s)] :
            s \in slots}
\* add_lead_time_errors, add_bias_accuracy: into the sums of the slot's day;
\* refresh_lead_time_accuracy prunes the days before the window.
AddErrors(sums, d, P, today, error) ==
    [e \in Days |-> [b \in Buckets |->
        IF e <= today - AccuracyDays THEN NoSums
        ELSE IF e = d THEN Plus(sums[e][b], Sums(InBucket(P, b), error))
        ELSE sums[e][b]]]
-----------------------------------------------------------------------------
(* external_forecasts.py *)

\* store_external_forecasts: one reading of a source, stored at now.
StoreExternal(external, source, rows, now, oldest) ==
    {x \in external \union
        {[source |-> source, start |-> r.start, stored |-> now, price |-> r.price] : r \in rows} :
     x.stored >= oldest}

MeanError(source, s, b, S, actual) ==
    [source |-> source, start |-> s, bucket |-> b, n |-> Cardinality(S),
     sum |-> Total(S, LAMBDA p : Error(p, actual))]
SlotErrors(source, s, P, buckets, actual) ==
    {MeanError(source, s, b, InBucket(P, b), actual) : b \in
        {b \in buckets : InBucket(P, b) # {}}}

\* Mutant: the model's errors are kept in every bucket.
PairedAll(rows) == Buckets
Paired(rows) == {r.bucket : r \in rows}

\* record_external_accuracy: the sources' errors of a slot, the model's in
\* the buckets a source has; the forecasts are gone and the old errors pruned.
RecordExternal(db, s, P, actual, now) ==
    LET found   == {x \in db.external : x.start = s}
        of(c)   == {x \in found : x.source = c}
        rows    == UNION {SlotErrors(c, s, of(c), Buckets, actual) : c \in Sources}
        new     == rows \union SlotErrors("model", s, P, Paired(rows), actual)
        key(r)  == <<r.start, r.bucket, r.source>>
        kept    == {r \in db.slotErrors : \A q \in new : key(q) # key(r)} \union new
    IN  IF found = {} THEN db
        ELSE [db EXCEPT
                !.external = @ \ found,
                !.externalSums = [c \in Sources |->
                    AddErrors(@[c], DayOf(s), of(c), DayOf(Slot(now)),
                              Errors(of(c), actual))],
                !.slotErrors = {r \in kept : r.start >= Slot(now - WindowTicks)}]

-----------------------------------------------------------------------------
(* learning.py, catch_up.py *)

\* find_predictions_for_timestamp matches the local date and time of day,
Found(pending, s) ==
    {p \in pending : DayOf(p.start) = DayOf(s) /\ WallTime(p.start) = WallTime(s)}
\* Mutant: and those are all taken for the slot.
AtInstantAll(P, s) == P
\* predictions_at_instant keeps the slot's own.
AtInstant(P, s) == {p \in P : p.start = s}

\* record_evaluation: unless the slot is too old; refresh_evaluation prunes.
Evaluated(evaluation, s, P, now) ==
    LET new == Snapshots(P)
    IN  IF new = << >> \/ s * Ticks < now - KeepTicks THEN evaluation
        ELSE [x \in DOMAIN evaluation |->
                IF x < Slot(now - KeepTicks) THEN << >>
                ELSE IF x # s THEN evaluation[x]
                ELSE [t \in DOMAIN evaluation[x] \union DOMAIN new |->
                        IF t \in DOMAIN new THEN new[t] ELSE evaluation[x][t]]]

\* learn_from_actual_price: the predictions of the slot s are scored against
\* its price and removed.
Learn(db, s, actual, now) ==
    LET P == AtInstant(Found(db.pending, s), s)
        today == DayOf(Slot(now))
        windows == AddRawErrors(db.windows[WallTime(s)], P, actual, DayOf(s))
    IN  IF P = {} THEN db
        ELSE RecordExternal(
                [db EXCEPT
                    !.pending = @ \ P,
                    !.windows[WallTime(s)] = windows,
                    !.sums = AddErrors(@, DayOf(s), P, today, Errors(P, actual)),
                    !.corrected = AddErrors(@, DayOf(s), Measured(P), today, Errors(P, actual)),
                    !.raw = AddErrors(@, DayOf(s), Measured(P), today, RawErrors(P, actual)),
                    !.evaluation = Evaluated(@, s, P, now)],
                s, P, actual, now)

\* Mutant: a day's prices are those of its first slots, however long it is.
ReplayedByTime(history, dates) ==
    {s \in 0..(Midnight[Len(Wall) + 1] - 1) :
        /\ DayOf(s) \in dates /\ DayOf(s) \in DOMAIN history
        /\ IndexIn(s) <= Len(Wall[1])
        /\ history[DayOf(s)][IndexIn(s)] \notin {None, 0}}
\* catch_up_learning: the slots with a price, of the pending dates
Replayed(history, dates) ==
    {s \in 0..(Midnight[Len(Wall) + 1] - 1) :
        /\ DayOf(s) \in dates /\ DayOf(s) \in DOMAIN history
        /\ IndexIn(s) \in DOMAIN history[DayOf(s)]
        /\ history[DayOf(s)][IndexIn(s)] \notin {None, 0}}
CatchUp(db, history, now) ==
    LET slots == Replayed(history, {DayOf(p.start) : p \in db.pending})
    IN  FoldLeft(LAMBDA acc, s : Learn(acc, s, history[DayOf(s)][IndexIn(s)], now),
                 db, Ascending(slots))

\* summarize_error_sums: a bucket's sums over the window's days, from which
\* the accuracy entities take its MAE, RMSE and bias.
Summary(sums, today) ==
    [b \in Buckets |->
        LET of(f) == SumFunction([d \in {d \in Days : d > today - AccuracyDays} |->
                                    sums[d][b][f]])
        IN  [f \in DOMAIN NoSums |-> of(f)]]

EmptyDb(pending, external) ==
    [pending |-> pending, external |-> external, slotErrors |-> {},
     externalSums |-> [c \in Sources |-> [d \in Days |-> [b \in Buckets |-> NoSums]]],
     windows |-> [w \in UNION {ToSet(Wall[d]) : d \in Days} |-> [b \in Buckets |-> NoDays]],
     sums |-> [d \in Days |-> [b \in Buckets |-> NoSums]],
     corrected |-> [d \in Days |-> [b \in Buckets |-> NoSums]],
     raw |-> [d \in Days |-> [b \in Buckets |-> NoSums]],
     evaluation |-> [s \in 0..(Midnight[Len(Wall) + 1] - 1) |-> << >>]]
-----------------------------------------------------------------------------
(* external_forecasts.py of the component: what a source shows, as the raw *)
(* spot price of the slots the model predicts.                             *)

\* Mutant: the tariff is left in it.
ToSpotWithTariff(exposed, tariff) == (exposed * 100) \div Vat - Surcharge
\* to_spot, less the tariff
ToSpot(exposed, tariff) == (exposed * 100) \div Vat - Surcharge - tariff
ExternalSpot(forecast, consumer, spot, first) ==
    {[start |-> x.start, price |-> ToSpot(x.price, Tariff(consumer, spot, x.start))] :
        x \in {x \in ToSet(forecast) : x.start >= first}}
=============================================================================
