------------------------------ MODULE Retraining ------------------------------
(***************************************************************************)
(* When the model is retrained: forecast runs compare when the training    *)
(* inputs last changed with when the model was last trained                *)
(* (ml/retraining.py), while other threads keep changing those inputs.     *)
(*                                                                         *)
(* The inputs are the series tables of the learning database, each changed *)
(* and stamped under the storage lock (upsert_series, upsert_umm_rows),    *)
(* and the price days in memory, changed by the forecast run itself and by *)
(* history backfills, which stamp a change afterwards and take no lock     *)
(* (record_training_prices).  Contents are version numbers.                *)
(*                                                                         *)
(* A timestamp is a reading of one clock that no two readings share;       *)
(* 0 stands for None.                                                      *)
(***************************************************************************)
EXTENDS Integers

CONSTANTS
    Series,       \* the series tables the model trains on
    PriceDays,    \* the days of the price history
    Backfills,    \* history backfills that may be under way together
    MaxChanges,   \* bound: how often an input's content changes
    MaxFaults     \* bound: failed writes and trainings, and restarts

\* The forecast run's thread and the backfills' threads store price days.
Runner == "run"
Storers == Backfills \union {Runner}
Inputs == Series \union PriceDays
NoSeries == "none"

ASSUME KindsAssumption ==
    /\ Series \cap PriceDays = {}
    /\ NoSeries \notin Series
    /\ Runner \notin Backfills
ASSUME BoundsAssumption == MaxChanges \in Nat /\ MaxFaults \in Nat

VARIABLES
    clock,        \* the last time read from the clock
    data,         \* the stored content of every input
    writing,      \* the table changed but not stamped yet; its writer has the lock
    writeStamp,   \* LearningStorage.last_data_write
    storing,      \* each thread's price days stored but not stamped yet
    priceStamp,   \* _prices_updated_at
    run,          \* the forecast run that holds the predict lock
    trained,      \* is_trained
    trees,        \* whether price_model has trees (kept in memory only)
    trainedAt,    \* last_trained_at
    model,        \* the contents price_model was trained on
    unflagged,    \* inputs whose last change lost its stamp: what the
                  \* properties remember, read by no action
    faults

vars == <<clock, data, writing, writeStamp, storing, priceStamp, run, trained,
          trees, trainedAt, model, unflagged, faults>>
stores == <<data, writing, writeStamp, storing, priceStamp>>
fitted == <<trained, trees, trainedAt, model>>

Contents == [Inputs -> Nat]
Idle == [pc |-> "idle"]
-----------------------------------------------------------------------------
TypeOK ==
    /\ clock \in Nat
    /\ data \in Contents
    /\ writing \in Series \union {NoSeries}
    /\ writeStamp \in Nat
    /\ storing \in [Storers ->
           {Idle} \union [pc : {"stored"}, days : SUBSET PriceDays]
                  \union [pc : {"stamped"}, days : SUBSET PriceDays, at : Nat]]
    /\ priceStamp \in Nat
    /\ run \in {Idle, [pc |-> "recording"]} \union
           [pc : {"training"}, started : Nat, unread : SUBSET Inputs, seen : Contents]
    /\ trained \in BOOLEAN /\ trees \in BOOLEAN
    /\ trainedAt \in Nat
    /\ model \in Contents
    /\ unflagged \subseteq Inputs
    /\ faults \in Nat

Init ==
    /\ clock = 0
    /\ data = [x \in Inputs |-> 0]
    /\ writing = NoSeries
    /\ writeStamp = 0
    /\ storing = [w \in Storers |-> Idle]
    /\ priceStamp = 0
    /\ run = Idle
    /\ trained \in BOOLEAN       \* as the database has it
    /\ trees = FALSE
    /\ trainedAt = 0
    /\ model = [x \in Inputs |-> 0]
    /\ unflagged = {}
    /\ faults = 0

Changed(X) == [x \in Inputs |-> IF x \in X THEN data[x] + 1 ELSE data[x]]
MayChange(X) == \A x \in X : data[x] < MaxChanges
-----------------------------------------------------------------------------
(* Series tables: rows upserted, committed and stamped under the lock *)

SeriesCommit(s) ==
    /\ writing = NoSeries
    /\ MayChange({s})
    /\ data' = Changed({s})
    /\ writing' = s
    /\ UNCHANGED <<clock, writeStamp, storing, priceStamp, run, fitted,
                   unflagged, faults>>

SeriesStamp ==
    /\ writing # NoSeries
    /\ clock' = clock + 1
    /\ writeStamp' = clock'
    /\ writing' = NoSeries
    /\ UNCHANGED <<data, storing, priceStamp, run, fitted, unflagged, faults>>

\* A statement or the commit raises after rows were written.  Nothing rolls
\* back: readers share the connection, see the rows at once, and the next
\* commit of any other write makes them durable.  The stamp is not moved.
SeriesFail(s) ==
    /\ writing = NoSeries
    /\ MayChange({s})
    /\ faults < MaxFaults
    /\ data' = Changed({s})
    /\ unflagged' = unflagged \union {s}
    /\ faults' = faults + 1
    /\ UNCHANGED <<clock, writing, writeStamp, storing, priceStamp, run, fitted>>
-----------------------------------------------------------------------------
(* Price days: record_training_prices, in the run's or a backfill's thread *)

PriceStore(w) ==
    /\ storing[w] = Idle
    /\ w = Runner => run.pc = "recording"
    /\ \E days \in (SUBSET PriceDays) \ {{}} :
          /\ MayChange(days)
          /\ data' = Changed(days)
          /\ storing' = [storing EXCEPT ![w] = [pc |-> "stored", days |-> days]]
    /\ UNCHANGED <<clock, writing, writeStamp, priceStamp, run, fitted,
                   unflagged, faults>>

\* Mutant: the time is taken before the prices are stored.
PriceStampEarly(w) ==
    /\ storing[w].pc = "stored"
    /\ storing' = [storing EXCEPT ![w] =
           [pc |-> "stamped", days |-> storing[w].days, at |-> clock]]
    /\ UNCHANGED <<clock, data, writing, writeStamp, priceStamp, run, fitted,
                   unflagged, faults>>

\* utcnow() is called ...
PriceStamp(w) ==
    /\ storing[w].pc = "stored"
    /\ clock' = clock + 1
    /\ storing' = [storing EXCEPT ![w] =
           [pc |-> "stamped", days |-> storing[w].days, at |-> clock']]
    /\ UNCHANGED <<data, writing, writeStamp, priceStamp, run, fitted,
                   unflagged, faults>>

\* What the model, or the training under way, holds in an older content.
Stale(x) ==
    \/ model[x] # data[x]
    \/ run.pc = "training" /\ run.seen[x] # data[x]

\* ... and its result assigned, which nothing keeps from replacing a newer
\* stamp another thread assigned in between.
PricePublish(w) ==
    /\ storing[w].pc = "stamped"
    /\ priceStamp' = storing[w].at
    /\ storing' = [storing EXCEPT ![w] = Idle]
    /\ unflagged' = IF storing[w].at < priceStamp
                    THEN unflagged \union {x \in PriceDays : Stale(x)}
                    ELSE unflagged
    /\ UNCHANGED <<clock, data, writing, writeStamp, run, fitted, faults>>
-----------------------------------------------------------------------------
(* Forecast runs: serialized by the predict lock *)

RunStart ==
    /\ run = Idle
    /\ run' = [pc |-> "recording"]
    /\ UNCHANGED <<clock, stores, fitted, unflagged, faults>>

LastDataUpdate == IF priceStamp > writeStamp THEN priceStamp ELSE writeStamp

\* Mutant: only the price history's stamp is compared.
NeedsRetrainingOnPrices == ~trained \/ ~trees \/ priceStamp > trainedAt

NeedsRetraining ==
    \/ ~trained \/ ~trees
    \/ trainedAt = 0
    \/ LastDataUpdate > trainedAt

\* The known prices are recorded: retrain, or predict with the model at hand.
RunCheck ==
    /\ run.pc = "recording"
    /\ storing[Runner] = Idle
    /\ IF NeedsRetraining
       THEN /\ clock' = clock + 1
            /\ run' = [pc |-> "training", started |-> clock',
                       unread |-> Inputs, seen |-> model]
       ELSE /\ run' = Idle
            /\ UNCHANGED clock
    /\ UNCHANGED <<stores, fitted, unflagged, faults>>

\* The tables are read one query at a time, each under the storage lock; the
\* price days are read with no lock.
TrainRead(x) ==
    /\ run.pc = "training"
    /\ x \in run.unread
    /\ x \in Series => writing = NoSeries
    /\ run' = [run EXCEPT !.unread = @ \ {x}, !.seen[x] = data[x]]
    /\ UNCHANGED <<clock, stores, fitted, unflagged, faults>>

\* Mutant: last_trained_at is when the training ended.
TrainEndStampedLate ==
    /\ run.pc = "training"
    /\ run.unread = {}
    /\ trained' = TRUE /\ trees' = TRUE
    /\ model' = run.seen
    /\ clock' = clock + 1
    /\ trainedAt' = clock'
    /\ unflagged' = {x \in unflagged : run.seen[x] # data[x]}
    /\ run' = Idle
    /\ UNCHANGED <<stores, faults>>

TrainEnd ==
    /\ run.pc = "training"
    /\ run.unread = {}
    /\ trained' = TRUE /\ trees' = TRUE
    /\ model' = run.seen
    /\ trainedAt' = run.started
    /\ unflagged' = {x \in unflagged : run.seen[x] # data[x]}
    /\ run' = Idle
    /\ UNCHANGED <<clock, stores, faults>>

\* Mutant: a failed training keeps the predict lock.
TrainFailHoldsLock ==
    /\ run.pc = "training"
    /\ faults < MaxFaults
    /\ trained' = FALSE
    /\ run' = [pc |-> "failed"]
    /\ faults' = faults + 1
    /\ UNCHANGED <<clock, stores, trees, model, trainedAt, unflagged>>

\* Training fails, before or after the price model was fitted.
TrainFail ==
    /\ run.pc = "training"
    /\ faults < MaxFaults
    /\ trained' = FALSE
    /\ \/ UNCHANGED <<trees, model>>
       \/ run.unread = {} /\ trees' = TRUE /\ model' = run.seen
    /\ run' = Idle
    /\ faults' = faults + 1
    /\ UNCHANGED <<clock, stores, trainedAt, unflagged>>

\* There are too few prices to train on, which happens before anything was
\* trained in this process: is_trained stays as it was loaded.
TrainTooFew ==
    /\ run.pc = "training"
    /\ ~trees
    /\ faults < MaxFaults
    /\ trainedAt' = IF trained THEN run.started ELSE trainedAt
    /\ run' = Idle
    /\ faults' = faults + 1
    /\ UNCHANGED <<clock, stores, trained, trees, model, unflagged>>

\* The database keeps the inputs and is_trained; the rest is gone.
Restart ==
    /\ faults < MaxFaults
    /\ faults' = faults + 1
    /\ writing' = NoSeries
    /\ storing' = [w \in Storers |-> Idle]
    /\ writeStamp' = 0 /\ priceStamp' = 0
    /\ run' = Idle
    /\ trained' \in BOOLEAN
    /\ trees' = FALSE
    /\ trainedAt' = 0
    /\ unflagged' = {}
    /\ UNCHANGED <<clock, data, model>>

RunSteps == RunCheck \/ TrainEnd \/ \E x \in Inputs : TrainRead(x)
StoreSteps(w) == PriceStamp(w) \/ PricePublish(w)

Next ==
    \/ \E s \in Series : SeriesCommit(s) \/ SeriesFail(s)
    \/ SeriesStamp
    \/ \E w \in Storers : PriceStore(w) \/ StoreSteps(w)
    \/ RunStart \/ RunSteps \/ TrainFail \/ TrainTooFew
    \/ Restart

Spec == Init /\ [][Next]_vars

\* Threads run on, and forecast runs start again every six hours.
Fairness ==
    /\ WF_vars(SeriesStamp)
    /\ \A w \in Storers : WF_vars(StoreSteps(w))
    /\ WF_vars(RunStart)
    /\ WF_vars(RunSteps)

FairSpec == Spec /\ Fairness
-----------------------------------------------------------------------------
(* Properties *)

\* A change of x later than t has moved a stamp beyond t, or its thread is
\* still to move it.
SeriesFlagged(s, t) == writeStamp > t \/ writing = s

DayFlagged(d, t) ==
    \/ priceStamp > t
    \/ \E w \in Storers :
          /\ storing[w] # Idle
          /\ d \in storing[w].days
          /\ storing[w].pc = "stamped" => storing[w].at > t

Flagged(x, t) == IF x \in Series THEN SeriesFlagged(x, t) ELSE DayFlagged(x, t)

\* Data written during a training triggers the next one: while a model is in
\* use, an input it was not trained on in its current content has a stamp
\* newer than last_trained_at, or the thread that changed it will set one.
\* The exceptions are the inputs whose stamp was lost.
FreshOrFlagged ==
    trained /\ trees =>
        \A x \in Inputs \ unflagged : model[x] = data[x] \/ Flagged(x, trainedAt)

\* The same of a training under way: what it has read and somebody changed
\* since is flagged later than the time the training will claim.
ReadOrFlagged ==
    run.pc = "training" =>
        \A x \in Inputs \ (unflagged \union run.unread) :
            run.seen[x] = data[x] \/ Flagged(x, run.started)

\* No stamp is from the future.
StampsArePast ==
    /\ writeStamp <= clock /\ priceStamp <= clock /\ trainedAt <= clock
    /\ run.pc = "training" => run.started <= clock
    /\ \A w \in Storers : storing[w].pc = "stamped" => storing[w].at <= clock

\* Whatever is stored is trained on in the end, or superseded by what is,
\* unless its stamp was lost.
StoredIsTrainedOn ==
    \A x \in Inputs : \A v \in 1..MaxChanges :
        (data[x] = v) ~> (model[x] >= v \/ x \in unflagged)
=============================================================================
