---------------------------- MODULE PriceHistory ----------------------------
(***************************************************************************)
(* The prices the model trains on: one entry per local day in memory       *)
(* (SpotPricePredictor.price_history), the spot_prices table that persists *)
(* them, and the cache of what was last written or read                    *)
(* (LearningStorage._saved_price_days) that lets a bulk save skip the days *)
(* that did not change.                                                    *)
(*                                                                         *)
(* Four kinds of code touch the three: forecast runs and the history       *)
(* backfill store prices in memory, learning saves write them, the daily   *)
(* prune deletes old rows, reset_learning empties the database.  Each runs *)
(* in executor threads, so every step below is one stretch that no other   *)
(* of them can interrupt in a way these variables show.                    *)
(*                                                                         *)
(* A day's price list is a record: the day the prices are of, and the      *)
(* revision of them the source had (a gap that was filled, a correction).  *)
(***************************************************************************)
EXTENDS Integers, FiniteSets

CONSTANTS
    LastDay,      \* the last local day of the run; days are 0..LastDay
    FirstDay,     \* the local day of the installation
    MaxDays,      \* max_history_days, the training window in local days
    Margin,       \* HISTORY_MARGIN_DAYS, kept on disk beyond the window
    Revisions,    \* the revisions a day's prices may appear in
    Forecasts,    \* forecast runs that may be under way together
    Backfills,    \* history backfills that may be under way together
    NoPrice       \* what a day that is not stored maps to

ASSUME DaysAssumption == LastDay \in Nat /\ FirstDay \in 0..LastDay
ASSUME WindowAssumption == MaxDays \in Nat \ {0} /\ Margin \in Nat
ASSUME NoPriceAssumption == NoPrice \notin [of : 0..LastDay, rev : Revisions]

Days == 0..LastDay
Price == [of : Days, rev : Revisions]
DayPrices == [Days -> Price \union {NoPrice}]
Empty == [d \in Days |-> NoPrice]

VARIABLES
    today,        \* the local date
    history,      \* price_history: the entry of each day, in memory
    saved,        \* _saved_price_days: each day as last written or read
    rows,         \* spot_prices as committed, per day
    saver,        \* the bulk save holding the storage lock
    pruner,       \* the daily prune
    forecast,     \* forecast runs between reading prices and storing them
    backfill,     \* history backfills
    astray        \* days whose cache entry a failed or raced save spoilt: what
                  \* the properties remember, read by no action

vars == <<today, history, saved, rows, saver, pruner, forecast, backfill,
          astray>>

Stored(h) == {d \in Days : h[d] # NoPrice}

\* Mutant: the cut keeps the oldest days.
NewestAreOldest(n, S) == {d \in S : Cardinality({e \in S : e < d}) < n}

\* The newest n days of a set of days, which is what price_history[-n:] keeps.
Newest(n, S) == {d \in S : Cardinality({e \in S : e > d}) < n}

Keep(h, S) == [d \in Days |-> IF d \in S THEN h[d] ELSE NoPrice]

\* Store a price list: p gives the prices of each local day it covers.  The
\* window is cut only by a call that added a day: one that only replaced
\* days returns before the cut.
StoreDailyPrices(h, p) ==
    LET merged == [d \in Days |-> IF p[d] # NoPrice THEN p[d] ELSE h[d]]
        added  == Stored(p) \ Stored(h)
    IN  IF added = {} THEN merged
        ELSE Keep(merged, Newest(MaxDays, Stored(merged)))

Idle == [pc |-> "idle"]
LockFree == saver.pc = "idle"
-----------------------------------------------------------------------------
TypeOK ==
    /\ today \in Days
    /\ history \in DayPrices
    /\ saved \in DayPrices
    /\ rows \in DayPrices
    /\ \/ saver = Idle
       \/ saver \in [pc : {"written", "marked"}, txn : DayPrices,
                     changed : SUBSET Days]
    /\ pruner \in {Idle} \union [pc : {"forget"}, before : Int]
    /\ forecast \in [Forecasts -> {Idle} \union
                       [pc : {"queued"}, day : Days, known : DayPrices]]
    /\ backfill \in [Backfills -> {Idle} \union [pc : {"fetching"}, day : Days]
                       \union [pc : {"adding"}, todo : DayPrices]]
    /\ astray \subseteq Days

Init ==
    /\ today = FirstDay
    /\ history = Empty
    /\ saved = Empty
    /\ rows = Empty
    /\ saver = Idle
    /\ pruner = Idle
    /\ forecast = [f \in Forecasts |-> Idle]
    /\ backfill = [b \in Backfills |-> Idle]
    /\ astray = {}
-----------------------------------------------------------------------------
(* Forecast runs *)

\* Prices of today, and of tomorrow if they are published, at one revision.
KnownPrices(day, tomorrow, r) ==
    [d \in Days |-> IF d = day \/ (tomorrow /\ d = day + 1)
                    THEN [of |-> d, rev |-> r] ELSE NoPrice]

\* run_forecast reads the known prices, then waits in the executor for the
\* predict lock, which a training may hold.
ForecastRead(f) ==
    /\ forecast[f] = Idle
    /\ \E tomorrow \in BOOLEAN, r \in Revisions :
          forecast' = [forecast EXCEPT ![f] =
              [pc |-> "queued", day |-> today,
               known |-> KnownPrices(today, tomorrow, r)]]
    /\ UNCHANGED <<today, history, saved, rows, saver, pruner, backfill, astray>>

\* Mutant: the list is taken to start at the following midnight.
DatedOneLate(known, from, to) ==
    [d \in Days |-> IF d - 1 \in Days THEN known[d - 1] ELSE NoPrice]

\* The price list starts at local midnight of the date it is stored on.
Dated(known, from, to) ==
    [d \in Days |-> IF d - (to - from) \in Days THEN known[d - (to - from)]
                    ELSE NoPrice]

Redated(f) == Dated(forecast[f].known, forecast[f].day, today)

\* The lock is free: the prices are stored as those of the current date.
ForecastRecord(f) ==
    /\ forecast[f] # Idle
    /\ history' = StoreDailyPrices(history, Redated(f))
    /\ forecast' = [forecast EXCEPT ![f] = Idle]
    /\ UNCHANGED <<today, saved, rows, saver, pruner, backfill, astray>>
-----------------------------------------------------------------------------
(* History backfill *)

\* Mutant: the window to backfill includes the current day.
WindowToToday(day) == {d \in Days : day - MaxDays <= d /\ d <= day}

Window(day) == {d \in Days : day - MaxDays <= d /\ d < day}

BackfillStart(b) ==
    /\ backfill[b] = Idle
    /\ backfill' = [backfill EXCEPT ![b] = [pc |-> "fetching", day |-> today]]
    /\ UNCHANGED <<today, history, saved, rows, saver, pruner, forecast, astray>>

\* Mutant: the days already in the history are fetched and stored again.
BackfillFilterNothing(b) ==
    /\ backfill[b].pc = "fetching"
    /\ \E got \in SUBSET Window(backfill[b].day), r \in Revisions :
          backfill' = [backfill EXCEPT ![b] =
              [pc |-> "adding",
               todo |-> [d \in Days |-> IF d \in got THEN [of |-> d, rev |-> r]
                                        ELSE NoPrice]]]
    /\ UNCHANGED <<today, history, saved, rows, saver, pruner, forecast, astray>>

\* The source answered with some of the window's days; those already in the
\* history are left out, once for the whole backfill.
BackfillFilter(b) ==
    /\ backfill[b].pc = "fetching"
    /\ \E got \in SUBSET Window(backfill[b].day), r \in Revisions :
          backfill' = [backfill EXCEPT ![b] =
              [pc |-> "adding",
               todo |-> [d \in Days |->
                   IF d \in got \ Stored(history) THEN [of |-> d, rev |-> r]
                   ELSE NoPrice]]]
    /\ UNCHANGED <<today, history, saved, rows, saver, pruner, forecast, astray>>

\* The oldest day the backfill still has to store (none, or one).
NextDays(b) ==
    LET todo == Stored(backfill[b].todo)
    IN  {d \in todo : \A e \in todo : d <= e}

\* One day, oldest first, in one executor job.
BackfillAdd(b) ==
    /\ backfill[b].pc = "adding"
    /\ \E d \in NextDays(b) :
          /\ history' = StoreDailyPrices(history, Keep(backfill[b].todo, {d}))
          /\ backfill' = [backfill EXCEPT ![b].todo[d] = NoPrice]
    /\ UNCHANGED <<today, saved, rows, saver, pruner, forecast, astray>>

BackfillEnd(b) ==
    /\ backfill[b].pc = "adding"
    /\ Stored(backfill[b].todo) = {}
    /\ backfill' = [backfill EXCEPT ![b] = Idle]
    /\ UNCHANGED <<today, history, saved, rows, saver, pruner, forecast, astray>>
-----------------------------------------------------------------------------
(* Learning saves *)

\* The days a save writes: those that differ from what was last written.
ChangedDays == {d \in Stored(history) : history[d] # saved[d]}

\* The save takes the storage lock and rewrites the rows of the changed days.
SaveWrite ==
    /\ LockFree
    /\ saver' = [pc |-> "written",
                 txn |-> [d \in Days |-> IF d \in ChangedDays THEN history[d]
                                         ELSE rows[d]],
                 changed |-> ChangedDays]
    /\ UNCHANGED <<today, history, saved, rows, pruner, forecast, backfill, astray>>

\* Mutant: every day in memory is remembered as saved.
SaveMarkAll ==
    /\ saver.pc = "written"
    /\ saved' = [d \in Days |-> IF history[d] # NoPrice THEN history[d]
                                ELSE saved[d]]
    /\ astray' = {d \in astray : d \notin saver.changed} \union
                 {d \in saver.changed \cap Stored(history) :
                      history[d] # saver.txn[d]}
    /\ saver' = [saver EXCEPT !.pc = "marked"]
    /\ UNCHANGED <<today, history, rows, pruner, forecast, backfill>>

\* The written entries are remembered, with the prices they hold by now: an
\* entry still in the history may have been given others since.
SaveMark ==
    /\ saver.pc = "written"
    /\ LET now == [d \in Days |-> IF history[d] # NoPrice THEN history[d]
                                  ELSE saver.txn[d]]
       IN  /\ saved' = [d \in Days |-> IF d \in saver.changed THEN now[d]
                                       ELSE saved[d]]
           /\ astray' = {d \in astray : d \notin saver.changed} \union
                        {d \in saver.changed : now[d] # saver.txn[d]}
    /\ saver' = [saver EXCEPT !.pc = "marked"]
    /\ UNCHANGED <<today, history, rows, pruner, forecast, backfill>>

SaveCommit ==
    /\ saver.pc = "marked"
    /\ rows' = saver.txn
    /\ saver' = Idle
    /\ UNCHANGED <<today, history, saved, pruner, forecast, backfill, astray>>

\* Mutant: the error path does not give the lock up.
SaveFailHoldsLock ==
    /\ saver.pc \in {"written", "marked"}
    /\ astray' = IF saver.pc = "marked"
                 THEN astray \union {d \in saver.changed : saved[d] # rows[d]}
                 ELSE astray
    /\ saver' = [saver EXCEPT !.pc = "failed"]
    /\ UNCHANGED <<today, history, saved, rows, pruner, forecast, backfill>>

\* Any statement may fail (a full disk, a locked file).  The transaction is
\* rolled back; the cache is not.
SaveFail ==
    /\ saver.pc \in {"written", "marked"}
    /\ astray' = IF saver.pc = "marked"
                 THEN astray \union {d \in saver.changed : saved[d] # rows[d]}
                 ELSE astray
    /\ saver' = Idle
    /\ UNCHANGED <<today, history, saved, rows, pruner, forecast, backfill>>
-----------------------------------------------------------------------------
(* Prune, reset, midnight and restart *)

\* delete_old_prices deletes and commits under the lock ...
PruneDelete ==
    /\ pruner = Idle
    /\ LockFree
    /\ LET before == today - (MaxDays + Margin)
       IN  /\ rows' = Keep(rows, {d \in Days : d >= before})
           /\ pruner' = [pc |-> "forget", before |-> before]
    /\ UNCHANGED <<today, history, saved, saver, forecast, backfill, astray>>

\* ... and forgets the cached days after giving the lock up.
PruneForget ==
    /\ pruner.pc = "forget"
    /\ saved' = Keep(saved, {d \in Days : d >= pruner.before})
    /\ astray' = {d \in astray : d >= pruner.before}
    /\ pruner' = Idle
    /\ UNCHANGED <<today, history, rows, saver, forecast, backfill>>

\* Mutant: the cache is not emptied with the tables.
ResetKeepsCache ==
    /\ LockFree
    /\ rows' = Empty
    /\ UNCHANGED <<today, history, saved, saver, pruner, forecast, backfill, astray>>

\* reset_learning: every table is dropped and the cache emptied, under the
\* lock; the prices in memory stay.
ResetLearning ==
    /\ LockFree
    /\ rows' = Empty
    /\ saved' = Empty
    /\ astray' = {}
    /\ UNCHANGED <<today, history, saver, pruner, forecast, backfill>>

\* Local midnight.
NewDay ==
    /\ today < LastDay - 1
    /\ today' = today + 1
    /\ UNCHANGED <<history, saved, rows, saver, pruner, forecast, backfill, astray>>

\* The process stops at any point and starts again from the database.
Restart ==
    /\ history' = rows
    /\ saved' = rows
    /\ saver' = Idle
    /\ pruner' = Idle
    /\ forecast' = [f \in Forecasts |-> Idle]
    /\ backfill' = [b \in Backfills |-> Idle]
    /\ astray' = {}
    /\ UNCHANGED <<today, rows>>

Next ==
    \/ \E f \in Forecasts : ForecastRead(f) \/ ForecastRecord(f)
    \/ \E b \in Backfills : \/ BackfillStart(b) \/ BackfillFilter(b)
                            \/ BackfillAdd(b) \/ BackfillEnd(b)
    \/ SaveWrite \/ SaveMark \/ SaveCommit \/ SaveFail
    \/ PruneDelete \/ PruneForget
    \/ ResetLearning \/ NewDay \/ Restart

Spec == Init /\ [][Next]_vars
-----------------------------------------------------------------------------
(* Properties *)

\* Days whose rows are deleted and whose cache entries are about to go.
BeingPruned == IF pruner = Idle THEN {} ELSE {d \in Days : d < pruner.before}

\* The rows a save in progress will leave, or else the committed ones.
RowsToBe == IF saver.pc = "marked" THEN saver.txn ELSE rows

\* What the cache holds of a day is what its rows hold, except for the days a
\* failed or raced save spoilt and those being pruned: the strengthening
\* NoDayIsSkipped rests on.
CacheMatchesRows ==
    \A d \in Days \ (astray \union BeingPruned) :
        saved[d] # NoPrice => saved[d] = RowsToBe[d]

\* A day in memory whose prices are not in the database is one the next save
\* will write (write_changed_days skips only days equal to their cache entry),
\* unless an earlier save of that very day failed after it was marked as
\* saved, or was overtaken by new prices between its write and its mark.
NoDayIsSkipped ==
    LockFree /\ pruner = Idle =>
        \A d \in Stored(history) \ astray :
            history[d] # rows[d] => d \in ChangedDays

\* The window drops a day only for newer ones: the days left are all newer
\* than it, and they fill the window exactly.
TrimKeepsNewest ==
    [][\/ Restart
       \/ \A d \in Stored(history) \ Stored(history') :
            /\ \A e \in Stored(history') : e > d
            /\ Cardinality(Stored(history')) = MaxDays]_vars

\* Prices of another day enter the history only when a forecast run that read
\* them before a midnight stores them after it, and then only on the new
\* today and tomorrow: backfill, trim, save and reload never shift a day.
OnlyLateForecastsMisdate ==
    [][\A d \in Stored(history') :
         history'[d].of # d /\ history'[d] # history[d] =>
            \/ Restart
            \/ /\ d \in {today, today + 1}
               /\ \E f \in Forecasts : /\ forecast[f] # Idle
                                       /\ forecast[f].day < today
                                       /\ forecast'[f] = Idle]_vars
=============================================================================
