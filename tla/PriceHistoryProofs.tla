------------------------- MODULE PriceHistoryProofs -------------------------
(***************************************************************************)
(* Proofs about PriceHistory, for any window, margin, horizon, number of   *)
(* forecast runs and of backfills: the cache of a bulk save never hides a  *)
(* changed day, except for those a save spoilt; no day gets another day's  *)
(* prices, except from a forecast run that crossed a midnight; the cut of  *)
(* the window keeps the newest days; a backfill only fills gaps.           *)
(***************************************************************************)
EXTENDS MCPriceHistory, FiniteSetTheorems, WellFoundedInduction, TLAPS

\* A save in progress leaves the rows of the days it does not rewrite alone:
\* nobody else changes rows while it holds the lock.  Without it a save that
\* commits, or rolls back, could part the cache from the rows of such a day.
OthersKeepTheirRows ==
    saver # Idle => \A d \in Days \ saver.changed : saver.txn[d] = rows[d]

\* The inductive invariant of the cache.
CacheInv == TypeOK /\ OthersKeepTheirRows /\ CacheMatchesRows

\* What a forecast run and a backfill hold until they store it: prices of
\* their own days, read on a day that is not yet to come.
OwnPrices(p) == \A d \in Days : p[d] # NoPrice => p[d].of = d
HeldPricesAreOwn ==
    /\ \A f \in Forecasts : forecast[f] # Idle =>
          /\ forecast[f].day <= today
          /\ OwnPrices(forecast[f].known)
          /\ Stored(forecast[f].known)
                \subseteq {forecast[f].day, forecast[f].day + 1}
    /\ \A b \in Backfills :
          backfill[b].pc = "adding" => OwnPrices(backfill[b].todo)

-----------------------------------------------------------------------------
(* The operators *)

\* Cutting a history to some days, or storing prices in it, yields a history.
LEMMA StoreTypes ==
    ASSUME NEW h \in DayPrices, NEW p \in DayPrices
    PROVE  /\ \A S : Keep(h, S) \in DayPrices
           /\ StoreDailyPrices(h, p) \in DayPrices
<1>1. \A x \in DayPrices : \A S : Keep(x, S) \in DayPrices
    BY DEF Keep, DayPrices
<1> DEFINE merged == [d \in Days |-> IF p[d] # NoPrice THEN p[d] ELSE h[d]]
<1>2. merged \in DayPrices
    BY DEF DayPrices
<1>3. \/ StoreDailyPrices(h, p) = merged
      \/ StoreDailyPrices(h, p) = Keep(merged, Newest(MaxDays, Stored(merged)))
    BY DEF StoreDailyPrices
<1> HIDE DEF merged
<1> QED
    BY <1>1, <1>2, <1>3

\* Storing prices leaves each day with what it had, what was stored, or
\* nothing.
LEMMA StoreOrigin ==
    ASSUME NEW h \in DayPrices, NEW p \in DayPrices, NEW d \in Days
    PROVE  StoreDailyPrices(h, p)[d] \in {h[d], p[d], NoPrice}
<1> DEFINE merged == [e \in Days |-> IF p[e] # NoPrice THEN p[e] ELSE h[e]]
<1>1. merged[d] \in {h[d], p[d]}
    OBVIOUS
<1>2. \A S : Keep(merged, S)[d] \in {merged[d], NoPrice}
    BY DEF Keep
<1>3. \/ StoreDailyPrices(h, p) = merged
      \/ StoreDailyPrices(h, p) = Keep(merged, Newest(MaxDays, Stored(merged)))
    BY DEF StoreDailyPrices
<1> HIDE DEF merged
<1> QED
    BY <1>1, <1>2, <1>3

-----------------------------------------------------------------------------
(* Types *)

\* What Init establishes.
LEMMA InitInv == Init => CacheInv /\ HeldPricesAreOwn
<1> SUFFICES ASSUME Init PROVE CacheInv /\ HeldPricesAreOwn
    OBVIOUS
<1>1. TypeOK
    BY DaysAssumption DEF Init, TypeOK, DayPrices, Empty, Idle, Days
<1>2. OthersKeepTheirRows /\ CacheMatchesRows
    BY DEF Init, OthersKeepTheirRows, CacheMatchesRows, Empty, Idle
<1>3. HeldPricesAreOwn
    BY DEF Init, HeldPricesAreOwn, Idle
<1> QED
    BY <1>1, <1>2, <1>3 DEF CacheInv

\* The steps of forecast runs keep the types.
LEMMA ForecastTypes ==
    ASSUME TypeOK, NEW f \in Forecasts, ForecastRead(f) \/ ForecastRecord(f)
    PROVE  TypeOK'
<1> USE DEF TypeOK
<1>1. CASE ForecastRead(f)
    <2>1. PICK tomorrow \in BOOLEAN, r \in Revisions :
              forecast' = [forecast EXCEPT ![f] =
                  [pc |-> "queued", day |-> today,
                   known |-> KnownPrices(today, tomorrow, r)]]
        BY <1>1 DEF ForecastRead
    <2>2. KnownPrices(today, tomorrow, r) \in DayPrices
        BY DEF KnownPrices, DayPrices, Price
    <2>3. [pc |-> "queued", day |-> today,
           known |-> KnownPrices(today, tomorrow, r)]
              \in [pc : {"queued"}, day : Days, known : DayPrices]
        BY <2>2
    <2> QED
        BY <1>1, <2>1, <2>3 DEF ForecastRead
<1>2. CASE ForecastRecord(f)
    <2>1. forecast[f].known \in DayPrices
        BY <1>2 DEF ForecastRecord
    <2>2. Redated(f) \in DayPrices
        BY <2>1 DEF Redated, Dated, DayPrices
    <2>3. history' \in DayPrices
        BY <1>2, <2>2, StoreTypes DEF ForecastRecord
    <2> QED
        BY <1>2, <2>3 DEF ForecastRecord
<1> QED
    BY <1>1, <1>2

\* The steps of backfills keep the types.
LEMMA BackfillTypes ==
    ASSUME TypeOK, NEW b \in Backfills,
           \/ BackfillStart(b) \/ BackfillFilter(b)
           \/ BackfillAdd(b) \/ BackfillEnd(b)
    PROVE  TypeOK'
<1> USE DEF TypeOK
<1>1. CASE BackfillStart(b)
    BY <1>1 DEF BackfillStart
<1>2. CASE BackfillFilter(b)
    <2>1. PICK got \in SUBSET Window(backfill[b].day), r \in Revisions :
              backfill' = [backfill EXCEPT ![b] =
                  [pc |-> "adding",
                   todo |-> [d \in Days |->
                       IF d \in got \ Stored(history) THEN [of |-> d, rev |-> r]
                       ELSE NoPrice]]]
        BY <1>2 DEF BackfillFilter
    <2>2. [d \in Days |->
               IF d \in got \ Stored(history) THEN [of |-> d, rev |-> r]
               ELSE NoPrice] \in DayPrices
        BY DEF DayPrices, Price
    <2> QED
        BY <1>2, <2>1, <2>2 DEF BackfillFilter
<1>3. CASE BackfillAdd(b)
    <2>1. backfill[b].todo \in DayPrices
        BY <1>3 DEF BackfillAdd, Idle
    <2>2. PICK d \in NextDays(b) :
              /\ history' = StoreDailyPrices(history, Keep(backfill[b].todo, {d}))
              /\ backfill' = [backfill EXCEPT ![b].todo[d] = NoPrice]
        BY <1>3 DEF BackfillAdd
    <2>3. history' \in DayPrices
        BY <2>1, <2>2, StoreTypes
    <2>4. [backfill[b].todo EXCEPT ![d] = NoPrice] \in DayPrices
        BY <2>1 DEF DayPrices
    <2>5. [backfill[b] EXCEPT !.todo[d] = NoPrice]
              \in [pc : {"adding"}, todo : DayPrices]
        BY <1>3, <2>1, <2>4 DEF BackfillAdd, Idle
    <2> QED
        BY <1>3, <2>2, <2>3, <2>5 DEF BackfillAdd
<1>4. CASE BackfillEnd(b)
    BY <1>4 DEF BackfillEnd
<1> QED
    BY <1>1, <1>2, <1>3, <1>4

\* Every step keeps the types.
LEMMA TypeStep == TypeOK /\ [Next]_vars => TypeOK'
<1> SUFFICES ASSUME TypeOK, [Next]_vars PROVE TypeOK'
    OBVIOUS
<1> USE DEF TypeOK
<1>1. ASSUME NEW f \in Forecasts, ForecastRead(f) \/ ForecastRecord(f)
      PROVE  TypeOK'
    BY <1>1, ForecastTypes
<1>2. ASSUME NEW b \in Backfills,
             \/ BackfillStart(b) \/ BackfillFilter(b)
             \/ BackfillAdd(b) \/ BackfillEnd(b)
      PROVE  TypeOK'
    BY <1>2, BackfillTypes
<1>3. CASE SaveWrite
    <2>1. [d \in Days |-> IF d \in ChangedDays THEN history[d] ELSE rows[d]]
              \in DayPrices
        BY DEF DayPrices
    <2>2. ChangedDays \subseteq Days
        BY DEF ChangedDays, Stored
    <2> QED
        BY <1>3, <2>1, <2>2 DEF SaveWrite
<1>4. CASE SaveMark
    <2>1. saver.txn \in DayPrices /\ saver.changed \subseteq Days
        BY <1>4 DEF SaveMark, Idle
    <2>2. saved' \in DayPrices
        BY <1>4, <2>1 DEF SaveMark, DayPrices
    <2>3. astray' \subseteq Days
        BY <1>4, <2>1 DEF SaveMark
    <2>4. saver' \in [pc : {"written", "marked"}, txn : DayPrices,
                      changed : SUBSET Days]
        BY <1>4 DEF SaveMark, Idle
    <2> QED
        BY <1>4, <2>2, <2>3, <2>4 DEF SaveMark
<1>5. CASE SaveCommit
    BY <1>5 DEF SaveCommit, Idle
<1>6. CASE SaveFail
    BY <1>6 DEF SaveFail, Idle
<1>7. CASE PruneDelete
    <2>1. today - (MaxDays + Margin) \in Int
        BY WindowAssumption DEF Days
    <2>2. rows' \in DayPrices
        BY <1>7, StoreTypes DEF PruneDelete
    <2>3. pruner' \in [pc : {"forget"}, before : Int]
        BY <1>7, <2>1 DEF PruneDelete
    <2> QED
        BY <1>7, <2>2, <2>3 DEF PruneDelete
<1>8. CASE PruneForget
    <2>1. saved' \in DayPrices
        BY <1>8, StoreTypes DEF PruneForget
    <2> QED
        BY <1>8, <2>1 DEF PruneForget
<1>9. CASE ResetLearning
    <2>1. Empty \in DayPrices
        BY DEF Empty, DayPrices
    <2> QED
        BY <1>9, <2>1 DEF ResetLearning
<1>10. CASE NewDay
    <2>1. today + 1 \in Days
        BY <1>10, DaysAssumption DEF NewDay, Days
    <2> QED
        BY <1>10, <2>1 DEF NewDay
<1>11. CASE Restart
    BY <1>11 DEF Restart
<1>12. CASE UNCHANGED vars
    BY <1>12 DEF vars
<1> QED
    BY <1>1, <1>2, <1>3, <1>4, <1>5, <1>6, <1>7, <1>8, <1>9, <1>10, <1>11,
       <1>12 DEF Next
-----------------------------------------------------------------------------
(* The cache *)

\* Every step keeps OthersKeepTheirRows: rows change only while nobody saves,
\* or by the save that then ends.
LEMMA OthersStep ==
    TypeOK /\ OthersKeepTheirRows /\ [Next]_vars => OthersKeepTheirRows'
<1> SUFFICES ASSUME TypeOK, OthersKeepTheirRows, [Next]_vars
             PROVE  OthersKeepTheirRows'
    OBVIOUS
<1> USE DEF OthersKeepTheirRows
<1>1. CASE UNCHANGED <<saver, rows>>
    BY <1>1
<1>2. CASE SaveWrite
    BY <1>2 DEF SaveWrite
<1>3. CASE SaveMark
    <2>1. /\ saver # Idle /\ rows' = rows
          /\ saver'.txn = saver.txn /\ saver'.changed = saver.changed
        BY <1>3 DEF SaveMark, TypeOK, Idle
    <2> QED
        BY <2>1
<1>4. CASE SaveCommit \/ SaveFail \/ Restart
    BY <1>4 DEF SaveCommit, SaveFail, Restart
<1>5. CASE PruneDelete \/ ResetLearning
    <2>1. saver = Idle /\ saver' = saver
        BY <1>5 DEF PruneDelete, ResetLearning, LockFree, TypeOK
    <2> QED
        BY <2>1
<1>6. ASSUME NEW f \in Forecasts, ForecastRead(f) \/ ForecastRecord(f)
      PROVE  UNCHANGED <<saver, rows>>
    BY <1>6 DEF ForecastRead, ForecastRecord
<1>7. ASSUME NEW b \in Backfills,
             \/ BackfillStart(b) \/ BackfillFilter(b)
             \/ BackfillAdd(b) \/ BackfillEnd(b)
      PROVE  UNCHANGED <<saver, rows>>
    BY <1>7 DEF BackfillStart, BackfillFilter, BackfillAdd, BackfillEnd
<1>8. CASE PruneForget \/ NewDay \/ UNCHANGED vars
    BY <1>1, <1>8 DEF PruneForget, NewDay, vars
<1> QED
    BY <1>1, <1>2, <1>3, <1>4, <1>5, <1>6, <1>7, <1>8 DEF Next

\* A step that touches neither the rows nor the cache keeps CacheMatchesRows.
LEMMA CacheUntouched ==
    ASSUME CacheMatchesRows, UNCHANGED <<saved, rows, saver, pruner, astray>>
    PROVE  CacheMatchesRows'
BY DEF CacheMatchesRows, BeingPruned, RowsToBe

\* The steps of a save keep CacheMatchesRows.
LEMMA CacheSaveStep ==
    ASSUME CacheInv, SaveWrite \/ SaveMark \/ SaveCommit \/ SaveFail
    PROVE  CacheMatchesRows'
<1> USE DEF CacheInv, CacheMatchesRows, RowsToBe
<1>1. BeingPruned' = BeingPruned
    BY DEF SaveWrite, SaveMark, SaveCommit, SaveFail, BeingPruned
<1> SUFFICES ASSUME NEW d \in Days, d \notin astray', d \notin BeingPruned,
                    saved'[d] # NoPrice
             PROVE  saved'[d] = RowsToBe'[d]
    BY <1>1
<1>2. CASE SaveWrite
    <2>1. saver.pc # "marked" /\ saver'.pc # "marked"
        BY <1>2 DEF SaveWrite, LockFree
    <2> QED
        BY <1>2, <2>1 DEF SaveWrite
<1>3. CASE SaveMark
    <2> DEFINE now == [e \in Days |-> IF history[e] # NoPrice THEN history[e]
                                      ELSE saver.txn[e]]
    <2>1. /\ saved' = [e \in Days |-> IF e \in saver.changed THEN now[e]
                                      ELSE saved[e]]
          /\ astray' = {e \in astray : e \notin saver.changed} \union
                       {e \in saver.changed : now[e] # saver.txn[e]}
        BY <1>3 DEF SaveMark
    <2>2. saver.pc = "written" /\ saver # Idle /\ rows' = rows
        BY <1>3 DEF SaveMark, Idle
    <2>3. saver'.pc = "marked" /\ saver'.txn = saver.txn
        BY <1>3, <2>2 DEF SaveMark, TypeOK
    <2> HIDE DEF now
    <2>4. CASE d \in saver.changed
        <3>1. now[d] = saver.txn[d]
            BY <2>1, <2>4
        <3> QED
            BY <2>1, <2>3, <2>4, <3>1
    <2>5. CASE d \notin saver.changed
        <3>1. d \notin astray /\ saved'[d] = saved[d]
            BY <2>1, <2>5
        <3>2. saved[d] = rows[d]
            BY <2>2, <3>1
        <3>3. saver.txn[d] = rows[d]
            BY <2>2, <2>5 DEF OthersKeepTheirRows
        <3> QED
            BY <2>3, <3>1, <3>2, <3>3
    <2> QED
        BY <2>4, <2>5
<1>4. CASE SaveCommit
    BY <1>4 DEF SaveCommit, Idle
<1>5. CASE SaveFail
    <2>1. saver # Idle /\ saver'.pc # "marked"
        BY <1>5 DEF SaveFail, Idle
    <2>2. CASE saver.pc = "marked"
        <3>1. d \notin astray /\ saved[d] = saver.txn[d]
            BY <1>5, <2>2 DEF SaveFail
        <3>2. d \in saver.changed => saved[d] = rows[d]
            BY <1>5, <2>2 DEF SaveFail
        <3>3. d \notin saver.changed => saver.txn[d] = rows[d]
            BY <2>1 DEF OthersKeepTheirRows
        <3> QED
            BY <1>5, <2>1, <3>1, <3>2, <3>3 DEF SaveFail
    <2>3. CASE saver.pc # "marked"
        BY <1>5, <2>1, <2>3 DEF SaveFail
    <2> QED
        BY <2>2, <2>3
<1> QED
    BY <1>2, <1>3, <1>4, <1>5

\* The steps of the prune, a reset and a restart keep CacheMatchesRows.
LEMMA CacheDeleteStep ==
    ASSUME CacheInv, PruneDelete \/ PruneForget \/ ResetLearning \/ Restart
    PROVE  CacheMatchesRows'
<1> USE DEF CacheInv, CacheMatchesRows, RowsToBe
<1>1. CASE PruneDelete
    <2> DEFINE before == today - (MaxDays + Margin)
    <2>1. BeingPruned' = {d \in Days : d < before} /\ BeingPruned = {}
        BY <1>1 DEF PruneDelete, BeingPruned, Idle
    <2>2. saver.pc # "marked" /\ UNCHANGED <<saver, saved, astray>>
        BY <1>1 DEF PruneDelete, LockFree
    <2>3. before \in Int
        BY WindowAssumption DEF TypeOK, Days
    <2>4. \A d \in Days : ~(d < before) => rows'[d] = rows[d]
        BY <1>1, <2>3 DEF PruneDelete, Keep, Days
    <2> QED
        BY <2>1, <2>2, <2>4
<1>2. CASE PruneForget
    <2>1. /\ BeingPruned = {d \in Days : d < pruner.before}
          /\ pruner.before \in Int
        BY <1>2 DEF PruneForget, BeingPruned, TypeOK, Idle
    <2>2. /\ saved' = Keep(saved, {d \in Days : d >= pruner.before})
          /\ astray' = {d \in astray : d >= pruner.before}
          /\ UNCHANGED <<rows, saver>>
        BY <1>2 DEF PruneForget
    <2>3. \A d \in Days : saved'[d] # NoPrice =>
              /\ d >= pruner.before
              /\ saved'[d] = saved[d]
        BY <2>2 DEF Keep
    <2>4. \A d \in Days : d >= pruner.before => d \notin BeingPruned
        BY <2>1 DEF Days
    <2>5. \A d \in Days : d >= pruner.before /\ d \notin astray' => d \notin astray
        BY <2>2
    <2> QED
        BY <2>2, <2>3, <2>4, <2>5
<1>3. CASE ResetLearning
    BY <1>3 DEF ResetLearning, Empty
<1>4. CASE Restart
    BY <1>4 DEF Restart, Idle
<1> QED
    BY <1>1, <1>2, <1>3, <1>4

\* The inductive invariant of the cache is inductive.
LEMMA CacheStep == CacheInv /\ [Next]_vars => CacheInv'
<1> SUFFICES ASSUME CacheInv, [Next]_vars PROVE CacheInv'
    OBVIOUS
<1>1. TypeOK' /\ OthersKeepTheirRows'
    BY TypeStep, OthersStep DEF CacheInv
<1>2. ASSUME NEW f \in Forecasts, ForecastRead(f) \/ ForecastRecord(f)
      PROVE  UNCHANGED <<saved, rows, saver, pruner, astray>>
    BY <1>2 DEF ForecastRead, ForecastRecord
<1>3. ASSUME NEW b \in Backfills,
             \/ BackfillStart(b) \/ BackfillFilter(b)
             \/ BackfillAdd(b) \/ BackfillEnd(b)
      PROVE  UNCHANGED <<saved, rows, saver, pruner, astray>>
    BY <1>3 DEF BackfillStart, BackfillFilter, BackfillAdd, BackfillEnd
<1>4. NewDay \/ UNCHANGED vars =>
          UNCHANGED <<saved, rows, saver, pruner, astray>>
    BY DEF NewDay, vars
<1>5. CacheMatchesRows'
    BY <1>2, <1>3, <1>4, CacheUntouched, CacheSaveStep, CacheDeleteStep
       DEF Next, CacheInv
<1> QED
    BY <1>1, <1>5 DEF CacheInv

\* The state always has the declared types.
THEOREM TypeCorrect == Spec => []TypeOK
<1>1. Init => TypeOK
    BY InitInv DEF CacheInv
<1> QED
    BY <1>1, TypeStep, PTL DEF Spec

\* Outside of the days a failed or raced save spoilt, the cache a bulk save
\* compares with is what the database holds, at every moment of a save and a
\* prune (write_changed_days, delete_old_prices).
THEOREM CacheIsTrue == Spec => []CacheMatchesRows
<1>1. Init => CacheInv
    BY InitInv
<1>2. CacheInv => CacheMatchesRows
    BY DEF CacheInv
<1> QED
    BY <1>1, <1>2, CacheStep, PTL DEF Spec

\* A bulk save leaves out no day whose prices differ from the database, but
\* for the days an earlier save spoilt.
THEOREM NoChangeIsSkipped == Spec => []NoDayIsSkipped
<1>1. Init => CacheInv
    BY InitInv
<1>2. CacheInv => NoDayIsSkipped
    <2> SUFFICES ASSUME CacheMatchesRows, LockFree, pruner = Idle,
                        NEW d \in Stored(history) \ astray,
                        history[d] # rows[d]
                 PROVE  d \in ChangedDays
        BY DEF CacheInv, NoDayIsSkipped
    <2>1. d \in Days /\ history[d] # NoPrice
        BY DEF Stored
    <2>2. saved[d] # NoPrice => saved[d] = rows[d]
        BY <2>1 DEF CacheMatchesRows, BeingPruned, RowsToBe, LockFree
    <2> QED
        BY <2>1, <2>2 DEF ChangedDays, Stored
<1> QED
    BY <1>1, <1>2, CacheStep, PTL DEF Spec
-----------------------------------------------------------------------------
(* The days of the prices *)

\* A price list that was read today holds the prices of today and tomorrow.
LEMMA KnownPricesAreOwn ==
    ASSUME NEW day \in Days, NEW tomorrow \in BOOLEAN, NEW r \in Revisions
    PROVE  /\ OwnPrices(KnownPrices(day, tomorrow, r))
           /\ Stored(KnownPrices(day, tomorrow, r)) \subseteq {day, day + 1}
BY NoPriceAssumption DEF KnownPrices, OwnPrices, Stored, Days

\* Every step keeps HeldPricesAreOwn.
LEMMA HeldStep == TypeOK /\ HeldPricesAreOwn /\ [Next]_vars => HeldPricesAreOwn'
<1> SUFFICES ASSUME TypeOK, HeldPricesAreOwn, [Next]_vars
             PROVE  HeldPricesAreOwn'
    OBVIOUS
<1> USE DEF TypeOK, HeldPricesAreOwn
<1>1. CASE UNCHANGED <<today, forecast, backfill>>
    BY <1>1 DEF OwnPrices
<1>2. ASSUME NEW f \in Forecasts, ForecastRead(f) PROVE HeldPricesAreOwn'
    <2>1. PICK tomorrow \in BOOLEAN, r \in Revisions :
              forecast' = [forecast EXCEPT ![f] =
                  [pc |-> "queued", day |-> today,
                   known |-> KnownPrices(today, tomorrow, r)]]
        BY <1>2 DEF ForecastRead
    <2> DEFINE new == [pc |-> "queued", day |-> today,
                       known |-> KnownPrices(today, tomorrow, r)]
    <2>2. /\ new.day <= today /\ OwnPrices(new.known)
          /\ Stored(new.known) \subseteq {new.day, new.day + 1}
        BY KnownPricesAreOwn DEF Days
    <2>3. /\ forecast'[f] = new
          /\ \A g \in Forecasts \ {f} : forecast'[g] = forecast[g]
          /\ UNCHANGED <<today, backfill>>
        BY <1>2, <2>1 DEF ForecastRead
    <2> HIDE DEF new
    <2> QED
        BY <2>2, <2>3
<1>3. ASSUME NEW f \in Forecasts, ForecastRecord(f) PROVE HeldPricesAreOwn'
    <2>1. /\ forecast'[f] = Idle
          /\ \A g \in Forecasts \ {f} : forecast'[g] = forecast[g]
          /\ UNCHANGED <<today, backfill>>
        BY <1>3 DEF ForecastRecord
    <2> QED
        BY <2>1
<1>4. ASSUME NEW b \in Backfills, BackfillStart(b) \/ BackfillEnd(b)
      PROVE  HeldPricesAreOwn'
    <2>1. /\ backfill'[b].pc # "adding"
          /\ \A c \in Backfills \ {b} : backfill'[c] = backfill[c]
          /\ UNCHANGED <<today, forecast>>
        BY <1>4 DEF BackfillStart, BackfillEnd, Idle
    <2> QED
        BY <2>1
<1>5. ASSUME NEW b \in Backfills, BackfillFilter(b) PROVE HeldPricesAreOwn'
    <2>1. PICK got \in SUBSET Window(backfill[b].day), r \in Revisions :
              backfill' = [backfill EXCEPT ![b] =
                  [pc |-> "adding",
                   todo |-> [d \in Days |->
                       IF d \in got \ Stored(history) THEN [of |-> d, rev |-> r]
                       ELSE NoPrice]]]
        BY <1>5 DEF BackfillFilter
    <2>2. OwnPrices(backfill'[b].todo)
        BY <2>1 DEF OwnPrices
    <2>3. /\ \A c \in Backfills \ {b} : backfill'[c] = backfill[c]
          /\ UNCHANGED <<today, forecast>>
        BY <1>5, <2>1 DEF BackfillFilter
    <2> QED
        BY <2>2, <2>3
<1>6. ASSUME NEW b \in Backfills, BackfillAdd(b) PROVE HeldPricesAreOwn'
    <2>1. PICK d \in NextDays(b) :
              backfill' = [backfill EXCEPT ![b].todo[d] = NoPrice]
        BY <1>6 DEF BackfillAdd
    <2>2. backfill[b].todo \in DayPrices /\ OwnPrices(backfill[b].todo)
        BY <1>6 DEF BackfillAdd, Idle
    <2>3. backfill'[b].todo = [backfill[b].todo EXCEPT ![d] = NoPrice]
        BY <1>6, <2>1 DEF BackfillAdd, Idle
    <2>4. OwnPrices(backfill'[b].todo)
        BY <2>2, <2>3 DEF OwnPrices, DayPrices
    <2>5. /\ \A c \in Backfills \ {b} : backfill'[c] = backfill[c]
          /\ UNCHANGED <<today, forecast>>
        BY <1>6, <2>1 DEF BackfillAdd
    <2> QED
        BY <2>4, <2>5
<1>7. CASE SaveWrite \/ SaveMark \/ SaveCommit \/ SaveFail
    BY <1>1, <1>7 DEF SaveWrite, SaveMark, SaveCommit, SaveFail
<1>8. CASE PruneDelete \/ PruneForget \/ ResetLearning \/ UNCHANGED vars
    BY <1>1, <1>8 DEF PruneDelete, PruneForget, ResetLearning, vars
<1>9. CASE NewDay
    <2>1. today' > today /\ UNCHANGED <<forecast, backfill>>
        BY <1>9 DEF NewDay, Days
    <2>2. \A f \in Forecasts : forecast[f] # Idle => forecast[f].day <= today'
        BY <1>9, <2>1 DEF NewDay, Days
    <2> QED
        BY <2>1, <2>2
<1>10. CASE Restart
    BY <1>10 DEF Restart, Idle
<1> QED
    BY <1>2, <1>3, <1>4, <1>5, <1>6, <1>7, <1>8, <1>9, <1>10 DEF Next

\* A day of a forecast run's list is stored, under another day's date, only
\* when the run crossed a midnight, on the new today or tomorrow.
LEMMA RedatedIsLate ==
    ASSUME TypeOK, HeldPricesAreOwn, NEW f \in Forecasts, forecast[f] # Idle,
           NEW d \in Days, Redated(f)[d] # NoPrice, Redated(f)[d].of # d
    PROVE  forecast[f].day < today /\ d \in {today, today + 1}
<1> DEFINE from == d - (today - forecast[f].day)
<1>1. /\ forecast[f].day \in Days /\ forecast[f].known \in DayPrices
      /\ forecast[f].day <= today /\ today \in Days
    BY DEF TypeOK, HeldPricesAreOwn
<1>2. from \in Days /\ Redated(f)[d] = forecast[f].known[from]
    BY DEF Redated, Dated
<1>3. forecast[f].known[from].of = from
    BY <1>2 DEF HeldPricesAreOwn, OwnPrices
<1>4. from \in {forecast[f].day, forecast[f].day + 1}
    BY <1>2 DEF HeldPricesAreOwn, Stored
<1> QED
    BY <1>1, <1>2, <1>3, <1>4 DEF Days

\* Prices are dated wrong only by a forecast run that read them before a
\* midnight and stores them after it (record_training_prices): the backfill,
\* the cut of the window, saves, the prune and resets never shift a day.
THEOREM OnlyLateRunsMisdate == Spec => OnlyLateForecastsMisdate
<1> DEFINE
    Misdated(d) == history'[d].of # d /\ history'[d] # history[d]
    Late(d) == /\ d \in {today, today + 1}
               /\ \E f \in Forecasts : /\ forecast[f] # Idle
                                       /\ forecast[f].day < today
                                       /\ forecast'[f] = Idle
    Step == \A d \in Stored(history') : Misdated(d) => Restart \/ Late(d)
<1>1. TypeOK /\ HeldPricesAreOwn /\ [Next]_vars => [Step]_vars
    <2> SUFFICES ASSUME TypeOK, HeldPricesAreOwn, Next, ~Restart,
                        NEW d \in Stored(history'), Misdated(d)
                 PROVE  Late(d)
        OBVIOUS
    <2>1. d \in Days /\ history'[d] # NoPrice /\ history' # history
        BY DEF Stored
    <2>2. ASSUME NEW f \in Forecasts, ForecastRecord(f) PROVE Late(d)
        <3>1. forecast[f].known \in DayPrices /\ forecast[f] # Idle
            BY <2>2 DEF ForecastRecord, TypeOK
        <3>2. Redated(f) \in DayPrices
            BY <3>1 DEF Redated, Dated, DayPrices
        <3>3. history'[d] \in {history[d], Redated(f)[d], NoPrice}
            BY <2>1, <2>2, <3>2, StoreOrigin DEF ForecastRecord, TypeOK
        <3>4. history'[d] = Redated(f)[d]
            BY <2>1, <3>3
        <3>5. forecast[f].day < today /\ d \in {today, today + 1}
            BY <2>1, <3>1, <3>4, RedatedIsLate
        <3>6. forecast'[f] = Idle
            BY <2>2 DEF ForecastRecord, TypeOK
        <3> QED
            BY <3>1, <3>5, <3>6
    <2>3. ASSUME NEW b \in Backfills, BackfillAdd(b) PROVE FALSE
        <3>1. backfill[b].todo \in DayPrices /\ OwnPrices(backfill[b].todo)
            BY <2>3 DEF BackfillAdd, TypeOK, HeldPricesAreOwn, Idle
        <3>2. PICK e \in NextDays(b) :
                  history' = StoreDailyPrices(history, Keep(backfill[b].todo, {e}))
            BY <2>3 DEF BackfillAdd
        <3>3. Keep(backfill[b].todo, {e}) \in DayPrices
            BY <3>1, StoreTypes DEF TypeOK
        <3>4. history'[d] \in {history[d], Keep(backfill[b].todo, {e})[d], NoPrice}
            BY <2>1, <3>2, <3>3, StoreOrigin DEF TypeOK
        <3>5. history'[d] = backfill[b].todo[d]
            BY <2>1, <3>4 DEF Keep
        <3> QED
            BY <2>1, <3>1, <3>5 DEF OwnPrices
    <2>4. ASSUME NEW f \in Forecasts, ForecastRead(f) PROVE FALSE
        BY <2>1, <2>4 DEF ForecastRead
    <2>5. ASSUME NEW b \in Backfills,
                 BackfillStart(b) \/ BackfillFilter(b) \/ BackfillEnd(b)
          PROVE  FALSE
        BY <2>1, <2>5 DEF BackfillStart, BackfillFilter, BackfillEnd
    <2>6. CASE SaveWrite \/ SaveMark \/ SaveCommit \/ SaveFail
        BY <2>1, <2>6 DEF SaveWrite, SaveMark, SaveCommit, SaveFail
    <2>7. CASE PruneDelete \/ PruneForget \/ ResetLearning \/ NewDay
        BY <2>1, <2>7 DEF PruneDelete, PruneForget, ResetLearning, NewDay
    <2> QED
        BY <2>2, <2>3, <2>4, <2>5, <2>6, <2>7 DEF Next
<1>2. [Step]_vars => [\A d \in Stored(history') :
         history'[d].of # d /\ history'[d] # history[d] =>
            \/ Restart
            \/ /\ d \in {today, today + 1}
               /\ \E f \in Forecasts : /\ forecast[f] # Idle
                                       /\ forecast[f].day < today
                                       /\ forecast'[f] = Idle]_vars
    OBVIOUS
<1>3. Init => TypeOK /\ HeldPricesAreOwn
    BY InitInv DEF CacheInv
<1> HIDE DEF Step
<1> QED
    BY <1>1, <1>2, <1>3, TypeStep, HeldStep, PTL DEF Spec, OnlyLateForecastsMisdate
-----------------------------------------------------------------------------
(* The cut of the window *)

LEMMA Least == ASSUME NEW S \in SUBSET Nat, S # {}
               PROVE  \E m \in S : \A k \in S : m <= k
<1> DEFINE R == {ss \in Nat \X Nat : ss[1] < ss[2]}
<1>1. IsWellFoundedOn(R, Nat)
    BY NatLessThanWellFounded DEF OpToRel
<1>2. PICK m \in S : \A k \in S : ~ (<<k, m>> \in R)
    <2> HIDE DEF R
    <2> QED
        BY <1>1, WFMin
<1>3. ASSUME NEW k \in S PROVE m <= k
    <2>1. k \in Nat /\ m \in Nat /\ ~ (<<k, m>> \in R)
        BY <1>2
    <2> QED
        BY <2>1
<1> QED
    BY <1>3

LEMMA Latest == ASSUME NEW S \in SUBSET Days, S # {}
                PROVE  \E m \in S : \A k \in S : k <= m
<1> DEFINE Left == {LastDay - s : s \in S}
<1>1. Left \in SUBSET Nat /\ Left # {}
    BY DaysAssumption DEF Days
<1>2. PICK m \in Left : \A k \in Left : m <= k
    <2> HIDE DEF Left
    <2> QED
        BY <1>1, Least
<1>3. PICK s \in S : m = LastDay - s
    OBVIOUS
<1>4. ASSUME NEW k \in S PROVE k <= s
    <2>1. LastDay - k >= m
        BY <1>2
    <2>2. k \in Int /\ s \in Int /\ LastDay \in Int
        BY DaysAssumption DEF Days
    <2> QED
        BY <2>1, <2>2, <1>3
<1> QED
    BY <1>4

\* Sets of days are finite.
LEMMA DaysAreFinite ==
    ASSUME NEW S \in SUBSET Days
    PROVE  IsFiniteSet(S) /\ Cardinality(S) \in Nat
<1>1. IsFiniteSet(Days)
    BY DaysAssumption, FS_Interval DEF Days
<1>2. IsFiniteSet(S)
    BY <1>1, FS_Subset
<1> QED
    BY <1>2, FS_CardinalityType

\* What Newest leaves out is older than all it keeps, and there is something
\* to leave out only when n days are kept.
LEMMA NewestOnes ==
    ASSUME NEW n \in Nat \ {0}, NEW S \in SUBSET Days
    PROVE  /\ Newest(n, S) \subseteq S
           /\ \A d \in S \ Newest(n, S), e \in Newest(n, S) : e > d
           /\ S # Newest(n, S) => Cardinality(Newest(n, S)) = n
<1> DEFINE T == Newest(n, S)
           After(d) == {e \in S : e > d}
<1>1. /\ T \in SUBSET Days /\ T \subseteq S
      /\ \A d \in S : d \in T <=> Cardinality(After(d)) < n
    BY DEF Newest
<1>2. \A d \in S : After(d) \in SUBSET Days
    OBVIOUS
<1>3. \A d \in S : d \in Int
    BY DEF Days
<1>4. ASSUME NEW d \in S \ T, NEW e \in T PROVE e > d
    <2> SUFFICES ASSUME ~ (e > d) PROVE FALSE
        OBVIOUS
    <2>1. After(d) \subseteq After(e)
        BY <1>1, <1>3
    <2>2. Cardinality(After(d)) <= Cardinality(After(e))
        BY <1>1, <1>2, <2>1, DaysAreFinite, FS_Subset
    <2>3. Cardinality(After(d)) \in Nat /\ Cardinality(After(e)) \in Nat
        BY <1>1, <1>2, DaysAreFinite
    <2> QED
        BY <1>1, <2>2, <2>3
<1>5. ASSUME S # T PROVE Cardinality(T) = n
    <2>1. PICK d \in S \ T : \A x \in S \ T : x <= d
        <3>1. S \ T \in SUBSET Days /\ S \ T # {}
            BY <1>1, <1>5
        <3> QED
            BY <3>1, Latest
    <2>2. After(d) = T
        BY <1>1, <1>3, <1>4, <2>1
    <2>3. Cardinality(T) >= n
        BY <1>1, <1>2, <2>1, <2>2, DaysAreFinite
    <2>4. T # {}
        <3>1. Cardinality({}) = 0
            BY FS_EmptySet
        <3> QED
            BY <2>3, <3>1
    <2>5. PICK e \in T : \A x \in T : e <= x
        <3>1. T \in SUBSET Nat
            BY <1>1 DEF Days
        <3> QED
            BY <2>4, <3>1, Least
    <2>6. After(e) = T \ {e}
        <3>1. After(e) \subseteq T
            BY <1>1, <1>3, <1>4
        <3>2. e \notin After(e)
            BY <1>1, <1>3
        <3> QED
            BY <1>1, <1>3, <2>5, <3>1, <3>2
    <2>7. Cardinality(After(e)) = Cardinality(T) - 1
        <3> HIDE DEF T, After
        <3> QED
            BY <1>1, <2>5, <2>6, DaysAreFinite, FS_RemoveElement
    <2>8. Cardinality(After(e)) < n
        BY <1>1
    <2> QED
        BY <1>1, <2>3, <2>7, <2>8, DaysAreFinite
<1> QED
    BY <1>1, <1>4, <1>5

\* Which days are stored once a price list was: those that were and those of
\* the list, but for the ones the cut of the window takes.
LEMMA StoredDays ==
    ASSUME NEW h \in DayPrices, NEW p \in DayPrices
    PROVE  LET S == Stored(h) \union Stored(p)
               T == Stored(StoreDailyPrices(h, p))
           IN  /\ S \in SUBSET Days
               /\ \/ T = S
                  \/ Stored(p) \ Stored(h) # {} /\ T = Newest(MaxDays, S)
               /\ Stored(p) \ Stored(h) # {} => T = Newest(MaxDays, S)
<1> DEFINE merged == [d \in Days |-> IF p[d] # NoPrice THEN p[d] ELSE h[d]]
<1>1. Stored(merged) = Stored(h) \union Stored(p)
    BY DEF Stored
<1>2. CASE Stored(p) \ Stored(h) = {}
    BY <1>1, <1>2 DEF StoreDailyPrices, Stored
<1>3. CASE Stored(p) \ Stored(h) # {}
    <2>1. StoreDailyPrices(h, p) = Keep(merged, Newest(MaxDays, Stored(merged)))
        BY <1>3 DEF StoreDailyPrices
    <2>2. Stored(Keep(merged, Newest(MaxDays, Stored(merged))))
            = Newest(MaxDays, Stored(merged))
        BY DEF Stored, Keep, Newest
    <2> QED
        BY <1>1, <1>3, <2>1, <2>2 DEF Stored
<1> QED
    BY <1>2, <1>3

\* What a step that stores a price list does to the stored days: what it
\* drops is older than all it keeps, and the window is then exactly full.
LEMMA StoreDrops ==
    ASSUME NEW h \in DayPrices, NEW p \in DayPrices
    PROVE  LET S == Stored(h) \union Stored(p)
               T == Stored(StoreDailyPrices(h, p))
           IN  /\ S \in SUBSET Days /\ T \subseteq S
               /\ \A d \in S \ T, e \in T : e > d
               /\ S # T => Cardinality(T) = MaxDays
<1> DEFINE S == Stored(h) \union Stored(p)
           T == Stored(StoreDailyPrices(h, p))
<1>1. S \in SUBSET Days /\ (T = S \/ T = Newest(MaxDays, S))
    BY StoredDays
<1> HIDE DEF S, T
<1>2. /\ T \subseteq S
      /\ \A d \in S \ T, e \in T : e > d
      /\ S # T => Cardinality(T) = MaxDays
    <2>1. CASE T = S
        BY <2>1
    <2>2. CASE T = Newest(MaxDays, S)
        BY <1>1, <2>2, NewestOnes, WindowAssumption
    <2> QED
        BY <1>1, <2>1, <2>2
<1> QED
    BY <1>1, <1>2 DEF S, T

\* Only a forecast run, a backfill and a restart change the history, the
\* first two by storing a price list in it.
LEMMA HistoryStep ==
    ASSUME TypeOK, [Next]_vars, history' # history, ~Restart
    PROVE  \E p \in DayPrices : history' = StoreDailyPrices(history, p)
<1>1. ASSUME NEW f \in Forecasts, ForecastRecord(f)
      PROVE  \E p \in DayPrices : history' = StoreDailyPrices(history, p)
    <2>1. forecast[f].known \in DayPrices
        BY <1>1 DEF ForecastRecord, TypeOK
    <2>2. Redated(f) \in DayPrices
        BY <2>1 DEF Redated, Dated, DayPrices
    <2> QED
        BY <1>1, <2>2 DEF ForecastRecord
<1>2. ASSUME NEW b \in Backfills, BackfillAdd(b)
      PROVE  \E p \in DayPrices : history' = StoreDailyPrices(history, p)
    <2>1. backfill[b].todo \in DayPrices
        BY <1>2 DEF BackfillAdd, TypeOK, Idle
    <2>2. PICK e \in NextDays(b) :
              history' = StoreDailyPrices(history, Keep(backfill[b].todo, {e}))
        BY <1>2 DEF BackfillAdd
    <2> QED
        BY <2>1, <2>2, StoreTypes
<1>3. ASSUME NEW f \in Forecasts, ForecastRead(f) PROVE FALSE
    BY <1>3 DEF ForecastRead
<1>4. ASSUME NEW b \in Backfills,
             BackfillStart(b) \/ BackfillFilter(b) \/ BackfillEnd(b)
      PROVE  FALSE
    BY <1>4 DEF BackfillStart, BackfillFilter, BackfillEnd
<1>5. CASE SaveWrite \/ SaveMark \/ SaveCommit \/ SaveFail
    BY <1>5 DEF SaveWrite, SaveMark, SaveCommit, SaveFail
<1>6. CASE PruneDelete \/ PruneForget \/ ResetLearning \/ NewDay \/ UNCHANGED vars
    BY <1>6 DEF PruneDelete, PruneForget, ResetLearning, NewDay, vars
<1> QED
    BY <1>1, <1>2, <1>3, <1>4, <1>5, <1>6 DEF Next

\* A day leaves the history, but for a restart, only when the window is then
\* full of newer ones (_store_daily_prices cuts to max_history_days).
THEOREM CutKeepsNewest == Spec => TrimKeepsNewest
<1> DEFINE Cut == \A d \in Stored(history) \ Stored(history') :
                     /\ \A e \in Stored(history') : e > d
                     /\ Cardinality(Stored(history')) = MaxDays
<1>1. TypeOK /\ [Next]_vars => [Restart \/ Cut]_vars
    <2> SUFFICES ASSUME TypeOK, [Next]_vars, history' # history, ~Restart
                 PROVE  Cut
        OBVIOUS
    <2>1. PICK p \in DayPrices : history' = StoreDailyPrices(history, p)
        BY HistoryStep
    <2>2. history \in DayPrices
        BY DEF TypeOK
    <2>3. /\ \A d \in (Stored(history) \union Stored(p)) \ Stored(history'),
                e \in Stored(history') : e > d
          /\ Stored(history) \union Stored(p) # Stored(history')
                => Cardinality(Stored(history')) = MaxDays
        BY <2>1, <2>2, StoreDrops
    <2> QED
        BY <2>3
<1>2. Init => TypeOK
    BY InitInv DEF CacheInv
<1> QED
    BY <1>1, <1>2, TypeStep, PTL DEF Spec, TrimKeepsNewest
-----------------------------------------------------------------------------
(* The backfill *)

\* What a backfill holds, or will ask for, is before today, and a day it has
\* still to store is missing from the history unless a backfill filled it.
BackfillsArePast ==
    \A b \in Backfills :
        /\ backfill[b].pc = "fetching" => backfill[b].day <= today
        /\ backfill[b].pc = "adding" =>
              \A d \in Stored(backfill[b].todo) :
                  d < today /\ (d \notin filled => history[d] = NoPrice)

\* A day a backfill filled lies before today.
FilledArePast == filled \subseteq {d \in Days : d < today}

\* The filled days that are gone again: the window cut them, so the days left
\* are newer and fill it.  Without the second half a backfill could store a
\* day older than them, which the window, now with room, would keep.
CutDays == filled \ Stored(history)
CutAreOldest ==
    /\ \A d \in CutDays, e \in Stored(history) : e > d
    /\ CutDays # {} => Cardinality(Stored(history)) >= MaxDays

\* The inductive invariant of the backfill, relative to TypeOK and
\* HeldPricesAreOwn.
GapsInv == BackfillsArePast /\ FilledArePast /\ CutAreOldest

\* A forecast run stores the prices of the current day and of the next.
LEMMA RedatedDays ==
    ASSUME TypeOK, HeldPricesAreOwn, NEW f \in Forecasts, forecast[f] # Idle
    PROVE  /\ Redated(f) \in DayPrices
           /\ Stored(Redated(f)) \subseteq {today, today + 1}
<1>1. /\ forecast[f].day \in Days /\ forecast[f].known \in DayPrices
      /\ today \in Days
    BY DEF TypeOK
<1>2. Redated(f) \in DayPrices
    BY <1>1 DEF Redated, Dated, DayPrices
<1>3. ASSUME NEW d \in Stored(Redated(f)) PROVE d \in {today, today + 1}
    <2> DEFINE from == d - (today - forecast[f].day)
    <2>1. d \in Days /\ from \in Days /\ forecast[f].known[from] # NoPrice
        BY DEF Stored, Redated, Dated
    <2>2. from \in {forecast[f].day, forecast[f].day + 1}
        BY <2>1 DEF HeldPricesAreOwn, Stored
    <2> QED
        BY <1>1, <2>1, <2>2 DEF Days
<1> QED
    BY <1>2, <1>3

\* Storing days that are newer than all the filled ones keeps CutAreOldest.
LEMMA StoreNewerDays ==
    ASSUME NEW h \in DayPrices, NEW p \in DayPrices, NEW g \in SUBSET Days,
           \A d \in g \ Stored(h), e \in Stored(h) : e > d,
           g \ Stored(h) # {} => Cardinality(Stored(h)) >= MaxDays,
           \A d \in g \ Stored(h), e \in Stored(p) \ Stored(h) : e > d
    PROVE  LET T == Stored(StoreDailyPrices(h, p))
           IN  /\ \A d \in g \ T, e \in T : e > d
               /\ g \ T # {} => Cardinality(T) >= MaxDays
<1> DEFINE H == Stored(h)
           S == Stored(h) \union Stored(p)
           T == Stored(StoreDailyPrices(h, p))
<1>1. /\ S \in SUBSET Days /\ T \subseteq S
      /\ \A d \in S \ T, e \in T : e > d
      /\ S # T => Cardinality(T) = MaxDays
    BY StoreDrops
<1>2. H \in SUBSET Days /\ H \subseteq S
    BY DEF Stored
<1>3. \A d \in g \ H, e \in S : e > d
    OBVIOUS
<1> HIDE DEF H, S, T
<1>4. \A d \in g \ T, e \in T : e > d
    BY <1>1, <1>2, <1>3
<1>5. ASSUME g \ T # {} PROVE Cardinality(T) >= MaxDays
    <2>1. CASE S # T
        BY <1>1, <2>1, WindowAssumption
    <2>2. CASE S = T
        <3>1. g \ H # {}
            BY <1>2, <1>5, <2>2
        <3>2. Cardinality(H) >= MaxDays
            BY <3>1 DEF H
        <3>3. Cardinality(H) <= Cardinality(T)
            BY <1>1, <1>2, <2>2, DaysAreFinite, FS_Subset
        <3>4. Cardinality(H) \in Nat /\ Cardinality(T) \in Nat
            BY <1>1, <1>2, <2>2, DaysAreFinite
        <3> QED
            BY <3>2, <3>3, <3>4, WindowAssumption
    <2> QED
        BY <2>1, <2>2
<1> QED
    BY <1>4, <1>5 DEF T

\* A day stored where a newer filled day was cut is cut at once: the window
\* is full of newer days.
LEMMA StoreOlderDay ==
    ASSUME NEW h \in DayPrices, NEW p \in DayPrices,
           NEW d \in Days, NEW c \in Days,
           Stored(p) = {d}, d \notin Stored(h), d < c,
           \A e \in Stored(h) : e > c,
           Cardinality(Stored(h)) >= MaxDays
    PROVE  d \notin Stored(StoreDailyPrices(h, p))
<1> DEFINE H == Stored(h)
           S == Stored(h) \union Stored(p)
<1>1. H \in SUBSET Days
    BY DEF Stored
<1>2. Stored(StoreDailyPrices(h, p)) = Newest(MaxDays, S) /\ S = H \union {d}
    BY StoredDays
<1> HIDE DEF S
<1>3. \A e \in H : e > d
    BY <1>1 DEF Days
<1>4. {e \in S : e > d} = H
    BY <1>1, <1>2, <1>3 DEF Days
<1>5. Cardinality(H) \in Nat
    BY <1>1, DaysAreFinite
<1> QED
    BY <1>2, <1>4, <1>5, WindowAssumption DEF Newest

\* Every step of the run with the record of filled days is one of the run
\* without it.
LEMMA RecordOnly == /\ BInit => Init
                    /\ [BNext]_bvars => [Next]_vars
BY DEF BInit, BNext, bvars, Next, vars

\* A forecast run keeps the invariant: it stores today and tomorrow, which no
\* backfill holds or filled.
LEMMA GapsForecastStep ==
    ASSUME TypeOK, HeldPricesAreOwn, GapsInv, NEW f \in Forecasts,
           ForecastRecord(f), UNCHANGED filled
    PROVE  GapsInv'
<1>1. forecast[f] # Idle /\ history \in DayPrices /\ today \in Days
    BY DEF ForecastRecord, TypeOK
<1>2. PICK p \in DayPrices : /\ history' = StoreDailyPrices(history, p)
                             /\ Stored(p) \subseteq {today, today + 1}
    BY <1>1, RedatedDays DEF ForecastRecord
<1>3. UNCHANGED <<today, backfill, filled>>
    BY DEF ForecastRecord
<1>4. BackfillsArePast'
    <2>1. ASSUME NEW d \in Days, d < today, history[d] = NoPrice
          PROVE  history'[d] = NoPrice
        <3>1. d \notin Stored(p)
            BY <1>1, <1>2, <2>1 DEF Days
        <3>2. p[d] = NoPrice
            BY <3>1, <2>1 DEF Stored
        <3> QED
            BY <1>1, <1>2, <2>1, <3>2, StoreOrigin
    <2>2. \A b \in Backfills : \A d \in Stored(backfill[b].todo) : d \in Days
        BY DEF Stored
    <2> QED
        BY <1>3, <2>1, <2>2 DEF GapsInv, BackfillsArePast
<1>5. FilledArePast'
    BY <1>3 DEF GapsInv, FilledArePast
<1>6. CutAreOldest'
    <2>1. \A d \in filled \ Stored(history), e \in Stored(p) \ Stored(history) : e > d
        BY <1>1, <1>2 DEF GapsInv, FilledArePast, Days
    <2>2. filled \in SUBSET Days
        BY DEF GapsInv, FilledArePast
    <2>3. /\ \A d \in filled \ Stored(history), e \in Stored(history) : e > d
          /\ filled \ Stored(history) # {} => Cardinality(Stored(history)) >= MaxDays
        BY DEF GapsInv, CutAreOldest, CutDays
    <2>4. LET T == Stored(StoreDailyPrices(history, p))
          IN  /\ \A d \in filled \ T, e \in T : e > d
              /\ filled \ T # {} => Cardinality(T) >= MaxDays
        BY <1>1, <2>1, <2>2, <2>3, StoreNewerDays
    <2> QED
        BY <1>2, <1>3, <2>4 DEF CutAreOldest, CutDays
<1> QED
    BY <1>4, <1>5, <1>6 DEF GapsInv

\* What a backfill step stores: one day it holds, which is then filled.
LEMMA AddsOneDay ==
    ASSUME TypeOK, HeldPricesAreOwn, NEW b \in Backfills, BackfillAdd(b)
    PROVE  \E d \in Days, p \in DayPrices :
              /\ NextDays(b) = {d} /\ Stored(p) = {d}
              /\ d \in Stored(backfill[b].todo)
              /\ history' = StoreDailyPrices(history, p)
              /\ backfill'[b].pc = "adding"
              /\ backfill'[b].todo = [backfill[b].todo EXCEPT ![d] = NoPrice]
              /\ \A c \in Backfills \ {b} : backfill'[c] = backfill[c]
<1>1. backfill[b].pc = "adding" /\ backfill[b].todo \in DayPrices
    BY DEF BackfillAdd, TypeOK, Idle
<1>2. PICK d \in NextDays(b) :
          /\ history' = StoreDailyPrices(history, Keep(backfill[b].todo, {d}))
          /\ backfill' = [backfill EXCEPT ![b].todo[d] = NoPrice]
    BY DEF BackfillAdd
<1>3. d \in Days /\ d \in Stored(backfill[b].todo)
    BY DEF NextDays, Stored
<1>4. NextDays(b) = {d}
    BY DEF NextDays, Stored, Days
<1>5. /\ Keep(backfill[b].todo, {d}) \in DayPrices
      /\ Stored(Keep(backfill[b].todo, {d})) = {d}
    <2>1. Keep(backfill[b].todo, {d}) \in DayPrices
        BY <1>1, StoreTypes
    <2>2. Stored(Keep(backfill[b].todo, {d})) = {d}
        BY <1>3 DEF Stored, Keep
    <2> QED
        BY <2>1, <2>2
<1>6. /\ backfill'[b].pc = "adding"
      /\ backfill'[b].todo = [backfill[b].todo EXCEPT ![d] = NoPrice]
      /\ \A c \in Backfills \ {b} : backfill'[c] = backfill[c]
    BY <1>1, <1>2 DEF TypeOK, Idle
<1> QED
    BY <1>2, <1>3, <1>4, <1>5, <1>6

\* Storing a held day keeps CutAreOldest: a day newer than every cut one as
\* any other, and one older than a cut one by being cut itself.
LEMMA CutAddStep ==
    ASSUME TypeOK, HeldPricesAreOwn, GapsInv, NEW b \in Backfills,
           BackfillAdd(b), filled' = filled \union NextDays(b)
    PROVE  CutAreOldest'
<1>1. PICK d \in Days, p \in DayPrices :
          /\ NextDays(b) = {d} /\ Stored(p) = {d}
          /\ history' = StoreDailyPrices(history, p)
    BY AddsOneDay
<1> DEFINE H == Stored(history)
           T == Stored(history')
<1>2. /\ history \in DayPrices /\ H \in SUBSET Days
      /\ filled' \in SUBSET Days /\ filled' = filled \union {d}
    BY <1>1 DEF TypeOK, Stored, GapsInv, FilledArePast
<1>3. /\ \A c \in filled \ H, e \in H : e > c
      /\ filled \ H # {} => Cardinality(H) >= MaxDays
    BY DEF GapsInv, CutAreOldest, CutDays
<1>4. /\ T \subseteq H \union {d}
      /\ \A c \in (H \union {d}) \ T, e \in T : e > c
      /\ H \union {d} # T => Cardinality(T) = MaxDays
    BY <1>1, <1>2, StoreDrops
<1> DEFINE g == filled \ {d}
<1>5. /\ g \in SUBSET Days /\ filled' = g \union {d}
      /\ \A c \in g \ H, e \in H : e > c
      /\ g \ H # {} => Cardinality(H) >= MaxDays
    BY <1>2, <1>3
<1>6. CASE \A c \in g \ H : d \notin H => d > c
    <2>1. \A c \in g \ H, e \in Stored(p) \ H : e > c
        BY <1>1, <1>6
    <2>2. /\ \A c \in g \ T, e \in T : e > c
          /\ g \ T # {} => Cardinality(T) >= MaxDays
        <3> HIDE DEF g
        <3> QED
            BY <1>1, <1>2, <1>5, <2>1, StoreNewerDays
    <2> HIDE DEF H, T, g
    <2>3. \A c \in filled' \ T, e \in T : e > c
        BY <1>4, <1>5, <2>2
    <2>4. filled' \ T # {} => Cardinality(T) >= MaxDays
        BY <1>4, <1>5, <2>2, WindowAssumption
    <2> QED
        BY <2>3, <2>4 DEF CutAreOldest, CutDays, T
<1>7. ASSUME NEW c \in g \ H, d \notin H, ~ (d > c)
      PROVE  CutAreOldest'
    <2>1. c \in Days /\ d < c
        BY <1>2, <1>7 DEF Days
    <2>2. d \notin T
        BY <1>1, <1>2, <1>5, <1>7, <2>1, StoreOlderDay
    <2> HIDE DEF H, T, g
    <2>3. T \subseteq H /\ Cardinality(T) = MaxDays
        BY <1>4, <2>2
    <2>4. \A x \in filled' \ T, e \in T : e > x
        BY <1>4, <1>5, <2>3
    <2>5. Cardinality(T) >= MaxDays
        BY <2>3, WindowAssumption
    <2> QED
        BY <2>4, <2>5 DEF CutAreOldest, CutDays, T
<1> QED
    BY <1>6, <1>7

\* A step of a backfill that stores a day keeps the invariant.
LEMMA GapsAddStep ==
    ASSUME TypeOK, HeldPricesAreOwn, GapsInv, NEW b \in Backfills,
           BackfillAdd(b), filled' = filled \union NextDays(b)
    PROVE  GapsInv'
<1>1. PICK d \in Days, p \in DayPrices :
          /\ NextDays(b) = {d} /\ Stored(p) = {d}
          /\ d \in Stored(backfill[b].todo)
          /\ history' = StoreDailyPrices(history, p)
          /\ backfill'[b].pc = "adding"
          /\ backfill'[b].todo = [backfill[b].todo EXCEPT ![d] = NoPrice]
          /\ \A c \in Backfills \ {b} : backfill'[c] = backfill[c]
    BY AddsOneDay
<1>2. /\ backfill[b].pc = "adding" /\ backfill[b].todo \in DayPrices
      /\ today' = today /\ history \in DayPrices
    BY DEF BackfillAdd, TypeOK, Idle
<1>3. \A e \in Days \ {d} : history[e] = NoPrice => history'[e] = NoPrice
    <2> SUFFICES ASSUME NEW e \in Days \ {d}, history[e] = NoPrice
                 PROVE  history'[e] = NoPrice
        OBVIOUS
    <2>1. p[e] = NoPrice
        BY <1>1 DEF Stored
    <2> QED
        BY <1>1, <1>2, <2>1, StoreOrigin
<1>4. BackfillsArePast'
    <2>1. ASSUME NEW c \in Backfills, backfill'[c].pc = "adding",
                 NEW e \in Stored(backfill'[c].todo)
          PROVE  e < today /\ (e \notin filled' => history'[e] = NoPrice)
        <3>1. /\ backfill[c].pc = "adding" /\ e \in Days
              /\ e \in Stored(backfill[c].todo)
            BY <1>1, <1>2, <2>1 DEF Stored, DayPrices
        <3>2. e < today /\ (e \notin filled => history[e] = NoPrice)
            BY <3>1 DEF GapsInv, BackfillsArePast
        <3> QED
            BY <1>1, <1>3, <3>1, <3>2
    <2>2. ASSUME NEW c \in Backfills, backfill'[c].pc = "fetching"
          PROVE  backfill'[c].day <= today
        BY <1>1, <2>2 DEF GapsInv, BackfillsArePast
    <2> QED
        BY <1>2, <2>1, <2>2 DEF BackfillsArePast
<1>5. FilledArePast'
    <2>1. d < today
        BY <1>1, <1>2 DEF GapsInv, BackfillsArePast
    <2> QED
        BY <1>1, <1>2, <2>1 DEF GapsInv, FilledArePast
<1>6. CutAreOldest'
    BY CutAddStep
<1> QED
    BY <1>4, <1>5, <1>6 DEF GapsInv

\* A step that changes neither the history nor the days filled keeps the
\* invariant, when what the backfills hold stays in the past.
LEMMA GapsElse ==
    ASSUME GapsInv, UNCHANGED <<history, filled>>, BackfillsArePast',
           today \in Int, today' \in Int, today' >= today
    PROVE  GapsInv'
<1>1. FilledArePast'
    <2>1. \A d \in filled : d \in Days /\ d < today /\ d < today'
        BY DEF GapsInv, FilledArePast, Days
    <2> QED
        BY <2>1 DEF FilledArePast
<1>2. CutAreOldest'
    BY DEF GapsInv, CutAreOldest, CutDays
<1> QED
    BY <1>1, <1>2 DEF GapsInv

\* Every step of the run with the record of filled days keeps the invariant.
LEMMA GapsStep ==
    TypeOK /\ HeldPricesAreOwn /\ GapsInv /\ TypeOK' /\ [BNext]_bvars => GapsInv'
<1> SUFFICES ASSUME TypeOK, HeldPricesAreOwn, GapsInv, TypeOK', [BNext]_bvars
             PROVE  GapsInv'
    OBVIOUS
<1>1. today \in Int /\ today' \in Int
    BY DEF TypeOK, Days
<1>2. ASSUME NEW b \in Backfills,
             BackfillAdd(b), filled' = filled \union NextDays(b)
      PROVE  GapsInv'
    BY <1>2, GapsAddStep
<1>3. CASE Restart /\ filled' = {}
    <2>1. BackfillsArePast'
        BY <1>3 DEF Restart, BackfillsArePast, Idle
    <2>2. FilledArePast' /\ CutAreOldest'
        BY <1>3 DEF FilledArePast, CutAreOldest, CutDays
    <2> QED
        BY <2>1, <2>2 DEF GapsInv
<1>4. ASSUME NEW f \in Forecasts, ForecastRecord(f), UNCHANGED filled
      PROVE  GapsInv'
    BY <1>4, GapsForecastStep
<1>5. CASE UNCHANGED <<today, history, backfill, filled>>
    <2>1. BackfillsArePast'
        BY <1>5 DEF GapsInv, BackfillsArePast
    <2> QED
        BY <1>1, <1>5, <2>1, GapsElse
<1>6. ASSUME NEW f \in Forecasts, ForecastRead(f), UNCHANGED filled
      PROVE  GapsInv'
    BY <1>5, <1>6 DEF ForecastRead
<1>7. ASSUME NEW b \in Backfills, BackfillStart(b) \/ BackfillEnd(b),
             UNCHANGED filled
      PROVE  GapsInv'
    <2>1. /\ backfill'[b] = Idle \/ backfill'[b] = [pc |-> "fetching", day |-> today]
          /\ \A c \in Backfills \ {b} : backfill'[c] = backfill[c]
          /\ UNCHANGED <<today, history, filled>>
        BY <1>7 DEF BackfillStart, BackfillEnd, TypeOK
    <2>2. BackfillsArePast'
        BY <1>1, <2>1 DEF GapsInv, BackfillsArePast, Idle
    <2> QED
        BY <1>1, <2>1, <2>2, GapsElse
<1>8. ASSUME NEW b \in Backfills, BackfillFilter(b), UNCHANGED filled
      PROVE  GapsInv'
    <2>1. PICK got \in SUBSET Window(backfill[b].day), r \in Revisions :
              backfill' = [backfill EXCEPT ![b] =
                  [pc |-> "adding",
                   todo |-> [d \in Days |->
                       IF d \in got \ Stored(history) THEN [of |-> d, rev |-> r]
                       ELSE NoPrice]]]
        BY <1>8 DEF BackfillFilter
    <2>2. /\ backfill'[b].pc = "adding"
          /\ \A d \in Stored(backfill'[b].todo) : d \in got \ Stored(history)
          /\ \A c \in Backfills \ {b} : backfill'[c] = backfill[c]
          /\ UNCHANGED <<today, history, filled>>
        BY <1>8, <2>1 DEF BackfillFilter, Stored, TypeOK
    <2>3. backfill[b].pc = "fetching" /\ backfill[b].day <= today
        BY <1>8 DEF BackfillFilter, GapsInv, BackfillsArePast
    <2>4. backfill[b].day \in Int
        BY <2>3 DEF TypeOK, Idle, Days
    <2>5. \A d \in got \ Stored(history) : d < today /\ history[d] = NoPrice
        BY <1>1, <2>3, <2>4 DEF Window, Stored, Days
    <2>6. BackfillsArePast'
        BY <2>2, <2>5 DEF GapsInv, BackfillsArePast
    <2> QED
        BY <1>1, <2>2, <2>6, GapsElse
<1>9. CASE (SaveWrite \/ SaveMark \/ SaveCommit \/ SaveFail) /\ UNCHANGED filled
    BY <1>5, <1>9 DEF SaveWrite, SaveMark, SaveCommit, SaveFail
<1>10. CASE (PruneDelete \/ PruneForget \/ ResetLearning) /\ UNCHANGED filled
    BY <1>5, <1>10 DEF PruneDelete, PruneForget, ResetLearning
<1>11. CASE NewDay /\ UNCHANGED filled
    <2>1. /\ today' = today + 1 /\ UNCHANGED <<history, backfill, filled>>
        BY <1>11 DEF NewDay
    <2>2. \A b \in Backfills : backfill[b].pc = "fetching" => backfill[b].day \in Int
        BY DEF TypeOK, Idle, Days
    <2>3. \A b \in Backfills : \A d \in Stored(backfill[b].todo) : d \in Int
        BY DEF Stored, Days
    <2>4. BackfillsArePast'
        BY <1>1, <2>1, <2>2, <2>3 DEF GapsInv, BackfillsArePast
    <2> QED
        BY <1>1, <2>1, <2>4, GapsElse
<1>12. CASE UNCHANGED bvars
    BY <1>5, <1>12 DEF bvars, vars
<1> QED
    BY <1>2, <1>3, <1>4, <1>6, <1>7, <1>8, <1>9, <1>10, <1>11, <1>12 DEF BNext

\* A backfill stores a day only where the history has none or a backfill put
\* one, although it compared with the history several executor jobs ago; and
\* it asks again for a filled day only when the window has cut that day
\* (_async_backfill_price_history, days_with_prices).
THEOREM BackfillOnlyFillsGaps == BSpec => BackfillFillsGaps
<1> DEFINE
    Fills(b) == \A d \in Days \ filled :
        history[d] # NoPrice =>
            ~ (BackfillAdd(b) /\ backfill[b].todo[d] # backfill'[b].todo[d])
    AsksAgain(b) == BackfillFilter(b) =>
        \A d \in Stored(backfill'[b].todo) \cap filled, e \in Stored(history) : e > d
    Step == \A b \in Backfills :
              /\ \A d \in Days \ filled :
                    history[d] # NoPrice =>
                       ~ (BackfillAdd(b) /\ backfill[b].todo[d] # backfill'[b].todo[d])
              /\ BackfillFilter(b) =>
                    \A d \in Stored(backfill'[b].todo) \cap filled, e \in Stored(history) : e > d
    Inv == TypeOK /\ HeldPricesAreOwn /\ GapsInv
<1>1. BInit => Inv
    <2> SUFFICES ASSUME BInit PROVE Inv
        OBVIOUS
    <2>1. TypeOK /\ HeldPricesAreOwn
        BY InitInv, RecordOnly DEF CacheInv
    <2>2. GapsInv
        BY DEF BInit, Init, GapsInv, BackfillsArePast, FilledArePast,
               CutAreOldest, CutDays, Idle
    <2> QED
        BY <2>1, <2>2
<1>2. Inv /\ [BNext]_bvars => Inv'
    BY RecordOnly, TypeStep, HeldStep, GapsStep
<1>3. Inv => Step
    <2> SUFFICES ASSUME Inv, NEW b \in Backfills PROVE Fills(b) /\ AsksAgain(b)
        OBVIOUS
    <2>1. ASSUME NEW d \in Days \ filled, history[d] # NoPrice, BackfillAdd(b),
                 backfill[b].todo[d] # backfill'[b].todo[d]
          PROVE  FALSE
        <3>1. /\ backfill[b].pc = "adding" /\ backfill[b].todo \in DayPrices
            BY <2>1 DEF BackfillAdd, TypeOK, Idle
        <3>2. PICK e \in Days :
                  /\ e \in Stored(backfill[b].todo)
                  /\ backfill'[b].todo = [backfill[b].todo EXCEPT ![e] = NoPrice]
            BY <2>1, AddsOneDay
        <3>3. d = e
            BY <2>1, <3>1, <3>2 DEF DayPrices
        <3> QED
            BY <2>1, <3>1, <3>2, <3>3 DEF GapsInv, BackfillsArePast
    <2>2. ASSUME BackfillFilter(b), NEW e \in Stored(history),
                 NEW d \in Stored(backfill'[b].todo) \cap filled
          PROVE  e > d
        <3>1. PICK got \in SUBSET Window(backfill[b].day), r \in Revisions :
                  backfill' = [backfill EXCEPT ![b] =
                      [pc |-> "adding",
                       todo |-> [x \in Days |->
                           IF x \in got \ Stored(history) THEN [of |-> x, rev |-> r]
                           ELSE NoPrice]]]
            BY <2>2 DEF BackfillFilter
        <3>2. d \notin Stored(history)
            BY <3>1 DEF Stored, TypeOK
        <3> QED
            BY <3>2 DEF GapsInv, CutAreOldest, CutDays
    <2> QED
        BY <2>1, <2>2
<1>4. BSpec => [][Step]_bvars
    <2> HIDE DEF Inv, Step
    <2> QED
        BY <1>1, <1>2, <1>3, PTL DEF BSpec
<1> QED
    BY <1>4 DEF BackfillFillsGaps
=============================================================================
