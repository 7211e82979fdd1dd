-------------------------- MODULE RetrainingProofs --------------------------
(***************************************************************************)
(* Proofs about Retraining, for any number of tables, days, backfills,     *)
(* changes and faults: no change is forgotten while its stamp is kept.     *)
(***************************************************************************)
EXTENDS Retraining, TLAPS

\* The inductive invariant.  FreshOrFlagged alone is not inductive: a training
\* replaces model and last_trained_at together, so what it has read must have
\* been fresh or flagged with respect to its own start (ReadOrFlagged), and a
\* new stamp must be newer than both times (StampsArePast).
Inv == TypeOK /\ StampsArePast /\ FreshOrFlagged /\ ReadOrFlagged

\* What Init establishes.
LEMMA InitInv == Init => Inv
<1> SUFFICES ASSUME Init PROVE Inv
    OBVIOUS
<1>1. TypeOK
    BY DEF Init, TypeOK, Contents, Idle, Inputs
<1>2. StampsArePast /\ FreshOrFlagged /\ ReadOrFlagged
    BY DEF Init, StampsArePast, FreshOrFlagged, ReadOrFlagged, Idle
<1> QED
    BY <1>1, <1>2 DEF Inv

\* Every step keeps the types.
LEMMA TypeStep == TypeOK /\ [Next]_vars => TypeOK'
<1> SUFFICES ASSUME TypeOK, [Next]_vars PROVE TypeOK'
    OBVIOUS
<1> USE DEF TypeOK, Contents, Inputs
<1>1. ASSUME NEW s \in Series, SeriesCommit(s) PROVE TypeOK'
    BY <1>1 DEF SeriesCommit, Changed, fitted
<1>2. ASSUME NEW s \in Series, SeriesFail(s) PROVE TypeOK'
    BY <1>2 DEF SeriesFail, Changed, fitted
<1>3. CASE SeriesStamp
    BY <1>3 DEF SeriesStamp, fitted
<1>4. ASSUME NEW w \in Storers, PriceStore(w) PROVE TypeOK'
    BY <1>4 DEF PriceStore, Changed, fitted
<1>5. ASSUME NEW w \in Storers, PriceStamp(w) PROVE TypeOK'
    BY <1>5 DEF PriceStamp, fitted, Idle
<1>6. ASSUME NEW w \in Storers, PricePublish(w) PROVE TypeOK'
    BY <1>6 DEF PricePublish, fitted, Idle
<1>7. CASE RunStart
    BY <1>7 DEF RunStart, fitted, stores
<1>8. CASE RunCheck
    BY <1>8 DEF RunCheck, fitted, stores
<1>9. CASE TrainEnd
    BY <1>9 DEF TrainEnd, stores, Idle
<1>10. ASSUME NEW x \in Inputs, TrainRead(x) PROVE TypeOK'
    BY <1>10 DEF TrainRead, stores, fitted, Idle
<1>11. CASE TrainFail
    <2>1. trained' \in BOOLEAN /\ trees' \in BOOLEAN
        BY <1>11, Zenon DEF TrainFail
    <2>2. run.pc = "training" => run.seen \in [Inputs -> Nat]
        BY DEF Idle
    <2>3. model' \in [Inputs -> Nat]
        BY <1>11, <2>2 DEF TrainFail
    <2>4. faults' \in Nat /\ run' = Idle /\ UNCHANGED <<clock, stores, trainedAt, unflagged>>
        BY <1>11 DEF TrainFail
    <2> QED
        BY <2>1, <2>3, <2>4 DEF stores
<1>12. CASE Restart
    <2>1. trained' \in BOOLEAN /\ trees' \in BOOLEAN
        BY <1>12, Zenon DEF Restart
    <2>2. storing' \in [Storers -> {Idle}]
        BY <1>12 DEF Restart
    <2>3. /\ faults' \in Nat /\ run' = Idle /\ writing' = NoSeries
          /\ writeStamp' = 0 /\ priceStamp' = 0 /\ trainedAt' = 0
          /\ unflagged' = {} /\ UNCHANGED <<clock, data, model>>
        BY <1>12 DEF Restart
    <2> QED
        BY <2>1, <2>2, <2>3
<1>13. CASE TrainTooFew
    <2>1. run.started \in Nat
        BY <1>13 DEF TrainTooFew, Idle
    <2>2. trainedAt' \in Nat
        BY <1>13, <2>1 DEF TrainTooFew
    <2>3. /\ faults' \in Nat /\ run' = Idle
          /\ UNCHANGED <<clock, stores, trained, trees, model, unflagged>>
        BY <1>13 DEF TrainTooFew
    <2> QED
        BY <2>2, <2>3 DEF stores
<1>14. CASE UNCHANGED vars
    BY <1>14 DEF vars
<1> QED
    BY <1>1, <1>2, <1>3, <1>4, <1>5, <1>6, <1>7, <1>8, <1>9, <1>10, <1>11,
       <1>12, <1>13, <1>14 DEF Next, RunSteps, StoreSteps

\* The state always has the declared types.
THEOREM TypeCorrect == Spec => []TypeOK
<1>1. Init => TypeOK
    BY InitInv DEF Inv
<1> QED
    BY <1>1, TypeStep, PTL DEF Spec

\* Stamps stay in the past: every new one is a reading of the clock.
LEMMA PastStep == TypeOK /\ StampsArePast /\ [Next]_vars => StampsArePast'
<1> SUFFICES ASSUME TypeOK, StampsArePast, [Next]_vars PROVE StampsArePast'
    OBVIOUS
<1> USE DEF TypeOK, StampsArePast, fitted, stores, Idle
<1>1. ASSUME NEW s \in Series, SeriesCommit(s) PROVE StampsArePast'
    BY <1>1 DEF SeriesCommit
<1>2. ASSUME NEW s \in Series, SeriesFail(s) PROVE StampsArePast'
    BY <1>2 DEF SeriesFail
<1>3. CASE SeriesStamp
    BY <1>3 DEF SeriesStamp
<1>4. ASSUME NEW w \in Storers, PriceStore(w) PROVE StampsArePast'
    BY <1>4 DEF PriceStore
<1>5. ASSUME NEW w \in Storers, PriceStamp(w) PROVE StampsArePast'
    BY <1>5 DEF PriceStamp
<1>6. ASSUME NEW w \in Storers, PricePublish(w) PROVE StampsArePast'
    BY <1>6 DEF PricePublish
<1>7. CASE RunStart
    BY <1>7 DEF RunStart
<1>8. CASE RunCheck
    BY <1>8 DEF RunCheck
<1>9. CASE TrainEnd
    BY <1>9 DEF TrainEnd
<1>10. ASSUME NEW x \in Inputs, TrainRead(x) PROVE StampsArePast'
    BY <1>10 DEF TrainRead
<1>11. CASE TrainFail
    BY <1>11 DEF TrainFail
<1>12. CASE Restart
    BY <1>12 DEF Restart
<1>13. CASE TrainTooFew
    BY <1>13 DEF TrainTooFew
<1>14. CASE UNCHANGED vars
    BY <1>14 DEF vars
<1> QED
    BY <1>1, <1>2, <1>3, <1>4, <1>5, <1>6, <1>7, <1>8, <1>9, <1>10, <1>11,
       <1>12, <1>13, <1>14 DEF Next, RunSteps, StoreSteps

\* The three steps that move a stamp or the data keep a flag later than t up,
\* for any time t that has passed, and raise one for what they change.
LEMMA FlagKept ==
    ASSUME TypeOK, StampsArePast, NEW t \in Nat, t <= clock, NEW x \in Inputs,
           \/ \E s \in Series : SeriesCommit(s) \/ SeriesFail(s)
           \/ SeriesStamp
           \/ \E w \in Storers : PriceStore(w) \/ PriceStamp(w)
    PROVE  Flagged(x, t) => Flagged(x, t)'
<1> USE DEF TypeOK, StampsArePast, Flagged, SeriesFlagged, DayFlagged
<1>1. CASE \E s \in Series : SeriesCommit(s) \/ SeriesFail(s)
    BY <1>1, KindsAssumption DEF SeriesCommit, SeriesFail
<1>2. CASE SeriesStamp
    BY <1>2 DEF SeriesStamp
<1>3. ASSUME NEW w \in Storers, PriceStore(w) PROVE Flagged(x, t) => Flagged(x, t)'
    BY <1>3 DEF PriceStore, Idle
<1>4. ASSUME NEW w \in Storers, PriceStamp(w) PROVE Flagged(x, t) => Flagged(x, t)'
    BY <1>4 DEF PriceStamp, Idle
<1> QED
    BY <1>1, <1>2, <1>3, <1>4

\* What the model, or a training, holds of x is current or flagged after t.
Covered(x, m, t) == x \in unflagged \/ m[x] = data[x] \/ Flagged(x, t)

\* Those steps also keep contents m of an earlier time covered.
LEMMA CoverKept ==
    ASSUME TypeOK, StampsArePast, NEW t \in Nat, t <= clock, NEW x \in Inputs,
           NEW m \in Contents, Covered(x, m, t),
           \/ \E s \in Series : SeriesCommit(s) \/ SeriesFail(s)
           \/ SeriesStamp
           \/ \E w \in Storers : PriceStore(w) \/ PriceStamp(w)
    PROVE  Covered(x, m, t)'
<1>1. Flagged(x, t) => Flagged(x, t)'
    BY FlagKept
<1> USE DEF TypeOK, Covered, Contents, Inputs
<1>2. ASSUME NEW s \in Series, SeriesCommit(s) PROVE Covered(x, m, t)'
    <2>1. CASE x = s
        BY <1>2, <2>1 DEF SeriesCommit, Flagged, SeriesFlagged
    <2>2. CASE x # s
        BY <1>1, <1>2, <2>2 DEF SeriesCommit, Changed
    <2> QED
        BY <2>1, <2>2
<1>3. ASSUME NEW s \in Series, SeriesFail(s) PROVE Covered(x, m, t)'
    BY <1>1, <1>3 DEF SeriesFail, Changed
<1>4. CASE SeriesStamp
    BY <1>1, <1>4 DEF SeriesStamp
<1>5. ASSUME NEW w \in Storers, PriceStore(w) PROVE Covered(x, m, t)'
    <2>1. PICK days \in SUBSET PriceDays :
              /\ data' = Changed(days)
              /\ storing' = [storing EXCEPT ![w] = [pc |-> "stored", days |-> days]]
        BY <1>5 DEF PriceStore
    <2>2. CASE x \in days
        BY <1>5, <2>1, <2>2, KindsAssumption
           DEF PriceStore, Flagged, DayFlagged, Idle
    <2>3. CASE x \notin days
        BY <1>1, <1>5, <2>1, <2>3 DEF PriceStore, Changed
    <2> QED
        BY <2>2, <2>3
<1>6. ASSUME NEW w \in Storers, PriceStamp(w) PROVE Covered(x, m, t)'
    BY <1>1, <1>6 DEF PriceStamp
<1> QED
    BY <1>2, <1>3, <1>4, <1>5, <1>6

\* So does assigning a stamp: it is newer than t, or it replaces none that is,
\* or the inputs it leaves without a flag are counted as having lost theirs.
LEMMA PublishCovers ==
    ASSUME TypeOK, NEW t \in Nat, NEW x \in Inputs, NEW m \in Contents,
           m = model \/ (run.pc = "training" /\ m = run.seen),
           Covered(x, m, t), NEW w \in Storers, PricePublish(w)
    PROVE  Covered(x, m, t)'
<1> USE DEF TypeOK, Covered, Contents, Inputs
<1>1. CASE x \in Series
    BY <1>1 DEF PricePublish, Flagged, SeriesFlagged
<1>2. CASE x \notin Series
    <2>1. CASE storing[w].at < priceStamp
        BY <1>2, <2>1 DEF PricePublish, Stale
    <2>2. CASE ~(storing[w].at < priceStamp)
        <3>1. storing[w].at \in Nat /\ priceStamp' = storing[w].at
            BY DEF PricePublish, Idle
        <3>2. Flagged(x, t) => Flagged(x, t)'
            BY <1>2, <2>2, <3>1 DEF PricePublish, Flagged, DayFlagged, Idle
        <3> QED
            BY <2>2, <3>2 DEF PricePublish
    <2> QED
        BY <2>1, <2>2
<1> QED
    BY <1>1, <1>2

\* No step loses a change whose stamp is kept, for the model in use ...
LEMMA FreshStep == Inv /\ [Next]_vars => FreshOrFlagged'
<1> SUFFICES ASSUME Inv, [Next]_vars, (trained /\ trees)', NEW x \in Inputs
             PROVE  Covered(x, model, trainedAt)'
    BY DEF FreshOrFlagged, Covered, Inputs
<1> USE DEF Inv
<1>1. trained /\ trees => Covered(x, model, trainedAt)
    BY DEF FreshOrFlagged, Covered
<1>2. PICK m \in Contents, t \in Nat : m = model /\ t = trainedAt /\ t <= clock
    BY DEF TypeOK, StampsArePast
<1>3. CASE \/ \E s \in Series : SeriesCommit(s) \/ SeriesFail(s)
           \/ SeriesStamp
           \/ \E w \in Storers : PriceStore(w) \/ PriceStamp(w)
    <2>1. UNCHANGED fitted
        BY <1>3 DEF SeriesCommit, SeriesFail, SeriesStamp, PriceStore, PriceStamp
    <2>2. Covered(x, m, t)
        BY <1>1, <1>2, <2>1 DEF fitted
    <2>3. Covered(x, m, t)'
        BY <1>2, <1>3, <2>2, CoverKept
    <2> QED
        BY <1>2, <2>1, <2>3 DEF fitted, Covered, Flagged, SeriesFlagged, DayFlagged
<1>4. ASSUME NEW w \in Storers, PricePublish(w)
      PROVE  Covered(x, model, trainedAt)'
    <2>1. UNCHANGED fitted
        BY <1>4 DEF PricePublish
    <2>2. Covered(x, m, t)
        BY <1>1, <1>2, <2>1 DEF fitted
    <2>3. Covered(x, m, t)'
        BY <1>2, <1>4, <2>2, PublishCovers
    <2> QED
        BY <1>2, <2>1, <2>3 DEF fitted, Covered, Flagged, SeriesFlagged, DayFlagged
<1>5. CASE RunStart \/ RunCheck \/ \E y \in Inputs : TrainRead(y)
    <2>1. UNCHANGED <<fitted, stores, unflagged>>
        BY <1>5 DEF RunStart, RunCheck, TrainRead
    <2> QED
        BY <1>1, <2>1 DEF fitted, stores, Covered, Flagged, SeriesFlagged, DayFlagged
<1>6. CASE TrainEnd
    <2>1. x \in unflagged \/ run.seen[x] = data[x] \/ Flagged(x, run.started)
        BY <1>6 DEF TrainEnd, ReadOrFlagged
    <2>2. model' = run.seen /\ trainedAt' = run.started /\ UNCHANGED stores
        BY <1>6 DEF TrainEnd
    <2>3. CASE x \in unflagged /\ run.seen[x] # data[x]
        BY <1>6, <2>3 DEF TrainEnd, Covered
    <2>4. CASE run.seen[x] = data[x]
        BY <2>2, <2>4 DEF Covered, stores
    <2>5. CASE Flagged(x, run.started)
        BY <2>2, <2>5 DEF Covered, stores, Flagged, SeriesFlagged, DayFlagged
    <2> QED
        BY <2>1, <2>3, <2>4, <2>5
<1>7. CASE TrainFail \/ TrainTooFew
    BY <1>7 DEF TrainFail, TrainTooFew
<1>8. CASE Restart
    BY <1>8 DEF Restart
<1>9. CASE UNCHANGED vars
    BY <1>1, <1>9 DEF vars, Covered, Flagged, SeriesFlagged, DayFlagged
<1> QED
    BY <1>3, <1>4, <1>5, <1>6, <1>7, <1>8, <1>9 DEF Next, RunSteps, StoreSteps

\* ... and for what a training under way has read.
LEMMA ReadStep == Inv /\ [Next]_vars => ReadOrFlagged'
<1> SUFFICES ASSUME Inv, [Next]_vars, (run.pc = "training")',
                    NEW x \in Inputs, (x \notin run.unread)'
             PROVE  Covered(x, run.seen, run.started)'
    BY DEF ReadOrFlagged, Covered, Inputs
<1> USE DEF Inv
<1>1. run.pc = "training" /\ x \notin run.unread =>
          Covered(x, run.seen, run.started)
    BY DEF ReadOrFlagged, Covered
<1>2. run.pc = "training" =>
          run.seen \in Contents /\ run.started \in Nat /\ run.started <= clock
    BY DEF TypeOK, StampsArePast, Idle
<1>3. CASE \/ \E s \in Series : SeriesCommit(s) \/ SeriesFail(s)
           \/ SeriesStamp
           \/ \E w \in Storers : PriceStore(w) \/ PriceStamp(w)
    <2>1. UNCHANGED run
        BY <1>3 DEF SeriesCommit, SeriesFail, SeriesStamp, PriceStore, PriceStamp
    <2>2. PICK m \in Contents, t \in Nat :
              m = run.seen /\ t = run.started /\ t <= clock
        BY <1>2, <2>1
    <2>3. Covered(x, m, t)
        BY <1>1, <2>1, <2>2
    <2>4. Covered(x, m, t)'
        BY <1>3, <2>2, <2>3, CoverKept
    <2> QED
        BY <2>1, <2>2, <2>4 DEF Covered, Flagged, SeriesFlagged, DayFlagged
<1>4. ASSUME NEW w \in Storers, PricePublish(w)
      PROVE  Covered(x, run.seen, run.started)'
    <2>1. UNCHANGED run
        BY <1>4 DEF PricePublish
    <2>2. PICK m \in Contents, t \in Nat : m = run.seen /\ t = run.started
        BY <1>2, <2>1
    <2>3. Covered(x, m, t)
        BY <1>1, <2>1, <2>2
    <2>4. Covered(x, m, t)'
        BY <1>4, <2>1, <2>2, <2>3, PublishCovers
    <2> QED
        BY <2>1, <2>2, <2>4 DEF Covered, Flagged, SeriesFlagged, DayFlagged
<1>5. CASE RunCheck
    BY <1>5 DEF RunCheck, Idle
<1>6. ASSUME NEW y \in Inputs, TrainRead(y)
      PROVE  Covered(x, run.seen, run.started)'
    <2>1. UNCHANGED <<stores, unflagged>> /\ run.pc = "training"
        BY <1>6 DEF TrainRead
    <2>2. /\ run'.started = run.started
          /\ run'.unread = run.unread \ {y}
          /\ run'.seen = [run.seen EXCEPT ![y] = data[y]]
        BY <1>6 DEF TrainRead, TypeOK, Idle
    <2>3. CASE x = y
        BY <1>2, <2>1, <2>2, <2>3 DEF Covered, Contents, stores
    <2>4. CASE x # y
        <3>1. Covered(x, run.seen, run.started) /\ run'.seen[x] = run.seen[x]
            BY <1>1, <1>2, <2>1, <2>2, <2>4 DEF Contents
        <3> QED
            BY <2>1, <2>2, <3>1
               DEF stores, Covered, Flagged, SeriesFlagged, DayFlagged
    <2> QED
        BY <2>3, <2>4
<1>7. CASE RunStart \/ TrainEnd \/ TrainFail \/ TrainTooFew \/ Restart
    BY <1>7 DEF RunStart, TrainEnd, TrainFail, TrainTooFew, Restart, Idle
<1>8. CASE UNCHANGED vars
    BY <1>1, <1>8 DEF vars, Covered, Flagged, SeriesFlagged, DayFlagged
<1> QED
    BY <1>3, <1>4, <1>5, <1>6, <1>7, <1>8 DEF Next, RunSteps, StoreSteps

\* The inductive invariant is inductive.
LEMMA InvStep == Inv /\ [Next]_vars => Inv'
BY TypeStep, PastStep, FreshStep, ReadStep DEF Inv

\* While a model is in use, every input it was not trained on in its current
\* content will cause the next forecast run to retrain, unless the stamp of
\* its change was lost.
THEOREM NoChangeForgotten == Spec => []FreshOrFlagged
<1>1. Inv => FreshOrFlagged
    BY DEF Inv
<1> QED
    BY InitInv, InvStep, <1>1, PTL DEF Spec

\* The same of what a training under way has read so far.
THEOREM NoChangeOvertakesTraining == Spec => []ReadOrFlagged
<1>1. Inv => ReadOrFlagged
    BY DEF Inv
<1> QED
    BY InitInv, InvStep, <1>1, PTL DEF Spec
=============================================================================
