--------------------------- MODULE SelfLearningProofs ---------------------------
(***************************************************************************)
(* Proofs about SelfLearning: for any number of slots, forecast runs,      *)
(* handlers, crashes, resets and failed storage calls, no prediction is    *)
(* removed unlearned or left behind scored, and what is quiet is saved.    *)
(***************************************************************************)
EXTENDS SelfLearning, TLAPS

BusyStates == [pc : {"found", "removing", "summing", "saving"},
               matched : SUBSET Predictions, todo : SUBSET Predictions]
ReplayStates == {[pc |-> "loading"], [pc |-> "done"], [pc |-> "saving"]} \union
                [pc : {"replaying"}, next : Nat] \union
                [pc : {"summing", "removing"}, next : Nat,
                 matched : SUBSET Predictions, todo : SUBSET Predictions]
Busy(h) == handler[h].pc # "idle"
Replays == replay.pc \in {"summing", "removing"}

\* What was never inserted is nowhere.
Remembered ==
    /\ table \subseteq inserted /\ leftover \subseteq inserted
    /\ dropped \subseteq inserted /\ unsaved \subseteq inserted
    /\ \A p \in Predictions \ inserted : metrics[p] = 0 /\ stored[p] = 0 /\ sums[p] = 0

\* Until the startup is done there is no handler, no reset, and all is saved.
Starting == ~ Up => unsaved = {} /\ ~ resetting /\ \A h \in Handlers : ~ Busy(h)

\* What is in the metrics, unless a reset took it out of them.
Learnt(p) == /\ metrics[p] > 0 \/ p \in dropped
             /\ metrics[p] > 0 \/ p \in unsaved \/ stored[p] = metrics[p]

\* What was matched and is not to do any more has left the table.
Scoring(j) == /\ j.todo \subseteq j.matched /\ j.matched \subseteq inserted
              /\ \A p \in j.matched \intersect table : p \in j.todo
HandlerOK(h) == Busy(h) =>
    /\ Scoring(handler[h])
    /\ handler[h].pc \in {"summing", "saving"} => handler[h].todo = {}
    /\ handler[h].pc # "found" => \A p \in handler[h].matched : Learnt(p)
HandlersOK == \A h \in Handlers : HandlerOK(h)

\* The replay only adds to what was stored.
ReplayOK ==
    /\ Replays => Scoring(replay) /\ \A p \in replay.matched : metrics[p] > 0
    /\ replay.pc \notin {"loading", "done"} => \A p \in Predictions : stored[p] <= metrics[p]

\* What the invariants say of the metrics holds of what is stored as well.
ScoredIsHeld == \A p \in table :
    metrics[p] > 0 \/ stored[p] > 0 \/ sums[p] > 0 => p \in Held \union leftover
RemovedIsStored == replay.pc = "loading" => \A p \in inserted \ table :
    stored[p] > 0 \/ p \in dropped \/ p.slot < now - Keep

\* The inductive invariant.
Inv == /\ TypeOK /\ Remembered /\ Starting /\ HandlersOK /\ ReplayOK
       /\ ScoredIsHeld /\ RemovedIsStored /\ RemovedIsLearned /\ QuietIsSaved
-----------------------------------------------------------------------------
(* The parts of a state *)

LEMMA HandlerIs ==
    ASSUME TypeOK, NEW h \in Handlers
    PROVE  /\ handler[h].pc \in {"idle", "found", "removing", "summing", "saving"}
           /\ Busy(h) => handler[h] \in BusyStates
           /\ Busy(h) <=> handler[h] # Idle
<1>1. handler[h] \in {Idle} \union BusyStates
    BY DEF TypeOK, BusyStates
<1>2. CASE handler[h] = Idle
    BY <1>2 DEF Idle, Busy
<1>3. CASE handler[h] \in BusyStates
    <2>1. handler[h].pc \in {"found", "removing", "summing", "saving"}
        BY <1>3 DEF BusyStates
    <2>2. handler[h] # Idle
        BY <2>1 DEF Idle
    <2> QED
        BY <1>3, <2>1, <2>2 DEF Busy
<1> QED
    BY <1>1, <1>2, <1>3

LEMMA ReplayIs ==
    ASSUME TypeOK
    PROVE  /\ replay.pc \in {"loading", "done", "saving", "replaying", "summing", "removing"}
           /\ replay.pc = "replaying" => replay.next \in Nat
           /\ Replays => replay \in [pc : {"summing", "removing"}, next : Nat,
                                     matched : SUBSET Predictions, todo : SUBSET Predictions]
    BY DEF TypeOK, Replays

\* Who holds a prediction.
LEMMA HeldIs ==
    ASSUME TypeOK, NEW p
    PROVE  p \in Held <=> \/ \E h \in Handlers : Busy(h) /\ p \in handler[h].matched
                          \/ Replays /\ p \in replay.matched
<1>1. \A h \in Handlers : Busy(h) <=> handler[h] # Idle
    BY HandlerIs
<1> QED
    BY <1>1 DEF Held, Replays

LEMMA PlusIs ==
    ASSUME NEW c \in Counts, NEW S
    PROVE  /\ Plus(c, S) \in Counts
           /\ \A p \in Predictions : /\ c[p] \in Nat /\ Plus(c, S)[p] \in Nat
                                     /\ Plus(c, S)[p] = IF p \in S THEN c[p] + 1 ELSE c[p]
    BY DEF Plus, Counts

LEMMA SavedIs ==
    ASSUME TypeOK
    PROVE  /\ Saved \in Counts
           /\ \A p \in Predictions : /\ Saved[p] \in {metrics[p], stored[p]}
                                     /\ metrics[p] > 0 => Saved[p] = metrics[p]
<1>1. metrics \in [Predictions -> Nat] /\ stored \in [Predictions -> Nat]
    BY DEF TypeOK, Counts
<1> QED
    BY <1>1 DEF Saved, Counts

LEMMA NoneIs == None \in Counts /\ \A p \in Predictions : None[p] = 0
    BY DEF None, Counts

\* What stays of a handler that does not take the step.
LEMMA HandlerStays ==
    ASSUME NEW h \in Handlers, HandlerOK(h), handler'[h] = handler[h],
           inserted \subseteq inserted', table' \intersect inserted \subseteq table,
           \A p \in inserted : Learnt(p) => Learnt(p)'
    PROVE  HandlerOK(h)'
<1>1. ASSUME Busy(h) PROVE Scoring(handler[h])'
    BY <1>1 DEF HandlerOK, Scoring
<1>2. ASSUME Busy(h), handler[h].pc # "found", NEW p \in handler[h].matched PROVE Learnt(p)'
    BY <1>2 DEF HandlerOK, Scoring
<1> QED
    BY <1>1, <1>2 DEF HandlerOK, Busy

\* What a step that is no handler's and no replay's has to keep.
LEMMA OthersKeepInv ==
    ASSUME Inv, UNCHANGED <<handler, replay>>, Up,
           TypeOK', Remembered', inserted \subseteq inserted',
           table' \intersect inserted \subseteq table,
           \A p \in inserted : Learnt(p) => Learnt(p)',
           \A p \in table' : metrics'[p] > 0 \/ stored'[p] > 0 \/ sums'[p] > 0
                               => p \in Held \union leftover',
           \A p \in inserted' \ table' : metrics'[p] > 0 \/ p \in dropped' \/ p.slot < now' - Keep,
           \A p \in Predictions \ (Held \union unsaved') : stored'[p] = metrics'[p]
    PROVE  Inv'
<1>1. Held' = Held
    BY DEF Held
<1>2. HandlersOK'
    BY HandlerStays DEF Inv, HandlersOK
<1>3. Starting' /\ ReplayOK' /\ RemovedIsStored'
    BY DEF Starting, ReplayOK, RemovedIsStored, Up, Replays
<1>4. ScoredIsHeld' /\ RemovedIsLearned' /\ QuietIsSaved'
    BY <1>1 DEF ScoredIsHeld, RemovedIsLearned, QuietIsSaved
<1> QED
    BY <1>2, <1>3, <1>4 DEF Inv

\* The invariant, one prediction at a time, when the startup is done.
LEMMA UpIs ==
    ASSUME Inv, Up
    PROVE  /\ table \subseteq inserted /\ inserted \subseteq Predictions
           /\ \A p \in Predictions : metrics[p] \in Nat /\ stored[p] \in Nat /\ sums[p] \in Nat
           /\ \A p \in Predictions \ inserted : metrics[p] = 0 /\ stored[p] = 0 /\ sums[p] = 0
           /\ \A p \in table : metrics[p] > 0 \/ stored[p] > 0 \/ sums[p] > 0
                                 => p \in Held \union leftover
           /\ \A p \in inserted \ table : metrics[p] > 0 \/ p \in dropped \/ p.slot < now - Keep
           /\ \A p \in Predictions \ (Held \union unsaved) : stored[p] = metrics[p]
    BY DEF Inv, TypeOK, Counts, Remembered, ScoredIsHeld, RemovedIsLearned, QuietIsSaved, Up

LEMMA StorePredictionKeepsInv ==
    ASSUME Inv, NEW p \in Predictions, StorePrediction(p) PROVE Inv'
<1>1. Up /\ TypeOK /\ Remembered
    BY DEF Inv, StorePrediction
<1>2. TypeOK' /\ Remembered'
    BY <1>1 DEF StorePrediction, TypeOK, Remembered
<1>3. /\ p \notin inserted /\ table' = table \union {p} /\ inserted' = inserted \union {p}
      /\ UNCHANGED <<now, metrics, stored, sums, handler, replay, dropped, unsaved, leftover>>
    BY DEF StorePrediction
<1>4. \A q : Learnt(q) => Learnt(q)'
    BY <1>3 DEF Learnt
<1> QED
    BY <1>1, <1>2, <1>3, <1>4, UpIs, OthersKeepInv

LEMMA DeleteOldKeepsInv == ASSUME Inv, DeleteOld PROVE Inv'
<1>1. Up /\ TypeOK /\ Remembered
    BY DEF Inv, DeleteOld
<1>2. /\ table' = {p \in table : p.slot >= now - Keep}
      /\ UNCHANGED <<now, metrics, stored, sums, handler, replay, inserted, dropped, unsaved,
                     leftover, resetting, faults>>
    BY DEF DeleteOld, ghosts
<1>3. TypeOK' /\ Remembered'
    BY <1>1, <1>2 DEF TypeOK, Remembered
<1>4. \A q : Learnt(q) => Learnt(q)'
    BY <1>2 DEF Learnt
<1>5. \A p \in table \ table' : p.slot < now - Keep
    BY <1>1, <1>2, SlotsAssumption DEF TypeOK, Predictions, Slots
<1> QED
    BY <1>1, <1>2, <1>3, <1>4, <1>5, UpIs, OthersKeepInv

\* A save may leave only what is not quiet different.
LEMMA SaveIs ==
    ASSUME Inv, Save
    PROVE  /\ stored' = Saved /\ stored' \in Counts
           /\ unsaved' \subseteq unsaved /\ unsaved' = {p \in unsaved : stored'[p] # metrics[p]}
           /\ \A p \in Predictions : stored'[p] \in {metrics[p], stored[p]}
           /\ \A p \in Predictions : metrics[p] > 0 => stored'[p] = metrics[p]
           /\ (UNCHANGED <<metrics, dropped>>) => \A p \in inserted : Learnt(p) => Learnt(p)'
<1>1. TypeOK
    BY DEF Inv
<1>2. /\ stored' = Saved /\ unsaved' = {p \in unsaved : Saved[p] # metrics[p]}
    BY DEF Save
<1>3. inserted \subseteq Predictions
    BY <1>1 DEF TypeOK
<1>4. ASSUME UNCHANGED <<metrics, dropped>>, NEW p \in inserted, Learnt(p) PROVE Learnt(p)'
    BY <1>1, <1>2, <1>3, <1>4, SavedIs DEF Learnt
<1> QED
    BY <1>1, <1>2, <1>4, SavedIs

LEMMA ForecastSaveKeepsInv == ASSUME Inv, ForecastSave PROVE Inv'
<1>1. Up /\ TypeOK /\ Remembered /\ Save
    BY DEF Inv, ForecastSave
<1>2. UNCHANGED <<now, table, metrics, sums, handler, replay, inserted, dropped,
                  leftover, resetting, faults>>
    BY DEF ForecastSave
<1>3. TypeOK' /\ Remembered'
    BY <1>1, <1>2, SaveIs DEF TypeOK, Remembered
<1> QED
    BY <1>1, <1>2, <1>3, SaveIs, UpIs, OthersKeepInv

LEMMA ResetMemoryKeepsInv == ASSUME Inv, ResetMemory PROVE Inv'
<1>1. Up /\ TypeOK /\ Remembered
    BY DEF Inv, ResetMemory
<1>2. /\ metrics' = None /\ resetting' = TRUE /\ dropped' = inserted /\ unsaved' = inserted
      /\ UNCHANGED <<now, table, stored, sums, handler, replay, inserted, leftover>>
      /\ faults' \in 0..MaxFaults
    BY <1>1, FaultsAssumption DEF ResetMemory, tables, Fault, TypeOK
<1>3. TypeOK' /\ Remembered'
    BY <1>1, <1>2, NoneIs DEF TypeOK, Remembered
<1>4. \A p \in inserted : Learnt(p)'
    BY <1>2 DEF Learnt
<1> QED
    BY <1>1, <1>2, <1>3, <1>4, NoneIs, UpIs, OthersKeepInv

LEMMA ResetStorageKeepsInv == ASSUME Inv, ResetStorage PROVE Inv'
<1>1. Up /\ TypeOK /\ Remembered
    BY DEF Inv, ResetStorage, Starting
<1>2. /\ resetting' = FALSE /\ faults' \in 0..MaxFaults
      /\ UNCHANGED <<now, metrics, handler, replay, inserted, leftover>>
    BY <1>1, FaultsAssumption DEF ResetStorage, Fault, TypeOK
<1>3. CASE /\ table' = {} /\ stored' = None /\ sums' = None
           /\ dropped' = inserted /\ unsaved' = inserted
    <2>1. TypeOK' /\ Remembered'
        BY <1>1, <1>2, <1>3, NoneIs DEF TypeOK, Remembered
    <2>2. \A p \in inserted : Learnt(p)'
        BY <1>3 DEF Learnt
    <2> QED
        BY <1>1, <1>2, <1>3, <2>1, <2>2, NoneIs, UpIs, OthersKeepInv
<1>4. CASE UNCHANGED <<tables, dropped, unsaved>>
    <2>1. UNCHANGED <<table, stored, sums, dropped, unsaved>>
        BY <1>4 DEF tables
    <2>2. TypeOK' /\ Remembered'
        BY <1>1, <1>2, <2>1 DEF TypeOK, Remembered
    <2>3. \A p : Learnt(p) => Learnt(p)'
        BY <1>2, <2>1 DEF Learnt
    <2> QED
        BY <1>1, <1>2, <2>1, <2>2, <2>3, UpIs, OthersKeepInv
<1> QED
    BY <1>3, <1>4 DEF ResetStorage

\* Time passes at any moment: what was too old stays so.
LEMMA NextQuarterKeepsInv == ASSUME Inv, NextQuarter PROVE Inv'
<1>1. /\ UNCHANGED <<table, metrics, stored, sums, handler, replay, resetting, faults,
                     inserted, leftover, dropped, unsaved>>
      /\ now \in Slots /\ now < LastSlot /\ now' = now + 1
    BY DEF NextQuarter, tables, ghosts, Inv, TypeOK
<1>2. now' \in Slots /\ \A p \in inserted : p.slot < now - Keep => p.slot < now' - Keep
    <2>1. \A p \in inserted : p.slot \in Int
        BY DEF Inv, TypeOK, Predictions, Slots
    <2> QED
        BY <1>1, <2>1, SlotsAssumption DEF Slots
<1>3. TypeOK'
    BY <1>1, <1>2 DEF Inv, TypeOK
<1>4. Remembered' /\ Starting' /\ HandlersOK' /\ ReplayOK'
    BY <1>1 DEF Inv, Remembered, Starting, HandlersOK, HandlerOK, ReplayOK, Scoring, Learnt,
                Up, Busy, Replays
<1>5. ScoredIsHeld' /\ QuietIsSaved'
    BY <1>1 DEF Inv, ScoredIsHeld, QuietIsSaved, Held
<1>6. RemovedIsStored' /\ RemovedIsLearned'
    BY <1>1, <1>2 DEF Inv, RemovedIsStored, RemovedIsLearned
<1> QED
    BY <1>3, <1>4, <1>5, <1>6 DEF Inv
-----------------------------------------------------------------------------
(* The steps of a handler *)

\* A step of one handler, from a busy or idle state to j.
LEMMA HandlerStepKeepsInv ==
    ASSUME Inv, Up, NEW h \in Handlers, NEW j \in {Idle} \union BusyStates,
           handler' = [handler EXCEPT ![h] = j],
           UNCHANGED <<now, replay, resetting, inserted, dropped>>,
           table' \subseteq table, metrics' \in Counts, stored' \in Counts, sums' \in Counts,
           faults' \in 0..MaxFaults, leftover' \subseteq inserted, unsaved' \subseteq inserted,
           \A p \in Predictions \ inserted : metrics'[p] = 0 /\ stored'[p] = 0 /\ sums'[p] = 0,
           HandlerOK(h)', \A p \in inserted : Learnt(p) => Learnt(p)',
           \A p \in table' : metrics'[p] > 0 \/ stored'[p] > 0 \/ sums'[p] > 0
                               => p \in Held' \union leftover',
           \A p \in inserted \ table' : metrics'[p] > 0 \/ p \in dropped \/ p.slot < now - Keep,
           \A p \in Predictions \ (Held' \union unsaved') : stored'[p] = metrics'[p]
    PROVE  Inv'
<1>1. handler' \in [Handlers -> {Idle} \union BusyStates]
    BY DEF Inv, TypeOK, BusyStates
<1>2. TypeOK'
    <2>1. table' \subseteq Predictions
        BY DEF Inv, TypeOK
    <2> QED
        BY <1>1, <2>1 DEF Inv, TypeOK, BusyStates
<1>3. Remembered'
    BY DEF Inv, Remembered
<1>4. HandlersOK'
    <2>1. ASSUME NEW g \in Handlers, g # h PROVE HandlerOK(g)'
        <3>1. handler'[g] = handler[g]
            BY <2>1 DEF Inv, TypeOK
        <3> QED
            BY <3>1, HandlerStays DEF Inv, HandlersOK
    <2> QED
        BY <2>1 DEF HandlersOK
<1>5. replay'.pc = "done" /\ replay'.pc # "loading"
    BY DEF Up
<1>6. Starting' /\ ReplayOK' /\ RemovedIsStored'
    BY <1>5 DEF Starting, ReplayOK, RemovedIsStored, Up, Replays
<1>7. ScoredIsHeld' /\ RemovedIsLearned' /\ QuietIsSaved'
    BY DEF ScoredIsHeld, RemovedIsLearned, QuietIsSaved
<1> QED
    BY <1>2, <1>3, <1>4, <1>6, <1>7 DEF Inv

\* Whom a handler's step leaves holding a prediction.
LEMMA HeldAfter ==
    ASSUME TypeOK, UNCHANGED replay, NEW h \in Handlers, NEW j \in {Idle} \union BusyStates,
           handler' = [handler EXCEPT ![h] = j]
    PROVE  /\ (j # Idle /\ (Busy(h) => j.matched = handler[h].matched)) => Held \subseteq Held'
           /\ (j # Idle /\ Busy(h) /\ j.matched = handler[h].matched) => Held' = Held
           /\ (j = Idle /\ Busy(h)) => Held \subseteq Held' \union handler[h].matched
           /\ j # Idle => j.matched \subseteq Held'
<1>1. \A p : p \in Held <=> \/ \E g \in Handlers : Busy(g) /\ p \in handler[g].matched
                            \/ Replays /\ p \in replay.matched
    BY HeldIs
<1>2. \A g \in Handlers : handler'[g] = IF g = h THEN j ELSE handler[g]
    BY DEF TypeOK
<1>3. \A g \in Handlers : Busy(g) <=> handler[g] # Idle
    BY HandlerIs
<1>4. \A p : p \in Held' <=> \/ \E g \in Handlers : handler'[g] # Idle /\ p \in handler'[g].matched
                             \/ Replays /\ p \in replay.matched
    BY DEF Held, Replays
<1> QED
    BY <1>1, <1>2, <1>3, <1>4

LEMMA LearnFindKeepsInv == ASSUME Inv, NEW h \in Handlers, LearnFind(h) PROVE Inv'
<1> DEFINE j == [pc |-> "found", matched |-> AtSlot(now), todo |-> AtSlot(now)]
<1>1. Up /\ TypeOK /\ Remembered /\ handler[h] = Idle
    BY DEF Inv, LearnFind
<1>2. /\ handler' = [handler EXCEPT ![h] = j]
      /\ UNCHANGED <<now, table, metrics, stored, sums, replay, resetting, faults,
                     inserted, leftover, dropped, unsaved>>
    BY DEF LearnFind, tables, ghosts
<1>3. AtSlot(now) \subseteq table /\ table \subseteq inserted /\ table \subseteq Predictions
    BY <1>1 DEF AtSlot, TypeOK, Remembered
<1>4. j \in BusyStates /\ j # Idle
    BY <1>3 DEF BusyStates, Idle
<1>5. handler'[h] = j
    BY <1>1, <1>2 DEF TypeOK
<1>6. HandlerOK(h)'
    BY <1>2, <1>3, <1>5 DEF HandlerOK, Scoring, Busy
<1>7. Held \subseteq Held'
    <2>1. ~ Busy(h)
        BY <1>1 DEF Busy, Idle
    <2> HIDE DEF j
    <2> QED
        BY <1>1, <1>2, <1>4, <2>1, HeldAfter
<1>8. \A p : Learnt(p) => Learnt(p)'
    BY <1>2 DEF Learnt
<1> HIDE DEF j
<1> QED
    BY <1>1, <1>2, <1>4, <1>6, <1>7, <1>8, UpIs, HandlerStepKeepsInv DEF TypeOK, Remembered

LEMMA BusyIs ==
    ASSUME Inv, NEW h \in Handlers, Busy(h)
    PROVE  /\ Up /\ TypeOK /\ handler[h] \in BusyStates /\ handler[h] # Idle
           /\ handler[h].matched \subseteq inserted /\ inserted \subseteq Predictions
           /\ handler[h].todo \subseteq handler[h].matched
           /\ \A p \in handler[h].matched \intersect table : p \in handler[h].todo
           /\ handler[h].matched \subseteq Held
           /\ handler[h].pc \in {"summing", "saving"} => handler[h].todo = {}
           /\ handler[h].pc # "found" => \A p \in handler[h].matched : Learnt(p)
           /\ leftover \subseteq inserted /\ unsaved \subseteq inserted
<1>1. TypeOK /\ Up
    BY DEF Inv, Starting
<1>2. HandlerOK(h) /\ Remembered
    BY DEF Inv, HandlersOK
<1>3. handler[h].matched \subseteq Held
    BY <1>1, HeldIs
<1> QED
    BY <1>1, <1>2, <1>3, HandlerIs DEF HandlerOK, Scoring, Remembered, TypeOK

\* Everything that was matched is learnt at once.
LEMMA LearnScoreKeepsInv == ASSUME Inv, NEW h \in Handlers, LearnScore(h) PROVE Inv'
<1>0. PICK j : j = [handler[h] EXCEPT !.pc = "removing"]
    OBVIOUS
<1>1. Busy(h) /\ handler[h].pc = "found"
    BY DEF LearnScore, Busy
<1>2. /\ metrics' = Plus(metrics, handler[h].matched) /\ handler' = [handler EXCEPT ![h] = j]
      /\ UNCHANGED <<now, table, stored, sums, replay, resetting, faults,
                     inserted, leftover, dropped, unsaved>>
    BY <1>0 DEF LearnScore, tables, ghosts
<1>3. /\ j \in BusyStates /\ j # Idle /\ j.matched = handler[h].matched
      /\ j.todo = handler[h].todo /\ j.pc = "removing"
    BY <1>0, <1>1, BusyIs DEF BusyStates, Idle
<1>4. handler'[h] = j
    BY <1>1, <1>2, BusyIs DEF TypeOK
<1>5. /\ metrics' \in Counts
      /\ \A p \in Predictions : /\ metrics[p] \in Nat /\ metrics'[p] \in Nat
                                /\ metrics'[p] = IF p \in handler[h].matched THEN metrics[p] + 1
                                                 ELSE metrics[p]
    BY <1>1, <1>2, BusyIs, PlusIs DEF TypeOK
<1>6. \A p \in handler[h].matched : metrics'[p] > 0
    BY <1>1, <1>5, BusyIs
<1>7. ASSUME NEW p \in inserted, Learnt(p) PROVE Learnt(p)'
    <2>1. p \in Predictions
        BY <1>1, BusyIs
    <2> QED
        BY <1>2, <1>5, <1>6, <1>7, <2>1 DEF Learnt
<1>8. HandlerOK(h)'
    BY <1>1, <1>2, <1>3, <1>4, <1>6, BusyIs DEF HandlerOK, Scoring, Busy, Learnt
<1>9. Held' = Held
    BY <1>1, <1>2, <1>3, BusyIs, HeldAfter
<1>10. \A p \in Predictions : metrics'[p] = metrics[p] \/ (p \in inserted /\ p \in Held)
    BY <1>1, <1>5, BusyIs
<1>11. \A p \in Predictions : metrics[p] > 0 => metrics'[p] > 0
    BY <1>5
<1>12. /\ stored' \in Counts /\ sums' \in Counts /\ faults' \in 0..MaxFaults
       /\ leftover' \subseteq inserted /\ unsaved' \subseteq inserted /\ Up
    BY <1>1, <1>2, BusyIs DEF TypeOK
<1>13. \A p \in table' : metrics'[p] > 0 \/ stored'[p] > 0 \/ sums'[p] > 0
                           => p \in Held' \union leftover'
    BY <1>1, <1>2, <1>9, <1>10, BusyIs, UpIs
<1>14. \A p \in inserted \ table' : metrics'[p] > 0 \/ p \in dropped \/ p.slot < now - Keep
    BY <1>1, <1>2, <1>11, BusyIs, UpIs
<1>15. \A p \in Predictions \ (Held' \union unsaved') : stored'[p] = metrics'[p]
    BY <1>1, <1>2, <1>9, <1>10, BusyIs, UpIs
<1>16. \A p \in Predictions \ inserted : metrics'[p] = 0 /\ stored'[p] = 0 /\ sums'[p] = 0
    BY <1>1, <1>2, <1>10, BusyIs, UpIs
<1> QED
    BY <1>2, <1>3, <1>5, <1>7, <1>8, <1>12, <1>13, <1>14, <1>15, <1>16, HandlerStepKeepsInv

\* What is removed is learnt, and what is left is still to do.
LEMMA LearnRemoveKeepsInv == ASSUME Inv, NEW h \in Handlers, LearnRemove(h) PROVE Inv'
<1>1. Busy(h) /\ handler[h].pc = "removing"
    BY DEF LearnRemove, Busy
<1>2. PICK p \in handler[h].todo :
         /\ table' = table \ {p}
         /\ handler' = [handler EXCEPT ![h].todo = @ \ {p},
                ![h].pc = IF handler[h].todo = {p} THEN "summing" ELSE "removing"]
    BY DEF LearnRemove
<1>3. PICK i : i = [handler[h] EXCEPT !.todo = handler[h].todo \ {p}]
    OBVIOUS
<1>4. PICK next : next = IF handler[h].todo = {p} THEN "summing" ELSE "removing"
    OBVIOUS
<1>5. PICK j : j = [i EXCEPT !.pc = next]
    OBVIOUS
<1>6. /\ handler' = [handler EXCEPT ![h] = j]
      /\ UNCHANGED <<now, metrics, stored, sums, replay, resetting, faults,
                     inserted, leftover, dropped, unsaved>>
    BY <1>1, <1>2, <1>5, <1>3, <1>4, BusyIs DEF LearnRemove, ghosts, TypeOK
<1>7. i \in BusyStates /\ i.matched = handler[h].matched /\ i.todo = handler[h].todo \ {p}
    BY <1>1, <1>3, BusyIs DEF BusyStates
<1>8. /\ j \in BusyStates /\ j # Idle /\ j.matched = handler[h].matched
      /\ j.todo = handler[h].todo \ {p}
      /\ j.pc = IF handler[h].todo = {p} THEN "summing" ELSE "removing"
    BY <1>5, <1>4, <1>7 DEF BusyStates, Idle
<1>9. handler'[h] = j
    BY <1>1, <1>6, BusyIs DEF TypeOK
<1>10. \A q : Learnt(q) => Learnt(q)'
    BY <1>6 DEF Learnt
<1>11. HandlerOK(h)'
    BY <1>1, <1>2, <1>6, <1>8, <1>9, <1>10, BusyIs DEF HandlerOK, Scoring, Busy
<1>12. Held' = Held
    BY <1>1, <1>6, <1>8, BusyIs, HeldAfter
<1>13. metrics[p] > 0 \/ p \in dropped
    BY <1>1, <1>2, BusyIs DEF Learnt
<1>14. /\ metrics' \in Counts /\ stored' \in Counts /\ sums' \in Counts
       /\ faults' \in 0..MaxFaults /\ table' \subseteq table
       /\ leftover' \subseteq inserted /\ unsaved' \subseteq inserted /\ Up
    BY <1>1, <1>2, <1>6, BusyIs DEF TypeOK
<1>15. \A q \in inserted \ table' : metrics'[q] > 0 \/ q \in dropped \/ q.slot < now - Keep
    BY <1>1, <1>2, <1>6, <1>13, BusyIs, UpIs
<1>16. /\ \A q \in table' : metrics'[q] > 0 \/ stored'[q] > 0 \/ sums'[q] > 0
                              => q \in Held' \union leftover'
       /\ \A q \in Predictions \ inserted : metrics'[q] = 0 /\ stored'[q] = 0 /\ sums'[q] = 0
       /\ \A q \in Predictions \ (Held' \union unsaved') : stored'[q] = metrics'[q]
    BY <1>1, <1>2, <1>6, <1>12, BusyIs, UpIs
<1> QED
    BY <1>6, <1>8, <1>10, <1>11, <1>14, <1>15, <1>16, HandlerStepKeepsInv

LEMMA LearnSumKeepsInv == ASSUME Inv, NEW h \in Handlers, LearnSum(h) PROVE Inv'
<1>0. PICK j : j = [handler[h] EXCEPT !.pc = "saving"]
    OBVIOUS
<1>1. Busy(h) /\ handler[h].pc = "summing"
    BY DEF LearnSum, Busy
<1>2. /\ handler' = [handler EXCEPT ![h] = j]
      /\ sums' = Plus(sums, handler[h].matched) \/ sums' = sums
      /\ UNCHANGED <<now, table, metrics, stored, replay, resetting,
                     inserted, leftover, dropped, unsaved>>
      /\ faults' \in 0..MaxFaults
    BY <1>0, FaultsAssumption DEF LearnSum, ghosts, Fault, Inv, TypeOK
<1>3. /\ j \in BusyStates /\ j # Idle /\ j.matched = handler[h].matched
      /\ j.todo = handler[h].todo /\ j.pc = "saving"
    BY <1>0, <1>1, BusyIs DEF BusyStates, Idle
<1>4. handler'[h] = j
    BY <1>1, <1>2, BusyIs DEF TypeOK
<1>5. /\ sums' \in Counts
      /\ \A p \in Predictions \ handler[h].matched : sums'[p] = sums[p]
    BY <1>1, <1>2, BusyIs, PlusIs DEF TypeOK
<1>6. \A q : Learnt(q) => Learnt(q)'
    BY <1>2 DEF Learnt
<1>7. HandlerOK(h)'
    BY <1>1, <1>2, <1>3, <1>4, <1>6, BusyIs DEF HandlerOK, Scoring, Busy
<1>8. Held' = Held
    BY <1>1, <1>2, <1>3, BusyIs, HeldAfter
<1>9. \A p \in Predictions : sums'[p] # sums[p] => p \in inserted /\ p \in Held
    BY <1>1, <1>5, BusyIs
<1> QED
    BY <1>1, <1>2, <1>3, <1>5, <1>6, <1>7, <1>8, <1>9, BusyIs, UpIs, HandlerStepKeepsInv
       DEF TypeOK

\* A handler ends: what it held is out of the table, or left over; and saved,
\* or unsaved.
LEMMA HandlerEndKeepsInv ==
    ASSUME Inv, NEW h \in Handlers, Busy(h), handler[h].pc # "found",
           handler' = [handler EXCEPT ![h] = Idle],
           UNCHANGED <<now, table, metrics, sums, replay, resetting, inserted, dropped>>,
           faults' \in 0..MaxFaults, stored' \in Counts,
           leftover' = leftover \union handler[h].todo, unsaved' \subseteq inserted,
           \A p \in Predictions : stored'[p] \in {metrics[p], stored[p]},
           \A p \in inserted : Learnt(p) => Learnt(p)',
           \A p \in Predictions : stored[p] = metrics[p] \/ stored'[p] = metrics[p] \/ p \in unsaved
               => stored'[p] = metrics[p] \/ p \in unsaved',
           \A p \in handler[h].matched : stored'[p] = metrics[p] \/ p \in unsaved'
    PROVE  Inv'
<1>1. Idle \in {Idle} \union BusyStates /\ handler'[h] = Idle
    BY DEF Inv, TypeOK
<1>2. HandlerOK(h)'
    BY <1>1 DEF HandlerOK, Busy, Idle
<1>3. Held \subseteq Held' \union handler[h].matched
    BY <1>1, HeldAfter DEF Inv
<1>4. \A p \in table' : metrics'[p] > 0 \/ stored'[p] > 0 \/ sums'[p] > 0
                          => p \in Held' \union leftover'
    <2> SUFFICES ASSUME NEW p \in table, metrics[p] > 0 \/ stored'[p] > 0 \/ sums[p] > 0
                 PROVE  p \in Held' \union leftover'
        OBVIOUS
    <2>1. p \in Predictions
        BY DEF Inv, TypeOK
    <2>2. metrics[p] > 0 \/ stored[p] > 0 \/ sums[p] > 0
        BY <2>1
    <2>3. p \in Held \union leftover
        BY <2>2 DEF Inv, ScoredIsHeld
    <2> QED
        BY <1>3, <2>3, BusyIs
<1>5. \A p \in Predictions \ (Held' \union unsaved') : stored'[p] = metrics'[p]
    <2> SUFFICES ASSUME NEW p \in Predictions, p \notin Held', p \notin unsaved'
                 PROVE  stored'[p] = metrics[p]
        OBVIOUS
    <2>1. p \in handler[h].matched \/ p \notin Held
        BY <1>3
    <2>2. p \notin Held => stored[p] = metrics[p] \/ p \in unsaved
        BY BusyIs, UpIs
    <2> QED
        BY <2>1, <2>2
<1>6. \A p \in Predictions \ inserted : metrics'[p] = 0 /\ stored'[p] = 0 /\ sums'[p] = 0
    BY BusyIs, UpIs
<1> QED
    BY <1>1, <1>2, <1>4, <1>5, <1>6, BusyIs, UpIs, HandlerStepKeepsInv DEF TypeOK

LEMMA LearnSaveKeepsInv == ASSUME Inv, NEW h \in Handlers, LearnSave(h) PROVE Inv'
<1>1. Busy(h) /\ handler[h].pc = "saving" /\ handler[h].todo = {}
    <2>1. Busy(h) /\ handler[h].pc = "saving"
        BY DEF LearnSave, Busy
    <2> QED
        BY <2>1, BusyIs
<1>2. /\ handler' = [handler EXCEPT ![h] = Idle]
      /\ UNCHANGED <<now, table, metrics, sums, replay, resetting, inserted, leftover, dropped>>
      /\ faults' \in 0..MaxFaults /\ leftover' = leftover \union handler[h].todo
    BY <1>1, FaultsAssumption DEF LearnSave, Fault, Inv, TypeOK
<1>3. CASE Save
    <2>1. \A p \in handler[h].matched : stored'[p] = metrics[p] \/ p \in unsaved'
        <3>1. \A p \in handler[h].matched : p \in Predictions /\ Learnt(p)
            BY <1>1, BusyIs
        <3> QED
            BY <1>3, <3>1, SaveIs DEF Learnt
    <2>2. \A p \in Predictions : stored[p] = metrics[p] \/ stored'[p] = metrics[p] \/ p \in unsaved
              => stored'[p] = metrics[p] \/ p \in unsaved'
        BY <1>3, SaveIs
    <2>3. unsaved' \subseteq inserted
        BY <1>1, <1>3, SaveIs, BusyIs
    <2> QED
        BY <1>1, <1>2, <1>3, <2>1, <2>2, <2>3, SaveIs, HandlerEndKeepsInv
<1>4. CASE unsaved' = unsaved \union handler[h].matched /\ UNCHANGED stored
    <2>1. \A p : Learnt(p) => Learnt(p)'
        BY <1>2, <1>4 DEF Learnt
    <2> QED
        BY <1>1, <1>2, <1>4, <2>1, BusyIs, HandlerEndKeepsInv DEF TypeOK
<1> QED
    BY <1>3, <1>4 DEF LearnSave

LEMMA LearnFailKeepsInv == ASSUME Inv, NEW h \in Handlers, LearnFail(h) PROVE Inv'
<1>1. Busy(h) /\ handler[h].pc = "removing"
    BY DEF LearnFail, Busy
<1>2. /\ handler' = [handler EXCEPT ![h] = Idle]
      /\ UNCHANGED <<now, table, metrics, stored, sums, replay, resetting, inserted, dropped>>
      /\ faults' \in 0..MaxFaults /\ leftover' = leftover \union handler[h].todo
      /\ unsaved' = unsaved \union handler[h].matched
    BY FaultsAssumption DEF LearnFail, tables, Fault, Inv, TypeOK
<1>3. \A p : Learnt(p) => Learnt(p)'
    BY <1>2 DEF Learnt
<1> QED
    BY <1>1, <1>2, <1>3, BusyIs, HandlerEndKeepsInv DEF TypeOK
-----------------------------------------------------------------------------
(* The startup, its replay, and a crash *)

\* Without handlers, only the replay holds predictions.
LEMMA StartingIs ==
    ASSUME Inv, ~ Up
    PROVE  /\ TypeOK /\ unsaved = {} /\ ~ resetting /\ inserted \subseteq Predictions
           /\ table \subseteq inserted /\ \A h \in Handlers : handler[h] = Idle
           /\ \A p : p \in Held <=> Replays /\ p \in replay.matched
           /\ \A p \in Predictions : metrics[p] \in Nat /\ stored[p] \in Nat /\ sums[p] \in Nat
           /\ \A p \in Predictions \ inserted : metrics[p] = 0 /\ stored[p] = 0 /\ sums[p] = 0
<1>1. TypeOK /\ Starting /\ Remembered
    BY DEF Inv
<1>2. \A h \in Handlers : ~ Busy(h) /\ handler[h] = Idle
    BY <1>1, HandlerIs DEF Starting
<1>3. \A p : p \in Held <=> Replays /\ p \in replay.matched
    BY <1>1, <1>2, HeldIs
<1> QED
    BY <1>1, <1>2, <1>3 DEF Starting, TypeOK, Remembered, Counts

LEMMA ReplayStepKeepsInv ==
    ASSUME Inv, ~ Up, replay' \in ReplayStates, replay'.pc # "loading",
           UNCHANGED <<now, handler, resetting, inserted, leftover, dropped>>,
           table' \subseteq table, metrics' \in Counts, stored' \in Counts, sums' \in Counts,
           faults' \in 0..MaxFaults, unsaved' \subseteq inserted,
           replay'.pc # "done" => unsaved' = {},
           \A p \in Predictions \ inserted : metrics'[p] = 0 /\ stored'[p] = 0 /\ sums'[p] = 0,
           ReplayOK',
           \A p \in table' : metrics'[p] > 0 \/ stored'[p] > 0 \/ sums'[p] > 0
                               => (Replays' /\ p \in replay'.matched) \/ p \in leftover,
           \A p \in inserted \ table' : metrics'[p] > 0 \/ p \in dropped \/ p.slot < now - Keep,
           replay'.pc = "done" => \A p \in Predictions \ unsaved' : stored'[p] = metrics'[p]
    PROVE  Inv'
<1>1. TypeOK'
    BY DEF Inv, TypeOK, ReplayStates
<1>2. Remembered'
    BY DEF Inv, Remembered
<1>3. \A h \in Handlers : handler[h].pc = "idle"
    BY StartingIs DEF Idle
<1>4. Starting' /\ HandlersOK'
    BY <1>3, StartingIs DEF Starting, HandlersOK, HandlerOK, Busy, Up
<1>5. ScoredIsHeld'
    <2>1. \A p : Replays' /\ p \in replay'.matched => p \in Held'
        BY DEF Held, Replays
    <2> QED
        BY <2>1 DEF ScoredIsHeld
<1>6. RemovedIsStored' /\ RemovedIsLearned'
    BY DEF RemovedIsStored, RemovedIsLearned
<1>7. QuietIsSaved'
    BY DEF QuietIsSaved
<1> QED
    BY <1>1, <1>2, <1>4, <1>5, <1>6, <1>7 DEF Inv

\* The startup loads what is stored.
LEMMA LoadKeepsInv == ASSUME Inv, Load PROVE Inv'
<1>1. ~ Up /\ replay.pc = "loading" /\ ~ Replays
    BY DEF Load, Up, Replays
<1>2. /\ metrics' = stored
      /\ UNCHANGED <<now, table, stored, sums, handler, resetting, faults,
                     inserted, leftover, dropped, unsaved>>
    BY DEF Load, tables, ghosts
<1>3. replay' \in {[pc |-> "replaying", next |-> 0], [pc |-> "done"]}
    BY DEF Load
<1>4. /\ replay' \in ReplayStates /\ replay'.pc \in {"replaying", "done"}
      /\ ~ Replays'
    BY <1>3 DEF ReplayStates, Replays
<1>5. TypeOK /\ ScoredIsHeld /\ RemovedIsStored /\ Remembered
    BY DEF Inv
<1>6. ReplayOK'
    BY <1>1, <1>2, <1>4, StartingIs DEF ReplayOK
<1>7. \A p \in table' : metrics'[p] > 0 \/ stored'[p] > 0 \/ sums'[p] > 0 => p \in leftover
    BY <1>1, <1>2, <1>5, StartingIs DEF ScoredIsHeld
<1>8. \A p \in inserted \ table' : metrics'[p] > 0 \/ p \in dropped \/ p.slot < now - Keep
    BY <1>1, <1>2, <1>5 DEF RemovedIsStored
<1>9. \A p \in Predictions \ inserted : metrics'[p] = 0 /\ stored'[p] = 0 /\ sums'[p] = 0
    BY <1>1, <1>2, StartingIs
<1> QED
    BY <1>1, <1>2, <1>4, <1>5, <1>6, <1>7, <1>8, <1>9, StartingIs, ReplayStepKeepsInv DEF TypeOK

\* The invariant, one prediction at a time, while the replay goes on.
LEMMA ReplayingIs ==
    ASSUME Inv, ~ Up, replay.pc # "loading"
    PROVE  /\ \A p \in Predictions : stored[p] <= metrics[p]
           /\ \A p \in inserted \ table : metrics[p] > 0 \/ p \in dropped \/ p.slot < now - Keep
           /\ \A p \in table : metrics[p] > 0 \/ stored[p] > 0 \/ sums[p] > 0
                                 => (Replays /\ p \in replay.matched) \/ p \in leftover
           /\ Replays =>
                /\ replay.todo \subseteq replay.matched /\ replay.matched \subseteq inserted
                /\ \A p \in replay.matched \intersect table : p \in replay.todo
                /\ \A p \in replay.matched : metrics[p] > 0
<1>1. ReplayOK /\ RemovedIsLearned /\ ScoredIsHeld
    BY DEF Inv
<1>2. \A p \in table : metrics[p] > 0 \/ stored[p] > 0 \/ sums[p] > 0
          => (Replays /\ p \in replay.matched) \/ p \in leftover
    BY <1>1, StartingIs DEF ScoredIsHeld
<1> QED
    BY <1>1, <1>2 DEF ReplayOK, RemovedIsLearned, Up, Scoring

LEMMA ReplayScoreKeepsInv == ASSUME Inv, ReplayScore PROVE Inv'
<1>1. ~ Up /\ replay.pc = "replaying" /\ ~ Replays /\ TypeOK /\ replay.next \in Nat
    BY ReplayIs DEF ReplayScore, Up, Replays, Inv
<1>2. UNCHANGED <<now, table, stored, sums, handler, resetting, faults,
                  inserted, leftover, dropped, unsaved>>
    BY DEF ReplayScore, tables, ghosts
<1>3. CASE replay' = [replay EXCEPT !.next = @ + 1] /\ UNCHANGED metrics
    <2>1. replay' \in ReplayStates /\ replay'.pc = "replaying" /\ ~ Replays'
        <3>1. replay \in [pc : {"replaying"}, next : Nat]
            BY <1>1 DEF TypeOK
        <3>2. replay' \in [pc : {"replaying"}, next : Nat]
            BY <1>3, <3>1
        <3> QED
            BY <3>2 DEF ReplayStates, Replays
    <2>2. ReplayOK'
        BY <1>1, <1>2, <1>3, <2>1, ReplayingIs DEF ReplayOK
    <2> QED
        BY <1>1, <1>2, <1>3, <2>1, <2>2, StartingIs, ReplayingIs, ReplayStepKeepsInv DEF TypeOK
<1>4. CASE /\ metrics' = Plus(metrics, AtSlot(replay.next))
           /\ replay' = [pc |-> "summing", next |-> replay.next + 1,
                         matched |-> AtSlot(replay.next), todo |-> AtSlot(replay.next)]
    <2>1. AtSlot(replay.next) \subseteq table /\ table \subseteq inserted /\ inserted \subseteq Predictions
        BY <1>1, StartingIs DEF AtSlot
    <2>2. /\ replay' \in ReplayStates /\ replay'.pc = "summing" /\ Replays'
          /\ replay'.matched = AtSlot(replay.next) /\ replay'.todo = AtSlot(replay.next)
        BY <1>1, <1>4, <2>1 DEF ReplayStates, Replays
    <2>3. /\ metrics' \in Counts
          /\ \A p \in Predictions : /\ metrics[p] \in Nat /\ metrics'[p] \in Nat
                                    /\ metrics'[p] = IF p \in AtSlot(replay.next) THEN metrics[p] + 1
                                                     ELSE metrics[p]
        BY <1>1, <1>4, PlusIs DEF TypeOK
    <2>4. \A p \in Predictions : /\ stored[p] \in Nat /\ stored'[p] <= metrics'[p]
                                 /\ metrics[p] > 0 => metrics'[p] > 0
                                 /\ metrics'[p] = metrics[p] \/ p \in AtSlot(replay.next)
        BY <1>1, <1>2, <2>3, StartingIs, ReplayingIs
    <2>5. \A p \in AtSlot(replay.next) : metrics'[p] > 0
        BY <2>1, <2>3
    <2>6. ReplayOK'
        BY <1>2, <2>1, <2>2, <2>4, <2>5 DEF ReplayOK, Scoring
    <2>7. \A p \in table' : metrics'[p] > 0 \/ stored'[p] > 0 \/ sums'[p] > 0
              => (Replays' /\ p \in replay'.matched) \/ p \in leftover
        BY <1>1, <1>2, <2>1, <2>2, <2>4, ReplayingIs
    <2>8. \A p \in inserted \ table' : metrics'[p] > 0 \/ p \in dropped \/ p.slot < now - Keep
        BY <1>1, <1>2, <2>1, <2>4, ReplayingIs
    <2>9. \A p \in Predictions \ inserted : metrics'[p] = 0 /\ stored'[p] = 0 /\ sums'[p] = 0
        BY <1>1, <1>2, <2>1, <2>4, StartingIs
    <2> QED
        BY <1>1, <1>2, <2>2, <2>3, <2>6, <2>7, <2>8, <2>9, StartingIs, ReplayStepKeepsInv DEF TypeOK
<1> QED
    BY <1>3, <1>4 DEF ReplayScore

LEMMA ReplaySumKeepsInv == ASSUME Inv, ReplaySum PROVE Inv'
<1>1. ~ Up /\ replay.pc = "summing" /\ Replays /\ TypeOK
    BY DEF ReplaySum, Up, Replays, Inv
<1>2. UNCHANGED <<now, table, metrics, stored, handler, resetting,
                  inserted, leftover, dropped, unsaved>> /\ faults' \in 0..MaxFaults
    BY <1>1, FaultsAssumption DEF ReplaySum, ghosts, Fault, TypeOK
<1>3. /\ replay' \in ReplayStates /\ replay'.pc = "removing" /\ Replays'
      /\ replay'.matched = replay.matched /\ replay'.todo = replay.todo
    <2>1. replay' = [replay EXCEPT !.pc = "removing"]
        BY DEF ReplaySum
    <2> QED
        BY <1>1, <2>1, ReplayIs DEF ReplayStates, Replays
<1>4. sums' \in Counts /\ \A p \in Predictions \ replay.matched : sums'[p] = sums[p]
    BY <1>1, PlusIs DEF ReplaySum, TypeOK
<1>5. ReplayOK'
    BY <1>1, <1>2, <1>3, ReplayingIs DEF ReplayOK, Scoring
<1>6. \A p \in Predictions \ inserted : metrics'[p] = 0 /\ stored'[p] = 0 /\ sums'[p] = 0
    BY <1>1, <1>2, <1>4, StartingIs, ReplayingIs
<1>7. \A p \in table' : metrics'[p] > 0 \/ stored'[p] > 0 \/ sums'[p] > 0
          => (Replays' /\ p \in replay'.matched) \/ p \in leftover
    BY <1>1, <1>2, <1>3, <1>4, StartingIs, ReplayingIs
<1> QED
    BY <1>1, <1>2, <1>3, <1>4, <1>5, <1>6, <1>7, StartingIs, ReplayingIs, ReplayStepKeepsInv DEF TypeOK

LEMMA ReplayRemoveKeepsInv == ASSUME Inv, ReplayRemove PROVE Inv'
<1>1. ~ Up /\ replay.pc = "removing" /\ Replays /\ TypeOK
    BY DEF ReplayRemove, Up, Replays, Inv
<1>2. PICK p \in replay.todo :
         /\ table' = table \ {p}
         /\ replay' = IF replay.todo = {p} THEN [pc |-> "replaying", next |-> replay.next]
                      ELSE [replay EXCEPT !.todo = @ \ {p}]
    BY DEF ReplayRemove
<1>3. UNCHANGED <<now, metrics, stored, sums, handler, resetting, faults,
                  inserted, leftover, dropped, unsaved>>
    BY DEF ReplayRemove, ghosts
<1>4. p \in inserted /\ metrics[p] > 0
    BY <1>1, <1>2, ReplayingIs
<1>5. /\ replay' \in ReplayStates /\ replay'.pc \in {"replaying", "removing"}
      /\ Replays' => /\ replay'.matched = replay.matched /\ replay'.todo = replay.todo \ {p}
      /\ ~ Replays' => replay.todo = {p}
    BY <1>1, <1>2, ReplayIs DEF ReplayStates, Replays
<1>6. ReplayOK'
    BY <1>1, <1>2, <1>3, <1>5, ReplayingIs DEF ReplayOK, Scoring
<1>7. \A q \in table' : metrics'[q] > 0 \/ stored'[q] > 0 \/ sums'[q] > 0
          => (Replays' /\ q \in replay'.matched) \/ q \in leftover
    BY <1>1, <1>2, <1>3, <1>5, ReplayingIs
<1>8. \A q \in inserted \ table' : metrics'[q] > 0 \/ q \in dropped \/ q.slot < now - Keep
    BY <1>1, <1>2, <1>3, <1>4, ReplayingIs
<1> QED
    BY <1>1, <1>2, <1>3, <1>5, <1>6, <1>7, <1>8, StartingIs, ReplayStepKeepsInv DEF TypeOK

LEMMA ReplayDoneKeepsInv == ASSUME Inv, ReplayDone PROVE Inv'
<1>1. ~ Up /\ replay.pc = "replaying" /\ ~ Replays /\ TypeOK
    BY DEF ReplayDone, Up, Replays, Inv
<1>2. UNCHANGED <<now, table, metrics, stored, sums, handler, resetting, faults,
                  inserted, leftover, dropped, unsaved>>
    BY DEF ReplayDone, tables, ghosts
<1>3. /\ replay' \in ReplayStates /\ replay'.pc \in {"done", "saving"} /\ ~ Replays'
      /\ replay'.pc = "done" => metrics = stored
    BY DEF ReplayDone, ReplayStates, Replays
<1>4. ReplayOK'
    BY <1>1, <1>2, <1>3, ReplayingIs DEF ReplayOK
<1> QED
    BY <1>1, <1>2, <1>3, <1>4, StartingIs, ReplayingIs, ReplayStepKeepsInv DEF TypeOK

\* Nothing that is stored is above what was learnt, so a save stores it all.
LEMMA ReplaySaveKeepsInv == ASSUME Inv, ReplaySave PROVE Inv'
<1>1. ~ Up /\ replay.pc = "saving" /\ ~ Replays /\ TypeOK
    BY DEF ReplaySave, Up, Replays, Inv
<1>2. /\ UNCHANGED <<now, table, metrics, sums, handler, resetting, inserted, leftover, dropped>>
      /\ faults' \in 0..MaxFaults
    BY <1>1, FaultsAssumption DEF ReplaySave, Fault, TypeOK
<1>3. replay' \in ReplayStates /\ replay'.pc = "done" /\ ~ Replays'
    BY DEF ReplaySave, ReplayStates, Replays
<1>4. ReplayOK'
    BY <1>3 DEF ReplayOK
<1>5. CASE Save
    <2>1. /\ stored' \in Counts /\ unsaved' = {}
          /\ \A p \in Predictions : stored'[p] \in {metrics[p], stored[p]}
          /\ \A p \in Predictions : metrics[p] > 0 => stored'[p] = metrics[p]
        BY <1>1, <1>5, SaveIs, StartingIs
    <2>2. \A p \in Predictions : stored'[p] = metrics[p]
        BY <1>1, <2>1, StartingIs, ReplayingIs
    <2>3. \A p \in Predictions \ inserted : metrics'[p] = 0 /\ stored'[p] = 0 /\ sums'[p] = 0
        BY <1>1, <1>2, <2>2, StartingIs
    <2>4. \A p \in table' : metrics'[p] > 0 \/ stored'[p] > 0 \/ sums'[p] > 0 => p \in leftover
        BY <1>1, <1>2, <2>2, StartingIs, ReplayingIs
    <2> QED
        BY <1>1, <1>2, <1>3, <1>4, <2>1, <2>2, <2>3, <2>4, StartingIs, ReplayingIs,
           ReplayStepKeepsInv DEF TypeOK
<1>6. CASE unsaved' = inserted /\ UNCHANGED stored
    <2>1. \A p \in Predictions \ unsaved' : stored'[p] = metrics'[p]
        BY <1>1, <1>2, <1>6, StartingIs
    <2> QED
        BY <1>1, <1>2, <1>3, <1>4, <1>6, <2>1, StartingIs, ReplayingIs, ReplayStepKeepsInv DEF TypeOK
<1> QED
    BY <1>5, <1>6 DEF ReplaySave

\* A crash leaves what is scored and stored, and forgets what is scored and not.
LEMMA CrashKeepsInv == ASSUME Inv, Crash PROVE Inv'
<1>1. TypeOK /\ Remembered
    BY DEF Inv
<1>2. /\ handler' = [h \in Handlers |-> Idle] /\ replay' = [pc |-> "loading"] /\ metrics' = None
      /\ resetting' = FALSE /\ unsaved' = {} /\ UNCHANGED <<now, table, stored, sums, inserted>>
      /\ leftover' = leftover \union {p \in table : stored[p] > 0 \/ sums[p] > 0}
      /\ dropped' = dropped \union {p \in inserted \ table : stored[p] = 0}
      /\ faults' \in 0..MaxFaults
    BY <1>1, FaultsAssumption DEF Crash, tables, Fault, TypeOK
<1>3. TypeOK'
    BY <1>1, <1>2, NoneIs DEF TypeOK
<1>4. Remembered'
    BY <1>1, <1>2, NoneIs DEF Remembered
<1>5. Starting' /\ HandlersOK' /\ ReplayOK'
    BY <1>2 DEF Starting, HandlersOK, HandlerOK, ReplayOK, Busy, Replays, Idle
<1>6. ScoredIsHeld'
    BY <1>1, <1>2, NoneIs DEF ScoredIsHeld, TypeOK
<1>7. RemovedIsStored'
    <2>1. \A p \in inserted : stored[p] \in Nat
        BY <1>1 DEF TypeOK, Counts
    <2> QED
        BY <1>2, <2>1 DEF RemovedIsStored
<1>8. RemovedIsLearned' /\ QuietIsSaved'
    BY <1>2 DEF RemovedIsLearned, QuietIsSaved
<1> QED
    BY <1>3, <1>4, <1>5, <1>6, <1>7, <1>8 DEF Inv
-----------------------------------------------------------------------------
(* The inductive invariant and the theorems *)

LEMMA InitInv == Init => Inv
<1> SUFFICES ASSUME Init PROVE Inv
    OBVIOUS
<1>1. /\ now = 0 /\ table = {} /\ inserted = {} /\ leftover = {} /\ dropped = {} /\ unsaved = {}
      /\ metrics = None /\ stored = None /\ sums = None /\ resetting = FALSE /\ faults = 0
      /\ handler = [h \in Handlers |-> Idle] /\ replay = [pc |-> "loading"]
    BY DEF Init
<1>2. TypeOK
    <2>1. now \in Slots /\ faults \in 0..MaxFaults
        BY <1>1, SlotsAssumption, FaultsAssumption DEF Slots
    <2>2. /\ handler \in [Handlers -> {Idle} \union BusyStates] /\ replay \in ReplayStates
          /\ metrics \in Counts /\ stored \in Counts /\ sums \in Counts
        BY <1>1, NoneIs DEF ReplayStates
    <2> QED
        BY <1>1, <2>1, <2>2 DEF TypeOK, BusyStates, ReplayStates
<1>3. Remembered /\ Starting /\ HandlersOK /\ ReplayOK
    BY <1>1, NoneIs DEF Remembered, Starting, HandlersOK, HandlerOK, ReplayOK, Busy, Replays, Idle
<1>4. ScoredIsHeld /\ RemovedIsStored /\ RemovedIsLearned /\ QuietIsSaved
    BY <1>1 DEF ScoredIsHeld, RemovedIsStored, RemovedIsLearned, QuietIsSaved
<1> QED
    BY <1>2, <1>3, <1>4 DEF Inv

LEMMA NextInv == Inv /\ [Next]_vars => Inv'
<1> SUFFICES ASSUME Inv, [Next]_vars PROVE Inv'
    OBVIOUS
<1>1. CASE UNCHANGED vars
    <2>1. UNCHANGED <<now, table, metrics, stored, sums, handler, replay, resetting, faults,
                      inserted, leftover, dropped, unsaved>>
        BY <1>1 DEF vars
    <2>2. TypeOK' /\ Remembered' /\ Starting' /\ HandlersOK' /\ ReplayOK'
        BY <2>1 DEF Inv, TypeOK, Remembered, Starting, HandlersOK, HandlerOK, ReplayOK, Scoring,
                    Learnt, Up, Busy, Replays
    <2>3. ScoredIsHeld' /\ RemovedIsStored' /\ RemovedIsLearned' /\ QuietIsSaved'
        BY <2>1 DEF Inv, ScoredIsHeld, RemovedIsStored, RemovedIsLearned, QuietIsSaved, Held
    <2> QED
        BY <2>2, <2>3 DEF Inv
<1>2. CASE Next
    BY <1>2, StorePredictionKeepsInv, DeleteOldKeepsInv, ForecastSaveKeepsInv, NextQuarterKeepsInv,
       LearnFindKeepsInv, LearnScoreKeepsInv, LearnRemoveKeepsInv, LearnSumKeepsInv,
       LearnSaveKeepsInv, LearnFailKeepsInv, LoadKeepsInv, ReplayScoreKeepsInv, ReplaySumKeepsInv,
       ReplayRemoveKeepsInv, ReplayDoneKeepsInv, ReplaySaveKeepsInv, CrashKeepsInv,
       ResetMemoryKeepsInv, ResetStorageKeepsInv DEF Next
<1> QED
    BY <1>1, <1>2

\* The predictions, the counts and the steps that the handlers and the replay
\* are at are always of their kinds.
THEOREM TypeCorrect == Spec => []TypeOK
<1>1. Inv => TypeOK
    BY DEF Inv
<1> QED
    BY InitInv, NextInv, <1>1, PTL DEF Spec

\* However many handlers overlap in the loop and wherever it fails or the
\* process stops, a prediction in the table that counts anywhere is being
\* scored, unless a failure left it there (learn_from_actual_price,
\* catch_up_learning).
THEOREM NoneIsScoredTwice == Spec => []ScoredIsRemoved
<1>1. Inv => ScoredIsRemoved
    BY DEF Inv, ScoredIsHeld, ScoredIsRemoved
<1> QED
    BY InitInv, NextInv, <1>1, PTL DEF Spec

\* A prediction that left the table is in the metrics, unless it was too old or
\* a crash or reset dropped it (_learn_from_price, reset_learning).
THEOREM NoneIsLost == Spec => []RemovedIsLearned
<1>1. Inv => RemovedIsLearned
    BY DEF Inv
<1> QED
    BY InitInv, NextInv, <1>1, PTL DEF Spec

\* Outside of the loop the metrics in memory are those of the table, except for
\* what a failure or a reset left unsaved (the saves of the handler, the replay
\* and the forecast run).
THEOREM WhatIsQuietIsSaved == Spec => []QuietIsSaved
<1>1. Inv => QuietIsSaved
    BY DEF Inv
<1> QED
    BY InitInv, NextInv, <1>1, PTL DEF Spec
=============================================================================
