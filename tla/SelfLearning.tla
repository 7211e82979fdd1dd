---------------------------- MODULE SelfLearning ----------------------------
(***************************************************************************)
(* The self-learning loop: predictions are inserted one by one into the    *)
(* predictions table, scored against the actual price when their slot      *)
(* arrives (learn_from_actual_price), and deleted.  Their errors go to the *)
(* metrics in memory, which bulk saves persist, and to the lead-time sums, *)
(* a table of its own.  After a start, a replay (catch_up_learning) may    *)
(* score what is left in the predictions table.                            *)
(*                                                                         *)
(* Every storage call commits by itself, so the process may stop, or a     *)
(* call fail, between any two of them.  Two quarter-hour handlers may be   *)
(* in the loop at once: each awaits a price read first, and takes the time *)
(* it learns for afterwards.                                               *)
(*                                                                         *)
(* A prediction is its slot and the forecast run that made it; metrics and *)
(* sums are counted per prediction: how often its error is in them.        *)
(***************************************************************************)
EXTENDS Integers, FiniteSets

CONSTANTS
    LastSlot,       \* bound: the slots of the run are 0..LastSlot
    Runs,           \* forecast runs
    Handlers,       \* quarter-hour handlers that may be under way together
    Keep,           \* slots a prediction is kept for before it is pruned
    PendingOver,    \* the replay starts with more predictions than this ...
    LearnedUnder,   \* ... and fewer learned than this
    MaxFaults       \* bound: failed storage calls, crashes and resets

ASSUME SlotsAssumption == LastSlot \in Nat /\ Keep \in Nat
ASSUME ReplayAssumption == PendingOver \in Nat /\ LearnedUnder \in Nat
ASSUME FaultsAssumption == MaxFaults \in Nat

Slots == 0..LastSlot
Predictions == [slot : Slots, run : Runs]
Counts == [Predictions -> Nat]
None == [p \in Predictions |-> 0]
Plus(c, S) == [p \in Predictions |-> IF p \in S THEN c[p] + 1 ELSE c[p]]

VARIABLES
    now,          \* the current slot
    table,        \* the predictions table
    metrics,      \* error_metrics, in memory
    stored,       \* the error_metrics table
    sums,         \* the lead_time_accuracy table
    handler,      \* quarter-hour handlers in the learning loop
    replay,       \* the startup: loading, replaying, or done
    resetting,    \* whether a reset awaits the clearing of the database
    faults,
    \* What the properties remember of the past, read by no action:
    inserted,     \* predictions ever stored
    leftover,     \* scored predictions a failure left in the table
    dropped,      \* predictions whose scores a crash or a reset dropped
    unsaved       \* predictions whose scores no save follows by itself

vars == <<now, table, metrics, stored, sums, handler, replay,
          resetting, faults, inserted, leftover, dropped, unsaved>>
tables == <<table, stored, sums>>
ghosts == <<inserted, leftover, dropped, unsaved>>

Idle == [pc |-> "idle"]
Up == replay.pc = "done"
AtSlot(s) == {p \in table : p.slot = s}
-----------------------------------------------------------------------------
TypeOK ==
    /\ now \in Slots
    /\ table \subseteq Predictions
    /\ metrics \in Counts /\ stored \in Counts /\ sums \in Counts
    /\ handler \in [Handlers -> {Idle} \union
           [pc : {"found", "removing", "summing", "saving"},
            matched : SUBSET Predictions, todo : SUBSET Predictions]]
    /\ replay \in {[pc |-> "loading"], [pc |-> "done"], [pc |-> "saving"]} \union
           [pc : {"replaying"}, next : Nat] \union
           [pc : {"summing", "removing"}, next : Nat,
            matched : SUBSET Predictions, todo : SUBSET Predictions]
    /\ resetting \in BOOLEAN
    /\ faults \in 0..MaxFaults
    /\ inserted \subseteq Predictions /\ leftover \subseteq Predictions
    /\ dropped \subseteq Predictions /\ unsaved \subseteq Predictions

Init ==
    /\ now = 0
    /\ table = {}
    /\ metrics = None /\ stored = None /\ sums = None
    /\ handler = [h \in Handlers |-> Idle]
    /\ replay = [pc |-> "loading"]
    /\ resetting = FALSE
    /\ faults = 0
    /\ inserted = {} /\ leftover = {} /\ dropped = {} /\ unsaved = {}

Fault == faults < MaxFaults /\ faults' = faults + 1

\* A bulk save writes the metrics of the slots that have any; a slot that has
\* none in memory keeps its row.
Saved ==
    [p \in Predictions |->
        IF \E q \in Predictions : q.slot = p.slot /\ metrics[q] > 0
        THEN metrics[p] ELSE stored[p]]

Save ==
    /\ stored' = Saved
    /\ unsaved' = {p \in unsaved : Saved[p] # metrics[p]}
-----------------------------------------------------------------------------
(* Forecast runs and time *)

\* A forecast run stores one prediction of a slot that is not over.
StorePrediction(p) ==
    /\ Up
    /\ p \notin inserted
    /\ p.slot >= now
    /\ table' = table \union {p}
    /\ inserted' = inserted \union {p}
    /\ UNCHANGED <<now, metrics, stored, sums, handler, replay,
                   resetting, faults, leftover, dropped, unsaved>>

\* Every hundredth insert deletes the predictions stored too long ago.
DeleteOld ==
    /\ Up
    /\ table' = {p \in table : p.slot >= now - Keep}
    /\ UNCHANGED <<now, metrics, stored, sums, handler, replay,
                   resetting, faults, ghosts>>

\* The save at the end of a forecast run.
ForecastSave ==
    /\ Up
    /\ Save
    /\ UNCHANGED <<now, table, metrics, sums, handler, replay,
                   resetting, faults, inserted, leftover, dropped>>

NextQuarter ==
    /\ now < LastSlot
    /\ now' = now + 1
    /\ UNCHANGED <<tables, metrics, handler, replay, resetting, faults, ghosts>>
-----------------------------------------------------------------------------
(* The learning loop, one storage call at a time *)

\* The predictions of the current slot are looked up; without any there is
\* nothing to learn.
LearnFind(h) ==
    /\ Up
    /\ handler[h] = Idle
    /\ AtSlot(now) # {}
    /\ handler' = [handler EXCEPT ![h] =
           [pc |-> "found", matched |-> AtSlot(now), todo |-> AtSlot(now)]]
    /\ UNCHANGED <<now, tables, metrics, replay, resetting, faults, ghosts>>

\* Mutant: the newest prediction alone is scored; all are removed.
LearnScoreNewest(h) ==
    /\ handler[h].pc = "found"
    /\ \E p \in handler[h].matched : metrics' = Plus(metrics, {p})
    /\ handler' = [handler EXCEPT ![h].pc = "removing"]
    /\ UNCHANGED <<now, tables, replay, resetting, faults, ghosts>>

LearnScore(h) ==
    /\ handler[h].pc = "found"
    /\ metrics' = Plus(metrics, handler[h].matched)
    /\ handler' = [handler EXCEPT ![h].pc = "removing"]
    /\ UNCHANGED <<now, tables, replay, resetting, faults, ghosts>>

\* Mutant: only the first of the matched predictions is removed.
LearnRemoveFirst(h) ==
    /\ handler[h].pc = "removing"
    /\ \E p \in handler[h].todo : table' = table \ {p}
    /\ handler' = [handler EXCEPT ![h].pc = "summing"]
    /\ UNCHANGED <<now, metrics, stored, sums, replay, resetting,
                   faults, ghosts>>

LearnRemove(h) ==
    /\ handler[h].pc = "removing"
    /\ \E p \in handler[h].todo :
          /\ table' = table \ {p}
          /\ handler' = [handler EXCEPT ![h].todo = @ \ {p},
                 ![h].pc = IF handler[h].todo = {p} THEN "summing" ELSE "removing"]
    /\ UNCHANGED <<now, metrics, stored, sums, replay, resetting,
                   faults, ghosts>>

\* Mutant: the loop ends as if it had matched nothing, and is not saved.
LearnSumReturnsFalse(h) ==
    /\ handler[h].pc = "summing"
    /\ sums' = Plus(sums, handler[h].matched)
    /\ handler' = [handler EXCEPT ![h] = Idle]
    /\ UNCHANGED <<now, table, metrics, stored, replay, resetting, faults,
                   ghosts>>

\* The lead-time sums; a storage error is logged and the loop goes on.
LearnSum(h) ==
    /\ handler[h].pc = "summing"
    /\ \/ sums' = Plus(sums, handler[h].matched) /\ UNCHANGED faults
       \/ Fault /\ UNCHANGED sums
    /\ handler' = [handler EXCEPT ![h].pc = "saving"]
    /\ UNCHANGED <<now, table, metrics, stored, replay, resetting,
                   ghosts>>

\* The loop returned True: the handler saves, successfully or not.
LearnSave(h) ==
    /\ handler[h].pc = "saving"
    /\ \/ Save /\ UNCHANGED faults
       \/ /\ Fault
          /\ unsaved' = unsaved \union handler[h].matched
          /\ UNCHANGED stored
    /\ handler' = [handler EXCEPT ![h] = Idle]
    /\ UNCHANGED <<now, table, metrics, sums, replay, resetting,
                   inserted, leftover, dropped>>

\* Mutant: a failed loop never ends.
LearnFailHangs(h) ==
    /\ handler[h].pc = "removing"
    /\ Fault
    /\ leftover' = leftover \union handler[h].todo
    /\ unsaved' = unsaved \union handler[h].matched
    /\ handler' = [handler EXCEPT ![h].pc = "failed"]
    /\ UNCHANGED <<now, tables, metrics, replay, resetting, inserted, dropped>>

\* The weather lookup or a deletion raises: the loop returns False, so
\* nothing is saved, and the rest stays in the table.
LearnFail(h) ==
    /\ handler[h].pc = "removing"
    /\ Fault
    /\ leftover' = leftover \union handler[h].todo
    /\ unsaved' = unsaved \union handler[h].matched
    /\ handler' = [handler EXCEPT ![h] = Idle]
    /\ UNCHANGED <<now, tables, metrics, replay, resetting, inserted, dropped>>
-----------------------------------------------------------------------------
(* Startup: load, and replay if far more is pending than learned *)

Learned(c, S) == Cardinality({p \in S : c[p] > 0})

Load ==
    /\ replay.pc = "loading"
    /\ metrics' = stored
    /\ replay' = IF /\ Cardinality(table) > PendingOver
                    /\ Learned(stored, Predictions) < LearnedUnder
                 THEN [pc |-> "replaying", next |-> 0]
                 ELSE [pc |-> "done"]
    /\ UNCHANGED <<now, tables, handler, resetting, faults, ghosts>>

\* The next slot: without a known price it is skipped.
ReplayScore ==
    /\ replay.pc = "replaying"
    /\ replay.next \in Slots
    /\ \/ replay' = [replay EXCEPT !.next = @ + 1] /\ UNCHANGED metrics
       \/ /\ AtSlot(replay.next) # {}
          /\ metrics' = Plus(metrics, AtSlot(replay.next))
          /\ replay' = [pc |-> "summing", next |-> replay.next + 1,
                        matched |-> AtSlot(replay.next),
                        todo |-> AtSlot(replay.next)]
    /\ UNCHANGED <<now, tables, handler, resetting, faults, ghosts>>

\* Here the errors are added up before the predictions are removed.
ReplaySum ==
    /\ replay.pc = "summing"
    /\ \/ sums' = Plus(sums, replay.matched) /\ UNCHANGED faults
       \/ Fault /\ UNCHANGED sums
    /\ replay' = [replay EXCEPT !.pc = "removing"]
    /\ UNCHANGED <<now, table, metrics, stored, handler, resetting,
                   ghosts>>

ReplayRemove ==
    /\ replay.pc = "removing"
    /\ \E p \in replay.todo :
          /\ table' = table \ {p}
          /\ replay' = IF replay.todo = {p}
                       THEN [pc |-> "replaying", next |-> replay.next]
                       ELSE [replay EXCEPT !.todo = @ \ {p}]
    /\ UNCHANGED <<now, metrics, stored, sums, handler, resetting,
                   faults, ghosts>>

\* A replay that learned nothing saves nothing.
ReplayDone ==
    /\ replay.pc = "replaying"
    /\ replay.next \notin Slots
    /\ replay' = [pc |-> IF metrics = stored THEN "done" ELSE "saving"]
    /\ UNCHANGED <<now, tables, metrics, handler, resetting, faults, ghosts>>

ReplaySave ==
    /\ replay.pc = "saving"
    /\ \/ Save /\ UNCHANGED faults
       \/ Fault /\ unsaved' = inserted /\ UNCHANGED stored
    /\ replay' = [pc |-> "done"]
    /\ UNCHANGED <<now, table, metrics, sums, handler, resetting,
                   inserted, leftover, dropped>>
-----------------------------------------------------------------------------
(* Crash and reset *)

\* The process stops, between any two commits, and starts again.
Crash ==
    /\ Fault
    /\ handler' = [h \in Handlers |-> Idle]
    /\ replay' = [pc |-> "loading"]
    /\ metrics' = None
    /\ resetting' = FALSE
    /\ leftover' = leftover \union {p \in table : stored[p] > 0 \/ sums[p] > 0}
    /\ dropped' = dropped \union {p \in inserted \ table : stored[p] = 0}
    /\ unsaved' = {}
    /\ UNCHANGED <<now, tables, inserted>>

\* reset_learning empties the metrics in memory, then awaits the storage.
ResetMemory ==
    /\ Up
    /\ ~resetting
    /\ Fault
    /\ metrics' = None
    /\ resetting' = TRUE
    /\ dropped' = inserted
    /\ unsaved' = inserted
    /\ UNCHANGED <<now, tables, handler, replay, inserted, leftover>>

ResetStorage ==
    /\ resetting
    /\ resetting' = FALSE
    /\ \/ /\ table' = {}
          /\ stored' = None /\ sums' = None
          /\ dropped' = inserted
          /\ unsaved' = inserted
          /\ UNCHANGED faults
       \/ Fault /\ UNCHANGED <<tables, dropped, unsaved>>
    /\ UNCHANGED <<now, metrics, handler, replay, inserted, leftover>>

Next ==
    \/ \E p \in Predictions : StorePrediction(p)
    \/ DeleteOld \/ ForecastSave \/ NextQuarter
    \/ \E h \in Handlers : \/ LearnFind(h) \/ LearnScore(h) \/ LearnRemove(h)
                           \/ LearnSum(h) \/ LearnSave(h) \/ LearnFail(h)
    \/ Load \/ ReplayScore \/ ReplaySum \/ ReplayRemove \/ ReplayDone
    \/ ReplaySave
    \/ Crash \/ ResetMemory \/ ResetStorage

Spec == Init /\ [][Next]_vars
-----------------------------------------------------------------------------
(* Properties *)

\* The predictions somebody is scoring.
Held == UNION ({handler[h].matched : h \in {g \in Handlers : handler[g] # Idle}}
               \union IF replay.pc \in {"summing", "removing"}
                      THEN {replay.matched} ELSE {})

\* Once a slot is scored its predictions are deleted: one that is in the
\* table and counted anywhere is being scored right now, unless a failed
\* loop or a crash left it there.  What is scored again was left over so, or
\* two handlers hold it.
ScoredIsRemoved ==
    \A p \in table : metrics[p] > 0 \/ sums[p] > 0 => p \in Held \union leftover

\* No prediction leaves the table unlearned: it is in the metrics in memory,
\* or still in the table, or was too old, or a crash or reset dropped it.
RemovedIsLearned ==
    replay.pc # "loading" =>
        \A p \in inserted \ table :
            metrics[p] > 0 \/ p \in dropped \/ p.slot < now - Keep

\* When no loop is under way the database holds the metrics, except for what
\* a failed loop, a failed save or a reset left unsaved.
QuietIsSaved ==
    replay.pc = "done" =>
        \A p \in Predictions \ (Held \union unsaved) : stored[p] = metrics[p]
=============================================================================
