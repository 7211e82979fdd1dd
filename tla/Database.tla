------------------------------- MODULE Database -------------------------------
(***************************************************************************)
(* The learning database as SQLite file: opening it (ml/storage.py), the   *)
(* migrations that bring an older release's tables to the current form     *)
(* (spot_migration.py, weather_migration.py, bias_storage.py, the one of   *)
(* price_storage.py and that of evaluation_storage.py), and clear_all.     *)
(* The process may stop between any two statements.                        *)
(*                                                                         *)
(* What is committed when is the point.  executescript commits what was    *)
(* pending and then each of its statements on its own.  An INSERT, UPDATE  *)
(* or DELETE begins a transaction that commit() ends; a CREATE, ALTER or   *)
(* DROP is part of the open transaction if there is one, and otherwise     *)
(* committed at once.                                                      *)
(*                                                                         *)
(* Of a table the model keeps the columns a migration looks for and what   *)
(* kind of rows it holds.  Tables no migration and no property names are   *)
(* left out; lead_time_accuracy stands for volatility, bias_accuracy and   *)
(* the external tables.                                                    *)
(***************************************************************************)
EXTENDS Integers, Sequences

CONSTANTS
    Releases,   \* the schema versions a database may come from; 0 is none
    MaxStops    \* bound: how often the process stops or a reset fails

ASSUME ReleasesAssumption == Releases \subseteq 0..10
ASSUME StopsAssumption == MaxStops \in Nat

VARIABLES
    disk,       \* the committed tables, and the schema version in meta
    work,       \* the tables as the connection sees them
    txn,        \* whether a transaction is open
    mode,       \* what the process is doing
    todo,       \* what is left of opening or clearing, in order
    file,       \* whether the JSON file of the first releases is there
    stops

vars == <<disk, work, txn, mode, todo, file, stops>>

Forecast == {"temp", "wind", "cloud"}
Columns == {"id", "offset", "bucket", "target_hours"} \union Forecast
Rows == {"absent", "none", "consumer", "spot", "hourly", "factors", "lagging",
         "raw", "local", "utc", "single", "leads", "file", "trained"}
Current == {"predictions", "error_metrics", "bias_correction", "price_history",
            "spot_prices", "weather_history", "lead_time_accuracy", "evaluation", "meta"}
Tables == Current \union {"predictions_old", "bias_correction_pooled", "evaluation_single"}

Table(cols, rows) == [cols |-> cols, rows |-> rows]
Absent == Table({}, "absent")
Has(db, t) == db.tab[t] # Absent
With(db, t, table) == [db EXCEPT !.tab[t] = table]
Hold(db, S, rows) == [db EXCEPT !.tab = [t \in Tables |->
                        IF t \in S THEN [@[t] EXCEPT !.rows = rows] ELSE @[t]]]

\* The table CREATE TABLE makes of a name today.
Full(t) == IF t = "predictions" THEN {"id", "offset"} \union Forecast
           ELSE IF t = "bias_correction" THEN {"bucket"}
           ELSE IF t = "evaluation" THEN {"target_hours"} ELSE {}
Create(db, t) == IF Has(db, t) THEN db ELSE With(db, t, Table(Full(t), "none"))
Rename(db, a, b) == With(With(db, b, db.tab[a]), a, Absent)

\* The database as release v left it; eval tells how the evaluation is kept.
From(v, eval) ==
    LET old(t) ==
          CASE t = "predictions" ->
                 Table((IF v >= 2 THEN {"id"} ELSE {}) \union (IF v >= 4 THEN Forecast ELSE {})
                         \union (IF v >= 10 THEN {"offset"} ELSE {}),
                       IF v >= 6 THEN "spot" ELSE "consumer")
            [] t = "error_metrics" ->
                 Table({}, IF v < 3 THEN "hourly" ELSE IF v < 6 THEN "consumer" ELSE "spot")
            [] t = "bias_correction" ->
                 Table(IF v >= 9 THEN {"bucket"} ELSE {},
                       IF v < 5 THEN "factors" ELSE IF v = 5 THEN "consumer"
                       ELSE IF v < 10 THEN "lagging" ELSE "raw")
            [] t = "price_history" ->
                 Table({}, IF v < 6 THEN "consumer" ELSE IF v < 8 THEN "spot" ELSE "none")
            [] t = "spot_prices" -> IF v < 8 THEN Absent ELSE Table({}, "spot")
            [] t = "weather_history" -> Table({}, IF v < 7 THEN "local" ELSE "utc")
            [] t = "lead_time_accuracy" -> Table({}, IF v < 6 THEN "consumer" ELSE "spot")
            [] t = "evaluation" -> eval
            [] t = "meta" -> Table({}, "trained")
            [] OTHER -> Absent
    IN  [tab |-> [t \in Tables |-> IF v = 0 THEN Absent ELSE old(t)],
         version |-> IF v < 3 THEN 0 ELSE v]

\* The evaluation came after version 6, its lead times before version 9.
Evaluations(v) == (IF v < 9 THEN {Absent} ELSE {})
                  \union (IF v \in 6..8 THEN {Table({}, "single")} ELSE {})
                  \union (IF v >= 8 THEN {Table({"target_hours"}, "leads")} ELSE {})

Databases == UNION {{From(v, e) : e \in Evaluations(v)} : v \in Releases}

\* The statements of an opening and of a reset, and the names of the migrations.
Statements ==
    {"drop_predictions", "drop_error_metrics", "drop_bias_correction", "drop_price_history",
     "drop_spot_prices", "drop_lead_time_accuracy", "drop_evaluation", "drop_meta",
     "tables", "bias", "v2", "v2_commit", "v2_rename", "v2_create", "v2_copy", "v2_drop",
     "v3", "v4", "v4_commit", "temp", "wind", "cloud", "v4_version", "v5", "accuracy",
     "evaluation", "eval_rename", "eval_recreate", "eval_copy", "eval_drop", "eval_create",
     "v6", "v7", "v8", "v9", "v9_rename", "v9_create", "v9_copy", "v9_drop", "v9_version",
     "v10", "v10_reset", "commit"}

TypeOK ==
    /\ \A db \in {disk, work} :
          /\ db.tab \in [Tables -> [cols : SUBSET Columns, rows : Rows]]
          /\ db.version \in 0..10
    /\ txn \in (IF mode \in {"opening", "clearing"} THEN BOOLEAN ELSE {FALSE})
    /\ ~ txn => work = disk
    /\ mode \in {"down", "opening", "imports", "renames", "open", "clearing", "failed"}
    /\ todo \in Seq(Statements)
    /\ file \in BOOLEAN
    /\ stops \in 0..MaxStops

Init ==
    /\ disk \in Databases
    /\ work = disk
    /\ txn = FALSE
    /\ mode = "down"
    /\ todo = << >>
    /\ file \in (IF \E t \in Tables : Has(disk, t) THEN {FALSE} ELSE BOOLEAN)
    /\ stops = 0
-----------------------------------------------------------------------------
(* Statements *)

Scripted(db) == work' = db /\ disk' = db /\ txn' = FALSE
Defined(db) == work' = db /\ disk' = (IF txn THEN disk ELSE db) /\ UNCHANGED txn
Written(db) == work' = db /\ txn' = TRUE /\ UNCHANGED disk

\* The next thing to do is what, and then come the ones in more.
Do(what, more) ==
    /\ mode \in {"opening", "clearing"}
    /\ todo # << >> /\ Head(todo) = what
    /\ todo' = more \o Tail(todo)
    /\ UNCHANGED <<mode, file, stops>>
Goes(what) == Do(what, << >>)
Nothing == UNCHANGED <<disk, work, txn>>

\* A migration that looks at the version runs once.
Once(what, version, db) ==
    /\ Goes(what)
    /\ IF work.version < version THEN Written([db EXCEPT !.version = version])
       ELSE Nothing
-----------------------------------------------------------------------------
(* Opening: _create_schema *)

Scripts == <<"predictions", "error_metrics", "price_history", "meta",
             "weather_history", "spot_prices">>
Schema == <<"tables", "bias", "v2", "v3", "v4", "v5", "accuracy", "evaluation",
            "v6", "v7", "v8", "v9", "v10", "commit">>

Open ==
    /\ mode = "down"
    /\ mode' = "opening"
    /\ todo' = Schema
    /\ work' = disk
    /\ txn' = FALSE
    /\ UNCHANGED <<disk, file, stops>>

\* CREATE TABLE IF NOT EXISTS of each, in one script.
CreateTables ==
    LET missing == {i \in DOMAIN Scripts : ~ Has(work, Scripts[i])}
    IN  IF missing = {} THEN Goes("tables") /\ Scripted(work)
        ELSE \E i \in missing :
                 /\ \A j \in missing : i <= j
                 /\ Do("tables", <<"tables">>) /\ Scripted(Create(work, Scripts[i]))
CreateBias ==
    /\ Goes("bias") \/ Goes("v9_create")
    /\ Defined(Create(work, "bias_correction"))

\* Version 2, a script: the predictions get an id.
MigratePredictions ==
    IF "id" \in work.tab["predictions"].cols THEN Goes("v2") /\ Nothing
    ELSE Do("v2", <<"v2_commit", "v2_rename", "v2_create", "v2_copy", "v2_drop">>) /\ Nothing
RenamePredictions ==
    /\ ~ Has(work, "predictions_old")
    /\ Goes("v2_rename") /\ Scripted(Rename(work, "predictions", "predictions_old"))
RecreatePredictions ==
    Goes("v2_create") /\ Scripted(With(work, "predictions", Table({"id"}, "none")))
CopyPredictions ==
    /\ Goes("v2_copy")
    /\ Scripted(Hold(work, {"predictions"}, work.tab["predictions_old"].rows))
DropPredictions == Goes("v2_drop") /\ Scripted(With(work, "predictions_old", Absent))

\* Version 3: errors and bias factors per hour are cleared.
ClearHourly ==
    Once("v3", 3, IF work.tab["error_metrics"].rows = "hourly"
                  THEN Hold(work, {"error_metrics", "bias_correction"}, "none") ELSE work)

\* Mutant: every column is looked for, and all are added if one is missing.
AddForecastAll ==
    IF Forecast \subseteq work.tab["predictions"].cols THEN Goes("v4") /\ Nothing
    ELSE Do("v4", <<"v4_commit", "temp", "wind", "cloud", "v4_version">>) /\ Nothing

\* Mutant: the version is compared with the one before.
AddForecastLate ==
    IF work.version >= 3 THEN Goes("v4") /\ Nothing
    ELSE Do("v4", <<"v4_commit", "temp", "wind", "cloud", "v4_version">>) /\ Nothing

\* Version 4, a script: if the first of the three forecast columns is not
\* there, they are added.
AddForecast ==
    IF "temp" \in work.tab["predictions"].cols THEN Goes("v4") /\ Nothing
    ELSE Do("v4", <<"v4_commit", "temp", "wind", "cloud", "v4_version">>) /\ Nothing
AddColumn ==
    \E c \in Forecast :
        /\ c \notin work.tab["predictions"].cols
        /\ Goes(c)
        /\ Scripted([work EXCEPT !.tab["predictions"].cols = @ \union {c}])
SetVersion4 == Goes("v4_version") /\ Written([work EXCEPT !.version = 4])

\* Version 5: bias factors became offsets.
ClearFactors == Once("v5", 5, Hold(work, {"bias_correction"}, "none"))

CreateAccuracy == Goes("accuracy") /\ Defined(Create(work, "lead_time_accuracy"))

\* The evaluation gets its lead time; by the columns, without a version.
MigrateEvaluation ==
    IF ~ Has(work, "evaluation") \/ "target_hours" \in work.tab["evaluation"].cols
    THEN Do("evaluation", <<"eval_create">>) /\ Nothing
    ELSE Do("evaluation", <<"eval_rename", "eval_recreate", "eval_copy", "eval_drop">>) /\ Nothing
RenameEvaluation ==
    /\ ~ Has(work, "evaluation_single")
    /\ Goes("eval_rename") /\ Defined(Rename(work, "evaluation", "evaluation_single"))
CreateEvaluation ==
    /\ Goes("eval_create") \/ Goes("eval_recreate")
    /\ Defined(Create(work, "evaluation"))
CopyEvaluation ==
    /\ Goes("eval_copy")
    /\ Written(Hold(work, {"evaluation"}, "leads"))
DropEvaluation == Goes("eval_drop") /\ Defined(With(work, "evaluation_single", Absent))

\* Mutant: the errors learned from consumer prices are kept.
DiscardConsumerNotErrors ==
    Once("v6", 6, Hold(work, {"price_history", "predictions", "bias_correction",
                              "lead_time_accuracy"}, "none"))
\* Version 6: all that is consumer prices, or learned from them, is discarded.
DiscardConsumer ==
    Once("v6", 6, Hold(work, {"price_history", "predictions", "error_metrics",
                              "bias_correction", "lead_time_accuracy"}, "none"))

\* Version 7: weather snapshots are keyed by their UTC slot.
RekeyWeather ==
    Once("v7", 7, IF work.tab["weather_history"].rows = "none" THEN work
                  ELSE Hold(work, {"weather_history"}, "utc"))

\* Version 8: the days of price_history become rows of spot_prices.
MovePrices ==
    Once("v8", 8, IF work.tab["price_history"].rows = "none" THEN work
                  ELSE Hold(Hold(work, {"spot_prices"}, work.tab["price_history"].rows),
                            {"price_history"}, "none"))

\* Version 9: bias offsets get a lead-time bucket.
MigrateBias ==
    IF work.version >= 9 THEN Goes("v9") /\ Nothing
    ELSE IF "bucket" \in work.tab["bias_correction"].cols THEN Do("v9", <<"v9_version">>) /\ Nothing
    ELSE Do("v9", <<"v9_rename", "v9_create", "v9_copy", "v9_drop", "v9_version">>) /\ Nothing
RenameBias ==
    /\ ~ Has(work, "bias_correction_pooled")
    /\ Goes("v9_rename")
    /\ Defined(Rename(work, "bias_correction", "bias_correction_pooled"))
CopyBias ==
    /\ Goes("v9_copy")
    /\ Written(Hold(work, {"bias_correction"}, work.tab["bias_correction_pooled"].rows))
DropBias == Goes("v9_drop") /\ Defined(With(work, "bias_correction_pooled", Absent))
SetVersion9 == Goes("v9_version") /\ Written([work EXCEPT !.version = 9])

\* Mutant: the offsets are reset at every start.
ResetOffsetsAlways ==
    Goes("v10_reset") /\ Written([Hold(work, {"bias_correction"}, "none") EXCEPT !.version = 10])

\* Version 10: predictions keep their offset, and the old offsets are reset.
AddOffset ==
    /\ Do("v10", <<"v10_reset">>)
    /\ Defined([work EXCEPT !.tab["predictions"].cols = @ \union {"offset"}])
ResetOffsets == Once("v10_reset", 10, Hold(work, {"bias_correction"}, "none"))

Commit ==
    /\ Goes("commit") \/ Goes("v2_commit") \/ Goes("v4_commit")
    /\ Scripted(work)

\* All is done: the constructor goes on, or clear_all returns.
Done ==
    /\ mode \in {"opening", "clearing"}
    /\ todo = << >>
    /\ mode' = IF mode = "opening" THEN "imports" ELSE "open"
    /\ UNCHANGED <<disk, work, txn, todo, file, stops>>
-----------------------------------------------------------------------------
(* _maybe_migrate_from_json: the file's training state, into a database     *)
(* without predictions; then the file is renamed.                          *)

Importable == file /\ work.tab["predictions"].rows = "none"
\* Mutant: the imported state is not committed before the file is renamed.
ImportUncommitted ==
    /\ mode = "imports" /\ Importable
    /\ Written(Hold(work, {"meta"}, "file"))
    /\ mode' = "renames"
    /\ UNCHANGED <<todo, file, stops>>
Import ==
    /\ mode = "imports" /\ Importable
    /\ Scripted(Hold(work, {"meta"}, "file"))
    /\ mode' = "renames"
    /\ UNCHANGED <<todo, file, stops>>
RenameFile ==
    /\ mode = "renames"
    /\ mode' = "open"
    /\ file' \in BOOLEAN     \* renaming may fail: it is only logged
    /\ UNCHANGED <<disk, work, txn, todo, stops>>
NoImport ==
    /\ mode = "imports" /\ ~ Importable
    /\ mode' = "open"
    /\ UNCHANGED <<disk, work, txn, todo, file, stops>>
-----------------------------------------------------------------------------
(* Use, reset and stops *)

\* The kind of rows this release stores in a table.
Stores(t) == CASE t \in {"predictions", "error_metrics", "spot_prices", "lead_time_accuracy"} -> "spot"
               [] t = "bias_correction" -> "raw"
               [] t = "weather_history" -> "utc"
               [] t = "evaluation" -> "leads"
               [] t = "meta" -> "trained"

\* A store commits; into a table that is not there, or that lacks a column it
\* names, it raises.
Store(t) ==
    /\ mode \in {"open", "failed"}
    /\ Has(work, t) /\ Full(t) \subseteq work.tab[t].cols
    /\ Scripted(Hold(work, {t}, Stores(t)))
    /\ UNCHANGED <<mode, todo, file, stops>>

DropOf == [predictions |-> "drop_predictions", error_metrics |-> "drop_error_metrics",
           bias_correction |-> "drop_bias_correction", price_history |-> "drop_price_history",
           spot_prices |-> "drop_spot_prices", lead_time_accuracy |-> "drop_lead_time_accuracy",
           evaluation |-> "drop_evaluation", meta |-> "drop_meta"]
Dropped == <<"drop_predictions", "drop_error_metrics", "drop_bias_correction",
             "drop_price_history", "drop_spot_prices", "drop_lead_time_accuracy",
             "drop_evaluation", "drop_meta">>
\* Mutant: the evaluation is forgotten.
ClearNotEvaluation ==
    /\ mode \in {"open", "failed"}
    /\ mode' = "clearing"
    /\ todo' = SubSeq(Dropped, 1, 6) \o <<"drop_meta">> \o Schema \o <<"commit">>
    /\ UNCHANGED <<disk, work, txn, file, stops>>
\* clear_all: a script of DROPs, then the schema.
Clear ==
    /\ mode \in {"open", "failed"}
    /\ mode' = "clearing"
    /\ todo' = Dropped \o Schema \o <<"commit">>
    /\ UNCHANGED <<disk, work, txn, file, stops>>
Drop ==
    \E t \in DOMAIN DropOf :
        /\ Goes(DropOf[t])
        /\ Scripted([With(work, t, Absent) EXCEPT !.version = IF t = "meta" THEN 0 ELSE @])

\* A statement of clear_all raises: what is not committed is rolled back.
ClearFail ==
    /\ mode = "clearing" /\ stops < MaxStops
    /\ mode' = "failed"
    /\ work' = disk /\ txn' = FALSE /\ todo' = << >>
    /\ stops' = stops + 1
    /\ UNCHANGED <<disk, file>>

\* The process stops, the entry is closed, or the constructor raises: the
\* connection and what it did not commit are gone.
Stop ==
    /\ mode # "down" /\ stops < MaxStops
    /\ mode' = "down"
    /\ work' = disk /\ txn' = FALSE /\ todo' = << >>
    /\ stops' = stops + 1
    /\ UNCHANGED <<disk, file>>

Step ==
    \/ Open \/ CreateTables \/ CreateBias
    \/ MigratePredictions \/ RenamePredictions \/ RecreatePredictions
    \/ CopyPredictions \/ DropPredictions
    \/ ClearHourly \/ AddForecast \/ AddColumn \/ SetVersion4 \/ ClearFactors
    \/ CreateAccuracy \/ MigrateEvaluation \/ RenameEvaluation
    \/ CreateEvaluation \/ CopyEvaluation \/ DropEvaluation
    \/ DiscardConsumer \/ RekeyWeather \/ MovePrices
    \/ MigrateBias \/ RenameBias \/ CopyBias \/ DropBias \/ SetVersion9
    \/ AddOffset \/ ResetOffsets \/ Commit \/ Done
    \/ Import \/ RenameFile \/ NoImport \/ Drop

Next ==
    \/ Step
    \/ \E t \in Current \ {"price_history"} : Store(t)
    \/ Clear \/ ClearFail \/ Stop

Spec == Init /\ [][Next]_vars
FairSpec == Spec /\ WF_vars(Step)
-----------------------------------------------------------------------------
(* Properties *)

\* What of this release's kind a database knows, wherever it keeps it.
Known(db) ==
    {t \in Current : db.tab[t].rows = IF t = "price_history" THEN "spot" ELSE
                     IF t = "evaluation" THEN "leads" ELSE Stores(t)}

\* Once a database is open every table is there, nothing in it is a consumer
\* price or learned from one, every error and offset is of the kind that is
\* learned now, and the version says so: whichever release it came from, and
\* wherever an earlier start or reset of it was cut short.  The predictions
\* have every column a store names, unless a stop fell between the columns
\* version 4 adds: those not yet added are never added.
OpenIsCurrent ==
    mode = "open" =>
        /\ work = disk /\ disk.version = 10
        /\ \A t \in Current : disk.tab[t].rows \in {"none", IF t = "price_history" THEN "none"
                                                            ELSE Stores(t), "file"}
        /\ {"id", "offset"} \subseteq disk.tab["predictions"].cols
        /\ \A t \in {"bias_correction", "evaluation"} : disk.tab[t].cols = Full(t)
        /\ Full("predictions") \ disk.tab["predictions"].cols \in {{}, {"cloud"}, {"wind", "cloud"}}

\* What this release's kind of data is on disk is never lost but by a reset:
\* not by a migration, not by one that is repeated, not by a stop.  Prices may
\* move to their rows, and the evaluation of before lead times is, until it is
\* copied, at least still in the table it was renamed to.  A JSON file that
\* could not be renamed may be imported again, over the training state.  And
\* a reset that failed may have dropped the version: what is stored until the
\* next start is then discarded by it as consumer prices.  A reset that returns
\* has forgotten all that was learned; the weather outlives it in any case.
OnlyAResetForgets ==
    [][/\ mode # "clearing" /\ disk.version >= 6 =>
          LET prices(db) == {"price_history", "spot_prices"} \intersect Known(db) # {}
              single(db) == \/ \E t \in {"evaluation", "evaluation_single"} : db.tab[t].rows = "single"
                            \/ "evaluation" \in Known(db)
          IN  /\ Known(disk) \subseteq Known(disk') \union {"price_history"}
                                       \union (IF file THEN {"meta"} ELSE {})
              /\ prices(disk) => prices(disk')
              /\ single(disk) => single(disk')
       /\ mode = "clearing" /\ mode' = "open" => Known(disk') \subseteq {"weather_history"}
       /\ "weather_history" \in Known(disk) => "weather_history" \in Known(disk')]_vars

\* Every start opens the database if nothing stops it: no migration that was
\* cut short makes a statement of the next start raise.
OpensInTheEnd == []<>(mode \in {"open", "failed"})

\* Claim (ml/evaluation_storage.py): a table without lead times "is rebuilt
\* once at startup"; "its rows are kept as that lead time's".
EvaluationIsKept ==
    mode = "open" => disk.tab["evaluation_single"].rows # "single"
=============================================================================
